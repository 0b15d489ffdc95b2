---------------------- MODULE NotificationInboxProofs ----------------------
(***************************************************************************)
(* For every set of users, contents and comments and every bound: the      *)
(* badge counters of NotificationInbox agree with the rows, what the owner *)
(* dismissed stays away, every activity moves the push version, a grouped  *)
(* row counts its own likes, and nothing is left of erased content or of a *)
(* blocked actor.                                                          *)
(***************************************************************************)
EXTENDS NotificationInbox, FiniteSetTheorems, TLAPS

(* There are finitely many notification ids.                               *)
LEMMA IdsFinite == IsFiniteSet(Ids)
<1> DEFINE A == ContentKinds \X Contents
           B == {"comment"} \X Comments
           f == [p \in A |-> [kind |-> p[1], on |-> p[2]]]
           g == [p \in B |-> [kind |-> p[1], on |-> p[2]]]
<1>1. IsFiniteSet({"comment"})
  BY FS_Singleton
<1>2. IsFiniteSet(ContentKinds)
  <2>1. IsFiniteSet({"like"}) BY FS_Singleton
  <2>2. IsFiniteSet({"like"} \cup {"content_held"}) BY <2>1, FS_AddElement
  <2>3. IsFiniteSet({"like"} \cup {"content_held"} \cup {"content_restored"})
    BY <2>2, FS_AddElement
  <2>4. IsFiniteSet({"like"} \cup {"content_held"} \cup {"content_restored"} \cup {"content_deleted"})
    BY <2>3, FS_AddElement
  <2>5. IsFiniteSet({"like"} \cup {"content_held"} \cup {"content_restored"} \cup {"content_deleted"} \cup {"case"})
    BY <2>4, FS_AddElement
  <2>6. ContentKinds = {"like"} \cup {"content_held"} \cup {"content_restored"} \cup {"content_deleted"} \cup {"case"}
    BY DEF ContentKinds
  <2> QED BY <2>5, <2>6
<1>3. IsFiniteSet(A) /\ IsFiniteSet(B)
  BY <1>1, <1>2, SetsAreFinite, FS_Product
<1>4. f \in Surjection(A, [kind : ContentKinds, on : Contents])
  <2>1. f \in [A -> [kind : ContentKinds, on : Contents]] OBVIOUS
  <2>2. ASSUME NEW n \in [kind : ContentKinds, on : Contents]
        PROVE  <<n.kind, n.on>> \in A /\ f[<<n.kind, n.on>>] = n
    OBVIOUS
  <2> QED BY <2>1, <2>2, Zenon DEF Surjection
<1>5. g \in Surjection(B, [kind : {"comment"}, on : Comments])
  <2>1. g \in [B -> [kind : {"comment"}, on : Comments]] OBVIOUS
  <2>2. ASSUME NEW n \in [kind : {"comment"}, on : Comments]
        PROVE  <<n.kind, n.on>> \in B /\ g[<<n.kind, n.on>>] = n
    OBVIOUS
  <2> QED BY <2>1, <2>2, Zenon DEF Surjection
<1>6. IsFiniteSet([kind : ContentKinds, on : Contents])
  BY <1>3, <1>4, FS_Surjection
<1>7. IsFiniteSet([kind : {"comment"}, on : Comments])
  BY <1>3, <1>5, FS_Surjection
<1> QED BY <1>6, <1>7, FS_Union DEF Ids

(* The rows a badge counts form a finite set, so counting is arithmetic.   *)
LEMMA UnreadRowsFinite ==
    ASSUME NEW u, NEW c
    PROVE  /\ UnreadRows(u, c) \subseteq Ids
           /\ IsFiniteSet(UnreadRows(u, c)) /\ Cardinality(UnreadRows(u, c)) \in Nat
<1>1. UnreadRows(u, c) \subseteq Ids BY DEF UnreadRows
<1> QED BY <1>1, IdsFinite, FS_Subset, FS_CardinalityType

LEMMA KnownIds ==
    /\ \A t \in Contents : LikeRow(t) \in Ids /\ Channel(LikeRow(t)) = "personal"
    /\ \A c \in Comments : CommentRow(c) \in Ids /\ Channel(CommentRow(c)) = "personal"
    /\ \A t \in Contents, k \in ContentKinds : StatusRow(k, t) \in Ids
    /\ [kind : Versioned, on : Contents] \subseteq Ids
    /\ \A n \in Ids : Channel(n) \in Channels
BY DEF LikeRow, CommentRow, StatusRow, Ids, ContentKinds, Versioned, Channel, Channels
-----------------------------------------------------------------------------
(* The step lemmas: each write shared by the handlers keeps the rows and   *)
(* counters well typed and keeps, for every user and channel, the distance *)
(* between the counter and the rows it stands for.                         *)
InboxTyped ==
    /\ inbox \in [Users -> [Ids -> Row]]
    /\ unread \in [Users -> [Channels -> Int]]
Gap(u, c) == unread[u][c] - Cardinality(UnreadRows(u, c))
Counted ==
    /\ InboxTyped'
    /\ \A u \in Users, c \in Channels : Gap(u, c)' = Gap(u, c)

LEMMA UnchangedCounted ==
    ASSUME InboxTyped, UNCHANGED <<inbox, unread>>
    PROVE  Counted
BY DEF Counted, InboxTyped, Gap, UnreadRows

LEMMA StageCounted ==
    ASSUME InboxTyped, NEW R \in SUBSET Users, NEW n \in Ids, NEW version,
           \A u \in R : version[u] \in Nat,
           NEW generation \in Nat, NEW count \in Nat, NEW actor \in Users \cup {NoUser},
           Stage(R, n, version, generation, count, actor)
    PROVE  Counted
<1> USE DEF InboxTyped
<1>1. Channel(n) \in Channels BY KnownIds
<1>2. ASSUME NEW u \in Users
      PROVE  /\ inbox'[u] \in [Ids -> Row]
             /\ unread'[u] \in [Channels -> Int]
  <2>1. u \in R => [state |-> "unread", version |-> version[u], generation |-> generation,
                    count |-> count, actor |-> actor] \in Row
    BY DEF Row
  <2>2. inbox'[u] \in [Ids -> Row] BY <2>1 DEF Stage
  <2>3. unread'[u] \in [Channels -> Int] BY <1>1 DEF Stage
  <2> QED BY <2>2, <2>3
<1>3. InboxTyped'
  BY <1>2 DEF Stage
<1>4. ASSUME NEW u \in Users, NEW c \in Channels
      PROVE  Gap(u, c)' = Gap(u, c)
  <2>1. CASE u \in R /\ inbox[u][n].state # "unread" /\ c = Channel(n)
    <3>1. n \notin UnreadRows(u, c) /\ UnreadRows(u, c)' = UnreadRows(u, c) \cup {n}
      BY <2>1 DEF Stage, UnreadRows
    <3>2. unread'[u][c] = unread[u][c] + 1
      BY <2>1 DEF Stage
    <3>3. Cardinality(UnreadRows(u, c) \cup {n}) = Cardinality(UnreadRows(u, c)) + 1
      BY <3>1, UnreadRowsFinite, FS_AddElement
    <3>4. unread[u][c] \in Int /\ Cardinality(UnreadRows(u, c)) \in Nat
      BY UnreadRowsFinite
    <3> QED BY <3>1, <3>2, <3>3, <3>4 DEF Gap
  <2>2. CASE ~(u \in R /\ inbox[u][n].state # "unread" /\ c = Channel(n))
    <3>1. UnreadRows(u, c)' = UnreadRows(u, c)
      BY <2>2 DEF Stage, UnreadRows
    <3>2. unread'[u][c] = unread[u][c]
      BY <2>2, <1>1 DEF Stage
    <3> QED BY <3>1, <3>2 DEF Gap
  <2> QED BY <2>1, <2>2
<1> QED BY <1>3, <1>4 DEF Counted

LEMMA DropCounted ==
    ASSUME InboxTyped, NEW S, Drop(S)
    PROVE  Counted
<1> USE DEF InboxTyped
<1>1. ASSUME NEW u \in Users, NEW c \in Channels
      PROVE  unread'[u][c] \in Int /\ Gap(u, c)' = Gap(u, c)
  <2> DEFINE D == {n \in UnreadRows(u, c) : <<u, n>> \in S}
  <2>1. UnreadRows(u, c)' = UnreadRows(u, c) \ D
    BY DEF Drop, UnreadRows, NoRow
  <2>2. D \subseteq UnreadRows(u, c) /\ UnreadRows(u, c) \cap D = D OBVIOUS
  <2>3. Cardinality(D) \in Nat
    BY <2>2, UnreadRowsFinite, FS_Subset, FS_CardinalityType
  <2>4. Cardinality(UnreadRows(u, c) \ D) = Cardinality(UnreadRows(u, c)) - Cardinality(D)
    BY <2>2, UnreadRowsFinite, FS_Difference
  <2>5. unread'[u][c] = unread[u][c] - Cardinality(D)
    BY DEF Drop
  <2> QED BY <2>1, <2>3, <2>4, <2>5, UnreadRowsFinite DEF Gap
<1>2. InboxTyped'
  <2>1. NoRow \in Row BY DEF NoRow, Row
  <2>2. inbox' \in [Users -> [Ids -> Row]] BY <2>1 DEF Drop
  <2>3. unread' \in [Users -> [Channels -> Int]] BY <1>1 DEF Drop
  <2> QED BY <2>2, <2>3
<1> QED BY <1>1, <1>2 DEF Counted

LEMMA MarkReadCounted ==
    ASSUME InboxTyped, NEW S, MarkRead(S)
    PROVE  Counted
<1> USE DEF InboxTyped
<1>1. ASSUME NEW u \in Users, NEW c \in Channels
      PROVE  unread'[u][c] \in Int /\ Gap(u, c)' = Gap(u, c)
  <2> DEFINE D == {n \in UnreadRows(u, c) : <<u, n>> \in S}
  <2>1. UnreadRows(u, c)' = UnreadRows(u, c) \ D
    BY DEF MarkRead, UnreadRows, Row
  <2>2. D \subseteq UnreadRows(u, c) /\ UnreadRows(u, c) \cap D = D OBVIOUS
  <2>3. Cardinality(D) \in Nat
    BY <2>2, UnreadRowsFinite, FS_Subset, FS_CardinalityType
  <2>4. Cardinality(UnreadRows(u, c) \ D) = Cardinality(UnreadRows(u, c)) - Cardinality(D)
    BY <2>2, UnreadRowsFinite, FS_Difference
  <2>5. unread'[u][c] = unread[u][c] - Cardinality(D)
    BY DEF MarkRead
  <2> QED BY <2>1, <2>3, <2>4, <2>5, UnreadRowsFinite DEF Gap
<1>2. InboxTyped'
  <2>0. \A r \in Row : [r EXCEPT !.state = "read"] \in Row BY DEF Row
  <2>1. inbox' \in [Users -> [Ids -> Row]] BY <2>0 DEF MarkRead
  <2>2. unread' \in [Users -> [Channels -> Int]] BY <1>1 DEF MarkRead
  <2> QED BY <2>1, <2>2
<1> QED BY <1>1, <1>2 DEF Counted

(* A grouped-like row that only loses a count stays as unread as it was.   *)
LEMMA RemoveCounted ==
    ASSUME InboxTyped, NEW t \in Contents, NEW like, RemoveContribution(t, like)
    PROVE  Counted
<1> DEFINE o == ContentOwner[t]
           n == LikeRow(t)
           row == inbox[o][n]
<1> USE DEF InboxTyped
<1>1. o \in Users /\ n \in Ids
  BY KnownIds, OwnersAreUsers
<1>2. CASE UNCHANGED <<inbox, unread>>
  BY <1>2, UnchangedCounted
<1>3. CASE Drop({<<o, n>>})
  BY <1>3, DropCounted
<1>4. CASE /\ row.count > 1
           /\ inbox' = [inbox EXCEPT ![o][n].count = @ - 1]
           /\ UNCHANGED unread
  <2>1. row \in Row /\ row.count \in Nat BY <1>1 DEF Row
  <2> HIDE DEF row
  <2>2. [row EXCEPT !.count = @ - 1] \in Row
    <3>1. \A r \in Row, k \in Nat : [r EXCEPT !.count = k] \in Row
      BY DEF Row
    <3>2. row.count - 1 \in Nat BY <1>4, <2>1
    <3> QED BY <2>1, <3>1, <3>2
  <2> USE DEF row
  <2>3. inbox' = [inbox EXCEPT ![o] = [inbox[o] EXCEPT ![n] = [row EXCEPT !.count = @ - 1]]]
    BY <1>4, <1>1
  <2>4. inbox' \in [Users -> [Ids -> Row]] BY <2>2, <2>3, <1>1
  <2>5. \A u \in Users, m \in Ids : inbox'[u][m].state = inbox[u][m].state
    BY <2>3, <2>1, <1>1 DEF Row
  <2>6. \A u \in Users, c \in Channels : UnreadRows(u, c)' = UnreadRows(u, c)
    BY <2>5 DEF UnreadRows
  <2> QED BY <1>4, <2>4, <2>6 DEF Counted, Gap
<1> QED BY <1>2, <1>3, <1>4 DEF RemoveContribution
-----------------------------------------------------------------------------
(* Every action but the demotion's last write keeps the distance.          *)
LEMMA NextVersionIsNat ==
    ASSUME InboxTyped, NEW u \in Users, NEW n \in Ids
    PROVE  inbox[u][n] \in Row /\ NextVersion(u, n) \in Nat
BY DEF InboxTyped, NextVersion, Row

LEMMA ReactCounted ==
    ASSUME TypeOK, NEW a \in Users, NEW t \in Contents, React(a, t)
    PROVE  Counted
<1> DEFINE o == ContentOwner[t]
           n == LikeRow(t)
           row == inbox[o][n]
           generation == IF row.state = "absent" THEN lastGeneration + 1 ELSE row.generation
<1>1. InboxTyped /\ lastGeneration \in Nat BY DEF TypeOK, InboxTyped
<1>2. o \in Users /\ n \in Ids BY KnownIds, OwnersAreUsers
<1>3. row \in Row /\ NextVersion(o, n) \in Nat BY <1>1, <1>2, NextVersionIsNat
<1>4. generation \in Nat /\ row.count + 1 \in Nat BY <1>1, <1>3 DEF Row
<1>5. CASE CanNotify(o, a)
  <2>1. Stage({o}, n, [u \in {o} |-> NextVersion(u, n)], generation, row.count + 1, NoUser)
    BY <1>5 DEF React
  <2> HIDE DEF o, n, row, generation
  <2> QED BY <2>1, <1>1, <1>2, <1>3, <1>4, StageCounted
<1>6. CASE ~CanNotify(o, a)
  BY <1>1, <1>6, UnchangedCounted DEF React
<1> QED BY <1>5, <1>6

LEMMA PostCounted ==
    ASSUME TypeOK, NEW a \in Users, NEW c \in Comments, PostComment(a, c)
    PROVE  Counted
<1> DEFINE n == CommentRow(c)
<1>1. InboxTyped BY DEF TypeOK, InboxTyped
<1>2. PICK R \in SUBSET Users : Stage(R, n, [u \in R |-> NextVersion(u, n)], 0, 1, a)
  <2> DEFINE t == CommentParent[c]
             told(x) == {u \in {ContentOwner[t], x} \ {NoUser} : CanNotify(u, a)}
             authors == {posted[d].author : d \in
                {d \in Comments : CommentParent[d] = t /\ posted[d].status = "active"}}
  <2>1. PICK x \in {NoUser} \cup authors :
            Stage(told(x), n, [u \in told(x) |-> NextVersion(u, n)], 0, 1, a)
    BY DEF PostComment
  <2>2. x \in Users \cup {NoUser} BY DEF TypeOK
  <2>3. ContentOwner[t] \in Users BY OwnersAreUsers
  <2>4. told(x) \in SUBSET Users BY <2>2, <2>3
  <2> HIDE DEF told
  <2> QED BY <2>1, <2>4
<1>3. n \in Ids BY KnownIds
<1>4. \A u \in R : [v \in R |-> NextVersion(v, n)][u] \in Nat
  BY <1>1, <1>3, NextVersionIsNat
<1> HIDE DEF n
<1> QED BY <1>1, <1>2, <1>3, <1>4, StageCounted

LEMMA HoldCounted ==
    ASSUME TypeOK, NEW t \in Contents, NEW from, NEW to, NEW kind \in ContentKinds,
           SetHold(t, from, to, kind)
    PROVE  Counted
<1> DEFINE o == ContentOwner[t]
           n == StatusRow(kind, t)
<1>1. InboxTyped BY DEF TypeOK, InboxTyped
<1>2. o \in Users /\ n \in Ids BY KnownIds, OwnersAreUsers
<1>3. NextVersion(o, n) \in Nat BY <1>1, <1>2, NextVersionIsNat
<1>4. \/ Stage({o}, n, [u \in {o} |-> NextVersion(u, n)], 0, 1, NoUser)
      \/ UNCHANGED <<inbox, unread>>
  BY DEF SetHold
<1> HIDE DEF o, n
<1> QED BY <1>1, <1>2, <1>3, <1>4, StageCounted, UnchangedCounted

LEMMA DeliverCounted ==
    ASSUME TypeOK, NEW u \in Users, NEW n \in Ids, NEW v \in Nat, Deliver(u, n, v)
    PROVE  Counted
<1>1. InboxTyped BY DEF TypeOK, InboxTyped
<1>2. Stage({u}, n, [x \in {u} |-> v], 0, 1, NoUser) BY DEF Deliver
<1>3. \A w \in {u} : [x \in {u} |-> v][w] \in Nat OBVIOUS
<1> QED BY <1>1, <1>2, <1>3, StageCounted

LEMMA SetReadCounted ==
    ASSUME TypeOK, NEW u \in Users, NEW n \in Ids, NEW read \in BOOLEAN,
           SetNotificationRead(u, n, read)
    PROVE  Counted
<1> DEFINE new == IF read THEN "read" ELSE "unread"
           c == Channel(n)
<1>1. InboxTyped /\ inbox[u][n] \in Row /\ c \in Channels
  BY KnownIds DEF TypeOK, InboxTyped
<1>2. inbox' = [inbox EXCEPT ![u] = [inbox[u] EXCEPT ![n] = [inbox[u][n] EXCEPT !.state = new]]]
  BY DEF SetNotificationRead
<1>3. [inbox[u][n] EXCEPT !.state = new] \in Row
  <2>1. \A r \in Row, x \in {"read", "unread"} : [r EXCEPT !.state = x] \in Row BY DEF Row
  <2> QED BY <2>1, <1>1
<1>4. unread' = [unread EXCEPT ![u] = [unread[u] EXCEPT ![c] = IF read THEN @ - 1 ELSE @ + 1]]
  BY DEF SetNotificationRead
<1>5. unread[u][c] \in Int BY <1>1 DEF InboxTyped
<1>6. InboxTyped'
  <2>1. inbox' \in [Users -> [Ids -> Row]] BY <1>1, <1>2, <1>3 DEF InboxTyped
  <2>2. unread' \in [Users -> [Channels -> Int]] BY <1>1, <1>4, <1>5 DEF InboxTyped
  <2> QED BY <2>1, <2>2 DEF InboxTyped
<1>7. ASSUME NEW w \in Users, NEW d \in Channels
      PROVE  Gap(w, d)' = Gap(w, d)
  <2>0. /\ inbox[u][n].state = (IF read THEN "unread" ELSE "read")
        /\ inbox'[u][n].state = new
    BY <1>1, <1>2 DEF SetNotificationRead, Present, Row, InboxTyped
  <2>1. \A x \in Users, m \in Ids : <<x, m>> # <<u, n>> => inbox'[x][m] = inbox[x][m]
    BY <1>1, <1>2 DEF InboxTyped
  <2>2. unread[w][d] \in Int /\ Cardinality(UnreadRows(w, d)) \in Nat
    BY <1>1, UnreadRowsFinite DEF InboxTyped
  <2>3. CASE w = u /\ d = c /\ read
    <3>1. n \in UnreadRows(u, c) /\ UnreadRows(u, c)' = UnreadRows(u, c) \ {n}
      BY <2>0, <2>1, <2>3 DEF UnreadRows
    <3>2. unread'[u][c] = unread[u][c] - 1 BY <1>1, <1>4, <2>3 DEF InboxTyped
    <3>3. Cardinality(UnreadRows(u, c) \ {n}) = Cardinality(UnreadRows(u, c)) - 1
      BY <3>1, UnreadRowsFinite, FS_RemoveElement
    <3>4. unread[u][c] \in Int /\ Cardinality(UnreadRows(u, c)) \in Nat
      BY <2>2, <2>3
    <3>5. Cardinality(UnreadRows(u, c))' = Cardinality(UnreadRows(u, c)) - 1
      BY <3>1, <3>3
    <3>6. Gap(u, c)' = Gap(u, c) BY <3>2, <3>4, <3>5 DEF Gap
    <3> QED BY <3>6, <2>3
  <2>4. CASE w = u /\ d = c /\ ~read
    <3>1. n \notin UnreadRows(u, c) /\ UnreadRows(u, c)' = UnreadRows(u, c) \cup {n}
      BY <2>0, <2>1, <2>4 DEF UnreadRows
    <3>2. unread'[u][c] = unread[u][c] + 1 BY <1>1, <1>4, <2>4 DEF InboxTyped
    <3>3. Cardinality(UnreadRows(u, c) \cup {n}) = Cardinality(UnreadRows(u, c)) + 1
      BY <3>1, UnreadRowsFinite, FS_AddElement
    <3>4. unread[u][c] \in Int /\ Cardinality(UnreadRows(u, c)) \in Nat
      BY <2>2, <2>4
    <3>5. Cardinality(UnreadRows(u, c))' = Cardinality(UnreadRows(u, c)) + 1
      BY <3>1, <3>3
    <3>6. Gap(u, c)' = Gap(u, c) BY <3>2, <3>4, <3>5 DEF Gap
    <3> QED BY <3>6, <2>4
  <2>5. CASE ~(w = u /\ d = c)
    <3>1. UnreadRows(w, d)' = UnreadRows(w, d)
      BY <2>1, <2>5 DEF UnreadRows
    <3>2. unread'[w][d] = unread[w][d] BY <1>1, <1>4, <2>5 DEF InboxTyped
    <3> QED BY <3>1, <3>2 DEF Gap
  <2> QED BY <2>3, <2>4, <2>5
<1> QED BY <1>6, <1>7 DEF Counted

LEMMA NextCounted ==
    ASSUME TypeOK, Next
    PROVE  Counted \/ \E u \in Users : ZeroAdminUnread(u)
<1> USE DEF TypeOK
<1>0. InboxTyped BY DEF InboxTyped
<1>1. ASSUME NEW a \in Users, NEW t \in Contents, React(a, t) PROVE Counted
  BY <1>1, ReactCounted
<1>2. ASSUME NEW a \in Users, NEW t \in Contents, Unreact(a, t) PROVE Counted
  BY <1>0, <1>2, RemoveCounted DEF Unreact
<1>3. ASSUME NEW a \in Users, NEW c \in Comments, PostComment(a, c) PROVE Counted
  BY <1>3, PostCounted
<1>4. ASSUME NEW c \in Comments, DeleteComment(c) PROVE Counted
  BY <1>0, <1>4, DropCounted DEF DeleteComment
<1>5. ASSUME NEW t \in Contents, HoldContent(t) \/ RestoreContent(t) PROVE Counted
  BY <1>5, HoldCounted DEF HoldContent, RestoreContent, ContentKinds
<1>6. ASSUME NEW t \in Contents, DeleteContent(t) \/ EraseContent(t) PROVE Counted
  BY <1>0, <1>6, UnchangedCounted DEF DeleteContent, EraseContent
<1>7. ASSUME NEW n \in DOMAIN issued, Issue(n) PROVE Counted
  BY <1>0, <1>7, UnchangedCounted DEF Issue
<1>8. ASSUME NEW u \in Users, NEW n \in DOMAIN issued, NEW v \in 1..issued[n],
             Deliver(u, n, v)
      PROVE  Counted
  <2>1. issued \in [[kind : Versioned, on : Contents] -> Nat] OBVIOUS
  <2>2. n \in [kind : Versioned, on : Contents] /\ issued[n] \in Nat BY <2>1
  <2>3. n \in Ids BY <2>2, KnownIds
  <2>4. v \in Nat BY <2>2
  <2> QED BY <1>8, <2>3, <2>4, DeliverCounted
<1>9. ASSUME NEW u \in Users, NEW n \in Ids, NEW read \in BOOLEAN,
             SetNotificationRead(u, n, read)
      PROVE  Counted
  BY <1>9, SetReadCounted
<1>10. ASSUME NEW u \in Users, NEW n \in Ids, DeleteNotification(u, n) PROVE Counted
  BY <1>0, <1>10, DropCounted DEF DeleteNotification
<1>11. ASSUME NEW s \in BulkSweeps, StartBulk(s) PROVE Counted
  BY <1>0, <1>11, UnchangedCounted DEF StartBulk
<1>12. ASSUME NEW o \in Users, NEW a \in Users, Block(o, a) \/ Unblock(o, a) PROVE Counted
  BY <1>0, <1>12, UnchangedCounted DEF Block, Unblock
<1>13. ASSUME NEW u \in Users, DeleteAccount(u) \/ GrantAdmin(u) \/ RemoveAdmin(u)
       PROVE  Counted
  BY <1>0, <1>13, UnchangedCounted DEF DeleteAccount, GrantAdmin, RemoveAdmin
<1>14. ASSUME NEW s \in Sweeps, QueryPage(s) \/ QueryLikes(s) \/ DetachDone(s) \/ SweepFails(s)
       PROVE  Counted
  BY <1>0, <1>14, UnchangedCounted DEF QueryPage, QueryLikes, DetachDone, SweepFails
<1>15. ASSUME NEW s \in Sweeps, CommitPage(s) PROVE Counted
  BY <1>0, <1>15, MarkReadCounted, DropCounted DEF CommitPage
<1>16. ASSUME NEW s \in Sweeps, NEW a \in Users, NEW t \in Contents, DetachLike(s, a, t)
       PROVE  Counted
  BY <1>0, <1>16, RemoveCounted, UnchangedCounted DEF DetachLike
<1> HIDE DEF TypeOK
<1>17. ASSUME NEW s \in Sweeps, SweepStep(s) \/ SweepFails(s) PROVE Counted
  BY <1>14, <1>15, <1>16, <1>17 DEF SweepStep
<1>18. ASSUME NEW u \in Users,
              DeleteAccount(u) \/ GrantAdmin(u) \/ RemoveAdmin(u) \/ ZeroAdminUnread(u)
       PROVE  Counted \/ \E w \in Users : ZeroAdminUnread(w)
  BY <1>13, <1>18
<1> QED
  BY <1>1, <1>2, <1>3, <1>4, <1>5, <1>6, <1>7, <1>8, <1>9, <1>10, <1>11, <1>12,
     <1>17, <1>18 DEF Next

(* The demotion's last write cannot bring the admin badge above the rows.  *)
LEMMA ZeroCounted ==
    ASSUME TypeOK, NEW a \in Users, ZeroAdminUnread(a)
    PROVE  /\ InboxTyped'
           /\ \A u \in Users : Gap(u, "personal")' = Gap(u, "personal")
           /\ \A u \in Users : Gap(u, "admin")' = Gap(u, "admin") \/ Gap(u, "admin")' <= 0
<1>1. InboxTyped' BY DEF TypeOK, InboxTyped, ZeroAdminUnread, Channels
<1>2. ASSUME NEW u \in Users, NEW c
      PROVE  UnreadRows(u, c)' = UnreadRows(u, c) /\ Cardinality(UnreadRows(u, c)) \in Nat
  BY UnreadRowsFinite DEF ZeroAdminUnread, UnreadRows
<1>3. ASSUME NEW u \in Users
      PROVE  /\ unread'[u]["personal"] = unread[u]["personal"]
             /\ unread'[u]["admin"] = unread[u]["admin"] \/ unread'[u]["admin"] = 0
  BY DEF TypeOK, ZeroAdminUnread, Channels
<1> QED BY <1>1, <1>2, <1>3 DEF Gap
-----------------------------------------------------------------------------
(* The types of everything but the rows and the counters.                  *)
Posts == [status : {"new", "active", "deleted", "erased"}, author : Users \cup {NoUser}]
Statuses == {"active", "held", "deleting", "gone"}
Cells == [at : {"idle", "query", "commit", "last"},
          page : SUBSET (Users \X Ids \cup Users \X Contents)]
RestTyped ==
    /\ dismissed \in [Users -> [Ids -> Nat]]
    /\ likes \in [Contents -> [Users -> Like]]
    /\ posted \in [Comments -> Posts]
    /\ content \in [Contents -> Statuses]
    /\ blocked \subseteq Users \X Users
    /\ eligible \in [Users -> BOOLEAN]
    /\ admins \subseteq Users
    /\ issued \in [[kind : Versioned, on : Contents] -> Nat]
    /\ sweeps \in [Sweeps -> Cells]
    /\ lastGeneration \in Nat

LEMMA TypeSplit == TypeOK <=> InboxTyped /\ RestTyped
BY DEF TypeOK, InboxTyped, RestTyped, Posts, Statuses, Cells

LEMMA CellTypes ==
    /\ Idle \in Cells /\ Querying \in Cells
    /\ \A s : AfterLastPage(s) \in Cells
    /\ \A P \in SUBSET (Users \X Ids \cup Users \X Contents) : [at |-> "commit", page |-> P] \in Cells
BY DEF Cells, Idle, Querying, AfterLastPage

(* A tombstone takes the version of a row.                                 *)
LEMMA DismissTyped ==
    ASSUME InboxTyped, dismissed \in [Users -> [Ids -> Nat]], NEW S, Dismiss(S)
    PROVE  dismissed' \in [Users -> [Ids -> Nat]]
<1>1. \A u \in Users, n \in Ids : inbox[u][n].version \in Nat
  BY DEF InboxTyped, Row
<1> QED BY <1>1 DEF Dismiss

LEMMA StartTyped ==
    ASSUME sweeps \in [Sweeps -> Cells], NEW S, Start(S)
    PROVE  sweeps' \in [Sweeps -> Cells]
BY CellTypes DEF Start

LEMMA ReactTyped ==
    ASSUME TypeOK, NEW a \in Users, NEW t \in Contents, React(a, t)
    PROVE  RestTyped'
<1> DEFINE o == ContentOwner[t]
           row == inbox[o][LikeRow(t)]
           generation == IF row.state = "absent" THEN lastGeneration + 1 ELSE row.generation
<1>1. InboxTyped /\ RestTyped BY TypeSplit
<1>2. o \in Users /\ LikeRow(t) \in Ids BY KnownIds, OwnersAreUsers
<1>3. row \in Row BY <1>1, <1>2, NextVersionIsNat
<1>4. generation \in Nat BY <1>1, <1>3 DEF Row, RestTyped
<1>5. PICK g \in Nat : likes' = [likes EXCEPT ![t] = [likes[t] EXCEPT ![a] =
                                    [liked |-> TRUE, generation |-> g]]]
  <2>1. CASE CanNotify(o, a)
    <3>1. likes' = [likes EXCEPT ![t][a] = [liked |-> TRUE, generation |-> generation]]
      BY <2>1 DEF React
    <3> HIDE DEF generation
    <3> QED BY <3>1, <1>4
  <2>2. CASE ~CanNotify(o, a)
    BY <2>2 DEF React
  <2> QED BY <2>1, <2>2
<1>6. lastGeneration' = generation \/ lastGeneration' = lastGeneration BY DEF React
<1>7. likes' \in [Contents -> [Users -> Like]]
  <2>1. [liked |-> TRUE, generation |-> g] \in Like BY <1>5 DEF Like
  <2>2. likes[t] \in [Users -> Like] BY <1>1 DEF RestTyped
  <2>3. [likes[t] EXCEPT ![a] = [liked |-> TRUE, generation |-> g]] \in [Users -> Like]
    BY <2>1, <2>2
  <2> QED BY <1>1, <1>5, <2>3 DEF RestTyped
<1>8. lastGeneration' \in Nat BY <1>1, <1>4, <1>6 DEF RestTyped
<1>9. UNCHANGED <<dismissed, posted, content, blocked, eligible, admins, issued, sweeps>>
  BY DEF React
<1> QED BY <1>1, <1>7, <1>8, <1>9 DEF RestTyped

LEMMA UnreactTyped ==
    ASSUME TypeOK, NEW a \in Users, NEW t \in Contents, Unreact(a, t)
    PROVE  RestTyped'
<1>1. RestTyped BY TypeSplit
<1>2. likes' = [likes EXCEPT ![t] = [likes[t] EXCEPT ![a] = NoLike]] BY DEF Unreact
<1>3. NoLike \in Like BY DEF NoLike, Like
<1>4. likes' \in [Contents -> [Users -> Like]] BY <1>1, <1>2, <1>3 DEF RestTyped
<1>5. UNCHANGED <<dismissed, posted, content, blocked, eligible, admins, issued, sweeps,
                  lastGeneration>>
  BY DEF Unreact
<1> QED BY <1>1, <1>4, <1>5 DEF RestTyped

LEMMA CommentTyped ==
    ASSUME TypeOK, NEW c \in Comments, DeleteComment(c) \/ \E a \in Users : PostComment(a, c)
    PROVE  RestTyped'
<1>1. RestTyped BY TypeSplit
<1>2. CASE DeleteComment(c)
  <2>1. posted' = [posted EXCEPT ![c] = [posted[c] EXCEPT !.status = "deleted"]]
    BY <1>2 DEF DeleteComment
  <2>2. [posted[c] EXCEPT !.status = "deleted"] \in Posts BY <1>1 DEF RestTyped, Posts
  <2>3. posted' \in [Comments -> Posts] BY <1>1, <2>1, <2>2 DEF RestTyped
  <2>4. sweeps' \in [Sweeps -> Cells] BY <1>1, <1>2, StartTyped DEF DeleteComment, RestTyped
  <2>5. UNCHANGED <<dismissed, likes, content, blocked, eligible, admins, issued, lastGeneration>>
    BY <1>2 DEF DeleteComment
  <2> QED BY <1>1, <2>3, <2>4, <2>5 DEF RestTyped
<1>3. ASSUME NEW a \in Users, PostComment(a, c) PROVE RestTyped'
  <2>1. posted' = [posted EXCEPT ![c] = [status |-> "active", author |-> a]]
    BY <1>3 DEF PostComment
  <2>2. [status |-> "active", author |-> a] \in Posts BY DEF Posts
  <2>3. posted' \in [Comments -> Posts] BY <1>1, <2>1, <2>2 DEF RestTyped
  <2>4. UNCHANGED <<dismissed, likes, content, blocked, eligible, admins, issued, sweeps,
                    lastGeneration>>
    BY <1>3 DEF PostComment
  <2> QED BY <1>1, <2>3, <2>4 DEF RestTyped
<1> QED BY <1>2, <1>3

LEMMA ContentTyped ==
    ASSUME TypeOK, NEW t \in Contents,
           HoldContent(t) \/ RestoreContent(t) \/ DeleteContent(t) \/ EraseContent(t)
    PROVE  RestTyped'
<1>1. RestTyped BY TypeSplit
<1>2. CASE HoldContent(t) \/ RestoreContent(t)
  <2>1. content' = [content EXCEPT ![t] = "held"] \/ content' = [content EXCEPT ![t] = "active"]
    BY <1>2 DEF HoldContent, RestoreContent, SetHold
  <2>2. content' \in [Contents -> Statuses] BY <1>1, <2>1 DEF RestTyped, Statuses
  <2>3. UNCHANGED <<dismissed, likes, posted, blocked, eligible, admins, issued, sweeps,
                    lastGeneration>>
    BY <1>2 DEF HoldContent, RestoreContent, SetHold
  <2> QED BY <1>1, <2>2, <2>3 DEF RestTyped
<1>3. CASE DeleteContent(t)
  <2>1. content' \in [Contents -> Statuses] BY <1>1, <1>3 DEF RestTyped, Statuses, DeleteContent
  <2>2. sweeps' \in [Sweeps -> Cells] BY <1>1, <1>3, StartTyped DEF DeleteContent, RestTyped
  <2>3. UNCHANGED <<dismissed, likes, posted, blocked, eligible, admins, issued, lastGeneration>>
    BY <1>3 DEF DeleteContent
  <2> QED BY <1>1, <2>1, <2>2, <2>3 DEF RestTyped
<1>4. CASE EraseContent(t)
  <2>1. content' \in [Contents -> Statuses] BY <1>1, <1>4 DEF RestTyped, Statuses, EraseContent
  <2>2. likes' \in [Contents -> [Users -> Like]]
    <3>1. NoLike \in Like BY DEF NoLike, Like
    <3> QED BY <1>1, <1>4, <3>1 DEF RestTyped, EraseContent
  <2>3. posted' \in [Comments -> Posts]
    <3>1. \A p \in Posts : [p EXCEPT !.status = "erased"] \in Posts BY DEF Posts
    <3> QED BY <1>1, <1>4, <3>1 DEF RestTyped, EraseContent
  <2>4. sweeps' \in [Sweeps -> Cells] BY <1>1, <1>4, CellTypes DEF RestTyped, EraseContent
  <2>5. UNCHANGED <<dismissed, blocked, eligible, admins, issued, lastGeneration>>
    BY <1>4 DEF EraseContent
  <2> QED BY <1>1, <2>1, <2>2, <2>3, <2>4, <2>5 DEF RestTyped
<1> QED BY <1>2, <1>3, <1>4

LEMMA OwnerTyped ==
    ASSUME TypeOK, NEW u \in Users,
           \/ \E n \in Ids, read \in BOOLEAN : SetNotificationRead(u, n, read)
           \/ \E n \in Ids : DeleteNotification(u, n)
           \/ DeleteAccount(u) \/ GrantAdmin(u) \/ RemoveAdmin(u) \/ ZeroAdminUnread(u)
           \/ \E a \in Users : Block(u, a) \/ Unblock(u, a)
    PROVE  RestTyped'
<1>1. RestTyped /\ InboxTyped BY TypeSplit
<1>2. ASSUME NEW n \in Ids, NEW read \in BOOLEAN, SetNotificationRead(u, n, read)
      PROVE RestTyped'
  BY <1>1, <1>2 DEF SetNotificationRead, RestTyped
<1>3. ASSUME NEW n \in Ids, DeleteNotification(u, n) PROVE RestTyped'
  <2>1. dismissed' \in [Users -> [Ids -> Nat]]
    BY <1>1, <1>3, DismissTyped DEF DeleteNotification, RestTyped
  <2>2. UNCHANGED <<likes, posted, content, blocked, eligible, admins, issued, sweeps,
                    lastGeneration>>
    BY <1>3 DEF DeleteNotification
  <2> QED BY <1>1, <2>1, <2>2 DEF RestTyped
<1>4. CASE DeleteAccount(u)
  BY <1>1, <1>4, StartTyped DEF DeleteAccount, RestTyped
<1>5. CASE GrantAdmin(u) \/ RemoveAdmin(u)
  <2>1. admins' \subseteq Users
    BY <1>1, <1>5 DEF GrantAdmin, RemoveAdmin, RestTyped
  <2>2. sweeps' \in [Sweeps -> Cells]
    BY <1>1, <1>5, StartTyped DEF GrantAdmin, RemoveAdmin, RestTyped
  <2>3. UNCHANGED <<dismissed, likes, posted, content, blocked, eligible, issued, lastGeneration>>
    BY <1>5 DEF GrantAdmin, RemoveAdmin
  <2> QED BY <1>1, <2>1, <2>2, <2>3 DEF RestTyped
<1>6. CASE ZeroAdminUnread(u)
  BY <1>1, <1>6, CellTypes DEF ZeroAdminUnread, RestTyped
<1>7. ASSUME NEW a \in Users, Block(u, a) \/ Unblock(u, a) PROVE RestTyped'
  <2>1. blocked' \subseteq Users \X Users BY <1>1, <1>7 DEF Block, Unblock, RestTyped
  <2>2. sweeps' \in [Sweeps -> Cells] BY <1>1, <1>7, StartTyped DEF Block, Unblock, RestTyped
  <2>3. UNCHANGED <<dismissed, likes, posted, content, eligible, admins, issued, lastGeneration>>
    BY <1>7 DEF Block, Unblock
  <2> QED BY <1>1, <2>1, <2>2, <2>3 DEF RestTyped
<1> QED BY <1>2, <1>3, <1>4, <1>5, <1>6, <1>7

LEMMA SweepTyped ==
    ASSUME TypeOK, NEW s \in Sweeps, SweepStep(s) \/ SweepFails(s)
    PROVE  RestTyped'
<1>1. RestTyped /\ InboxTyped BY TypeSplit
<1>2. sweeps[s] \in Cells /\ sweeps[s].page \subseteq (Users \X Ids \cup Users \X Contents)
  BY <1>1 DEF RestTyped, Cells
<1>3. CASE QueryPage(s)
  <2>1. PICK cell \in Cells : sweeps' = [sweeps EXCEPT ![s] = cell]
    <3>1. Matching(s) \subseteq Users \X Ids BY DEF Matching
    <3>2. PICK P \in SUBSET Matching(s) : sweeps' = [sweeps EXCEPT ![s] =
                IF P = {} THEN AfterLastPage(s) ELSE [at |-> "commit", page |-> P]]
      BY <1>3 DEF QueryPage
    <3>3. [at |-> "commit", page |-> P] \in Cells /\ AfterLastPage(s) \in Cells
      BY <3>1, CellTypes
    <3> QED BY <3>2, <3>3
  <2>2. sweeps' \in [Sweeps -> Cells] BY <1>1, <2>1 DEF RestTyped
  <2>3. UNCHANGED <<dismissed, likes, posted, content, blocked, eligible, admins, issued,
                    lastGeneration>>
    BY <1>3 DEF QueryPage
  <2> QED BY <1>1, <2>2, <2>3 DEF RestTyped
<1>4. CASE CommitPage(s)
  <2>1. dismissed' \in [Users -> [Ids -> Nat]]
    <3>1. (\E S : Dismiss(S)) \/ UNCHANGED dismissed BY <1>4 DEF CommitPage
    <3> QED BY <1>1, <3>1, DismissTyped DEF RestTyped
  <2>2. sweeps' \in [Sweeps -> Cells] BY <1>1, <1>4, CellTypes DEF RestTyped, CommitPage
  <2>3. UNCHANGED <<likes, posted, content, blocked, eligible, admins, issued, lastGeneration>>
    BY <1>4 DEF CommitPage
  <2> QED BY <1>1, <2>1, <2>2, <2>3 DEF RestTyped
<1>5. CASE QueryLikes(s)
  <2>1. MatchingLikes(s) \subseteq Users \X Contents BY DEF MatchingLikes
  <2>2. [at |-> "commit", page |-> MatchingLikes(s)] \in Cells BY <2>1, CellTypes
  <2>3. sweeps' \in [Sweeps -> Cells] BY <1>1, <1>5, <2>2 DEF RestTyped, QueryLikes
  <2>4. UNCHANGED <<dismissed, likes, posted, content, blocked, eligible, admins, issued,
                    lastGeneration>>
    BY <1>5 DEF QueryLikes
  <2> QED BY <1>1, <2>3, <2>4 DEF RestTyped
<1>6. CASE DetachDone(s)
  <2>1. sweeps' \in [Sweeps -> Cells] BY <1>1, <1>6, CellTypes DEF RestTyped, DetachDone
  <2>2. UNCHANGED <<dismissed, likes, posted, content, blocked, eligible, admins, issued,
                    lastGeneration>>
    BY <1>6 DEF DetachDone
  <2> QED BY <1>1, <2>1, <2>2 DEF RestTyped
<1>7. CASE SweepFails(s)
  <2>1. sweeps' \in [Sweeps -> Cells] BY <1>1, <1>7, CellTypes DEF RestTyped, SweepFails
  <2>2. UNCHANGED <<dismissed, likes, posted, content, blocked, eligible, admins, issued,
                    lastGeneration>>
    BY <1>7 DEF SweepFails
  <2> QED BY <1>1, <2>1, <2>2 DEF RestTyped
<1>8. ASSUME NEW a \in Users, NEW t \in Contents, DetachLike(s, a, t) PROVE RestTyped'
  <2>1. sweeps' \in [Sweeps -> Cells]
    <3>1. sweeps' = [sweeps EXCEPT ![s] = [sweeps[s] EXCEPT !.page = @ \ {<<a, t>>}]]
      BY <1>8 DEF DetachLike
    <3>2. [sweeps[s] EXCEPT !.page = @ \ {<<a, t>>}] \in Cells BY <1>2 DEF Cells
    <3> QED BY <1>1, <3>1, <3>2 DEF RestTyped
  <2>2. likes' \in [Contents -> [Users -> Like]]
    <3>1. likes[t] \in [Users -> Like] /\ likes[t][a] \in Like BY <1>1 DEF RestTyped
    <3>2. NoLike \in Like /\ \A like \in Like : [like EXCEPT !.generation = 0] \in Like
      BY DEF NoLike, Like
    <3>3. \/ UNCHANGED likes
          \/ likes' = [likes EXCEPT ![t][a] =
                 IF s[1] = "eraseLikes" THEN NoLike ELSE [@ EXCEPT !.generation = 0]]
      BY <1>8 DEF DetachLike
    <3> DEFINE like == IF s[1] = "eraseLikes" THEN NoLike
                       ELSE [likes[t][a] EXCEPT !.generation = 0]
    <3>4. like \in Like BY <3>1, <3>2
    <3>5. UNCHANGED likes \/ likes' = [likes EXCEPT ![t] = [likes[t] EXCEPT ![a] = like]]
      BY <3>3
    <3> HIDE DEF like
    <3>6. [likes[t] EXCEPT ![a] = like] \in [Users -> Like] BY <3>1, <3>4
    <3> QED BY <1>1, <3>5, <3>6 DEF RestTyped
  <2>3. UNCHANGED <<dismissed, posted, content, blocked, eligible, admins, issued,
                    lastGeneration>>
    BY <1>8 DEF DetachLike
  <2> QED BY <1>1, <2>1, <2>2, <2>3 DEF RestTyped
<1> QED BY <1>3, <1>4, <1>5, <1>6, <1>7, <1>8 DEF SweepStep

LEMMA NextTyped ==
    ASSUME TypeOK, Next
    PROVE  RestTyped'
<1>1. RestTyped BY TypeSplit
<1>2. ASSUME NEW n \in DOMAIN issued, Issue(n) PROVE RestTyped'
  <2>1. issued' \in [[kind : Versioned, on : Contents] -> Nat]
    <3>1. issued \in [[kind : Versioned, on : Contents] -> Nat] BY <1>1 DEF RestTyped
    <3>2. issued[n] + 1 \in Nat
      <4>1. n \in [kind : Versioned, on : Contents] BY <3>1
      <4>2. issued[n] \in Nat BY <3>1, <4>1, Zenon
      <4> QED BY <4>2
    <3>3. issued' = [issued EXCEPT ![n] = issued[n] + 1] BY <1>2 DEF Issue
    <3> HIDE DEF Issue
    <3> QED BY <3>1, <3>2, <3>3, Zenon
  <2>2. UNCHANGED <<dismissed, likes, posted, content, blocked, eligible, admins, sweeps,
                    lastGeneration>>
    BY <1>2 DEF Issue
  <2> QED BY <1>1, <2>1, <2>2 DEF RestTyped
<1>3. ASSUME NEW u \in Users, NEW n, NEW v, Deliver(u, n, v) PROVE RestTyped'
  BY <1>1, <1>3 DEF RestTyped, Deliver
<1>4. ASSUME NEW s \in BulkSweeps, StartBulk(s) PROVE RestTyped'
  <2>1. sweeps' \in [Sweeps -> Cells] BY <1>1, <1>4, StartTyped DEF StartBulk, RestTyped
  <2>2. UNCHANGED <<dismissed, likes, posted, content, blocked, eligible, admins, issued,
                    lastGeneration>>
    BY <1>4 DEF StartBulk
  <2> QED BY <1>1, <2>1, <2>2 DEF RestTyped
<1> QED
  BY <1>2, <1>3, <1>4, ReactTyped, UnreactTyped, CommentTyped, ContentTyped, OwnerTyped,
     SweepTyped DEF Next
-----------------------------------------------------------------------------
(* Every reachable state is well typed: no stored version, generation or   *)
(* grouped count of notificationService is ever negative, whatever sweeps  *)
(* overlap.                                                                *)
THEOREM TypeCorrect == Spec => []TypeOK
<1>1. Init => TypeOK
  <2> SUFFICES ASSUME Init PROVE TypeOK
    OBVIOUS
  <2> USE DEF Init
  <2>1. InboxTyped
    <3>1. NoRow \in Row BY DEF NoRow, Row
    <3> QED BY <3>1 DEF InboxTyped
  <2>2. RestTyped
    <3>1. NoLike \in Like BY DEF NoLike, Like
    <3>2. posted \in [Comments -> Posts] BY DEF Posts
    <3>3. content \in [Contents -> Statuses] BY DEF Statuses
    <3>4. sweeps \in [Sweeps -> Cells] BY CellTypes
    <3> QED BY <3>1, <3>2, <3>3, <3>4, OwnersAreUsers DEF RestTyped
  <2> QED BY <2>1, <2>2, TypeSplit
<1>2. TypeOK /\ [Next]_vars => TypeOK'
  <2> SUFFICES ASSUME TypeOK, [Next]_vars PROVE TypeOK'
    OBVIOUS
  <2>1. CASE Next
    <3>1. RestTyped' BY <2>1, NextTyped
    <3>2. InboxTyped' BY <2>1, NextCounted, ZeroCounted DEF Counted
    <3> QED BY <3>1, <3>2, TypeSplit, PTL
  <2>2. CASE UNCHANGED vars
    <3>1. InboxTyped /\ RestTyped BY TypeSplit
    <3>2. InboxTyped' BY <2>2, <3>1 DEF vars, InboxTyped
    <3>3. RestTyped' BY <2>2, <3>1 DEF vars, RestTyped
    <3> QED BY <3>2, <3>3, TypeSplit, PTL
  <2> QED BY <2>1, <2>2
<1> QED BY <1>1, <1>2, PTL DEF Spec

(* No rows, no badge.                                                      *)
LEMMA InitialGap ==
    ASSUME Init, NEW u \in Users, NEW c \in Channels
    PROVE  Gap(u, c) = 0
<1>1. UnreadRows(u, c) = {} BY DEF Init, UnreadRows, NoRow
<1>2. unread[u][c] = 0 BY DEF Init
<1> QED BY <1>1, <1>2, FS_EmptySet DEF Gap

(* A step, as the badges see it.                                           *)
LEMMA StepGap ==
    ASSUME TypeOK, [Next]_vars, NEW u \in Users
    PROVE  /\ Gap(u, "personal")' = Gap(u, "personal")
           /\ Gap(u, "admin")' = Gap(u, "admin") \/ Gap(u, "admin")' <= 0
<1>1. "personal" \in Channels /\ "admin" \in Channels BY DEF Channels
<1>2. CASE UNCHANGED vars
  BY <1>2 DEF vars, Gap, UnreadRows
<1>3. CASE Next
  BY <1>1, <1>3, NextCounted, ZeroCounted DEF Counted
<1> QED BY <1>2, <1>3

(* The two badge properties, said of the gaps.                             *)
PersonalGapless == \A u \in Users : Gap(u, "personal") = 0
AdminGapBounded == \A u \in Users : Gap(u, "admin") <= 0

LEMMA GapMeaning ==
    TypeOK => /\ PersonalGapless => PersonalUnreadExact
              /\ AdminGapBounded => AdminUnreadNeverOvercounts
<1> SUFFICES ASSUME TypeOK
             PROVE  /\ PersonalGapless => PersonalUnreadExact
                    /\ AdminGapBounded => AdminUnreadNeverOvercounts
  OBVIOUS
<1>1. ASSUME NEW u \in Users, NEW c \in Channels
      PROVE  unread[u][c] \in Int /\ Cardinality(UnreadRows(u, c)) \in Int
  BY UnreadRowsFinite DEF TypeOK
<1>2. "personal" \in Channels /\ "admin" \in Channels BY DEF Channels
<1>3. ASSUME NEW u \in Users
      PROVE  /\ Gap(u, "personal") = 0 =>
                    unread[u]["personal"] = Cardinality(UnreadRows(u, "personal"))
             /\ Gap(u, "admin") <= 0 =>
                    unread[u]["admin"] <= Cardinality(UnreadRows(u, "admin"))
  BY <1>1, <1>2 DEF Gap
<1> QED
  BY <1>3 DEF PersonalUnreadExact, AdminUnreadNeverOvercounts, PersonalGapless, AdminGapBounded

(* personalUnread equals the unread personal rows in every reachable       *)
(* state, for any number of users, contents, comments and sweeps.          *)
THEOREM PersonalBadgeExact == Spec => []PersonalUnreadExact
<1>1. Init => PersonalGapless
  BY InitialGap DEF Channels, PersonalGapless
<1>2. TypeOK /\ PersonalGapless /\ [Next]_vars => PersonalGapless'
  BY StepGap DEF PersonalGapless
<1> QED BY <1>1, <1>2, TypeCorrect, GapMeaning, PTL DEF Spec

(* adminUnread never exceeds the unread admin rows, although the demotion  *)
(* writes it without looking at them.                                      *)
THEOREM AdminBadgeBounded == Spec => []AdminUnreadNeverOvercounts
<1>1. Init => AdminGapBounded
  BY InitialGap DEF Channels, AdminGapBounded
<1>2. TypeOK /\ AdminGapBounded /\ [Next]_vars => AdminGapBounded'
  BY StepGap DEF AdminGapBounded
<1> QED BY <1>1, <1>2, TypeCorrect, GapMeaning, PTL DEF Spec
-----------------------------------------------------------------------------
(* What a step may do to an alert: take it away, leave it alone, or bring  *)
(* a version that the tombstone does not cover.                            *)
Alerts == [kind : Versioned, on : Contents]
Gone(u, m) == inbox'[u][m].state = "absent"
Same(u, m) == /\ inbox[u][m].state # "absent"
              /\ inbox'[u][m].version = inbox[u][m].version
Fate(u, m) ==
    \/ Gone(u, m)
    \/ Same(u, m) /\ dismissed'[u][m] = dismissed[u][m]
    \/ inbox'[u][m].version > dismissed[u][m] /\ dismissed'[u][m] = dismissed[u][m]

LEMMA WritesAndAlerts ==
    ASSUME InboxTyped, NEW u \in Users, NEW m \in Ids
    PROVE  /\ UNCHANGED inbox => Gone(u, m) \/ Same(u, m)
           /\ \A S : Drop(S) => Gone(u, m) \/ (Same(u, m) /\ <<u, m>> \notin S)
           /\ \A S : MarkRead(S) /\ (<<u, m>> \in S => Present(u, m)) =>
                  Gone(u, m) \/ Same(u, m)
           /\ \A R, n, version, generation, count, actor :
                  m # n /\ Stage(R, n, version, generation, count, actor) =>
                      Gone(u, m) \/ Same(u, m)
<1>1. inbox[u] \in [Ids -> Row] /\ inbox[u][m] \in Row /\ inbox[u][m].state \in {"absent", "unread", "read"}
  BY DEF InboxTyped, Row
<1>2. UNCHANGED inbox => Gone(u, m) \/ Same(u, m)
  BY DEF Gone, Same
<1>3. ASSUME NEW S, Drop(S) PROVE Gone(u, m) \/ (Same(u, m) /\ <<u, m>> \notin S)
  BY <1>3 DEF Drop, Gone, Same, NoRow
<1>4. ASSUME NEW S, MarkRead(S), <<u, m>> \in S => Present(u, m) PROVE Gone(u, m) \/ Same(u, m)
  <2>1. inbox'[u][m] = IF <<u, m>> \in S THEN [inbox[u][m] EXCEPT !.state = "read"] ELSE inbox[u][m]
    BY <1>4 DEF MarkRead
  <2>2. inbox'[u][m].version = inbox[u][m].version
    BY <1>1, <2>1 DEF Row
  <2>3. CASE <<u, m>> \notin S
    BY <2>1, <2>3 DEF Gone, Same
  <2>4. CASE <<u, m>> \in S /\ inbox[u][m].state # "absent"
    BY <2>2, <2>4 DEF Same
  <2> QED BY <1>4, <2>2, <2>3, <2>4 DEF Gone, Same, Present
<1>5. ASSUME NEW R, NEW n, NEW version, NEW generation, NEW count, NEW actor, m # n,
             Stage(R, n, version, generation, count, actor)
      PROVE  Gone(u, m) \/ Same(u, m)
  <2>1. inbox'[u][m] = inbox[u][m]
    BY <1>1, <1>5 DEF Stage
  <2> QED BY <2>1 DEF Gone, Same
<1> QED BY <1>2, <1>3, <1>4, <1>5

LEMMA AlertFates ==
    ASSUME TypeOK, Next, NEW u \in Users, NEW m \in Alerts
    PROVE  Fate(u, m)
<1>1. /\ InboxTyped /\ m \in Ids
      /\ dismissed \in [Users -> [Ids -> Nat]] /\ issued \in [Alerts -> Nat]
      /\ m.kind \in Versioned
  BY TypeSplit, KnownIds DEF RestTyped, Alerts
<1>2. ASSUME UNCHANGED <<inbox, dismissed>> PROVE Fate(u, m)
  BY <1>1, <1>2, WritesAndAlerts DEF Fate
<1>3. ASSUME NEW R, NEW n, NEW version, NEW generation, NEW count, NEW actor,
             n.kind \notin Versioned, UNCHANGED dismissed,
             Stage(R, n, version, generation, count, actor)
      PROVE  Fate(u, m)
  BY <1>1, <1>3, WritesAndAlerts DEF Fate
<1>4. ASSUME NEW S, Drop(S), UNCHANGED dismissed \/ Dismiss(S) PROVE Fate(u, m)
  <2>1. Gone(u, m) \/ (Same(u, m) /\ <<u, m>> \notin S)
    BY <1>1, <1>4, WritesAndAlerts
  <2>2. <<u, m>> \notin S => dismissed'[u][m] = dismissed[u][m]
    BY <1>1, <1>4 DEF Dismiss
  <2> QED BY <2>1, <2>2 DEF Fate
<1>5. ASSUME NEW t \in Contents, NEW like, RemoveContribution(t, like), UNCHANGED dismissed
      PROVE  Fate(u, m)
  <2>1. CASE \E S : Drop(S)
    BY <1>4, <1>5, <2>1
  <2>2. CASE UNCHANGED inbox
    BY <1>2, <1>5, <2>2
  <2>3. CASE inbox' = [inbox EXCEPT ![ContentOwner[t]][LikeRow(t)].count = @ - 1]
    <3>1. LikeRow(t) # m
      BY <1>1 DEF LikeRow, Versioned
    <3>2. inbox'[u][m] = inbox[u][m]
      BY <1>1, <2>3, <3>1 DEF InboxTyped
    <3> QED BY <1>5, <3>2 DEF Fate, Gone, Same
  <2> QED BY <1>5, <2>1, <2>2, <2>3 DEF RemoveContribution
<1>6. ASSUME NEW a \in Users, NEW t \in Contents, React(a, t) \/ Unreact(a, t) PROVE Fate(u, m)
  <2>1. LikeRow(t).kind \notin Versioned
    BY DEF LikeRow, Versioned
  <2> QED BY <1>2, <1>3, <1>5, <1>6, <2>1 DEF React, Unreact
<1>7. ASSUME NEW a \in Users, NEW c \in Comments, PostComment(a, c) PROVE Fate(u, m)
  <2>1. CommentRow(c).kind \notin Versioned
    BY DEF CommentRow, Versioned
  <2> QED BY <1>3, <1>7, <2>1 DEF PostComment
<1>8. ASSUME NEW t \in Contents, HoldContent(t) \/ RestoreContent(t) PROVE Fate(u, m)
  <2>1. /\ StatusRow("content_held", t).kind \notin Versioned
        /\ StatusRow("content_restored", t).kind \notin Versioned
    BY DEF StatusRow, Versioned
  <2> QED BY <1>2, <1>3, <1>8, <2>1 DEF HoldContent, RestoreContent, SetHold
<1>9. ASSUME NEW v \in Users, NEW n \in DOMAIN issued, NEW x \in 1..issued[n], Deliver(v, n, x)
      PROVE  Fate(u, m)
  <2>1. Stage({v}, n, [y \in {v} |-> x], 0, 1, NoUser) /\ UNCHANGED dismissed /\ dismissed[v][n] < x
    BY <1>9 DEF Deliver, Newer
  <2>2. CASE u = v /\ m = n
    <3>1. inbox'[u][m].version = x
      BY <1>1, <2>1, <2>2 DEF Stage, InboxTyped
    <3>2. x > dismissed[u][m]
      BY <1>1, <2>1, <2>2
    <3> QED BY <2>1, <3>1, <3>2 DEF Fate
  <2>3. CASE m # n
    BY <1>1, <2>1, <2>3, WritesAndAlerts DEF Fate
  <2>4. CASE u # v
    <3>1. inbox'[u][m] = inbox[u][m]
      BY <1>1, <2>1, <2>4 DEF Stage, InboxTyped
    <3> QED BY <2>1, <3>1 DEF Fate, Gone, Same
  <2> QED BY <2>2, <2>3, <2>4
<1>10. ASSUME NEW v \in Users, NEW n \in Ids, NEW read \in BOOLEAN, SetNotificationRead(v, n, read)
       PROVE  Fate(u, m)
  <2>1. /\ inbox' = [inbox EXCEPT ![v][n].state = IF read THEN "read" ELSE "unread"]
        /\ UNCHANGED dismissed /\ inbox[v][n].state # "absent"
    BY <1>10 DEF SetNotificationRead, Present
  <2>2. inbox[u][m] \in Row /\ inbox[v][n] \in Row
    BY <1>1 DEF InboxTyped
  <2>3. inbox'[u][m] = inbox[u][m] \/ (u = v /\ m = n /\ inbox'[u][m].version = inbox[u][m].version)
    BY <1>1, <2>1, <2>2 DEF InboxTyped, Row
  <2> QED BY <2>1, <2>3 DEF Fate, Gone, Same
<1>11. ASSUME NEW s \in Sweeps, CommitPage(s) PROVE Fate(u, m)
  <2> DEFINE live == sweeps[s].page \cap Matching(s)
  <2>1. <<u, m>> \in live => Present(u, m)
    BY DEF Matching, Present
  <2> HIDE DEF live
  <2>2. CASE MarkRead(live) /\ UNCHANGED dismissed
    BY <1>1, <2>1, <2>2, WritesAndAlerts DEF Fate
  <2>3. CASE Drop(live) /\ (UNCHANGED dismissed \/ Dismiss(live))
    BY <1>4, <2>3
  <2> QED BY <1>11, <2>2, <2>3 DEF CommitPage, live
<1>12. ASSUME NEW s \in Sweeps, SweepStep(s) \/ SweepFails(s) PROVE Fate(u, m)
  BY <1>2, <1>5, <1>11, <1>12
  DEF SweepStep, QueryPage, QueryLikes, DetachDone, DetachLike, SweepFails
<1>13. ASSUME NEW v \in Users, NEW n \in Ids, DeleteNotification(v, n) PROVE Fate(u, m)
  BY <1>4, <1>13 DEF DeleteNotification
<1>14. ASSUME NEW c \in Comments, DeleteComment(c) PROVE Fate(u, m)
  BY <1>4, <1>14 DEF DeleteComment
<1>15. CASE UNCHANGED <<inbox, dismissed>>
  BY <1>2, <1>15
<1>16. CASE ~UNCHANGED <<inbox, dismissed>>
  BY <1>6, <1>7, <1>8, <1>9, <1>10, <1>12, <1>13, <1>14, <1>16
  DEF Next, DeleteContent, EraseContent, Issue, StartBulk, Block, Unblock, DeleteAccount,
      GrantAdmin, RemoveAdmin, ZeroAdminUnread
<1> QED BY <1>15, <1>16

(* What the owner dismissed stays away: no late, repeated or reordered     *)
(* delivery brings back an alert that its tombstone covers.                *)
THEOREM DismissalsLast == Spec => []DismissedStaysDismissed
<1> DEFINE Lasts == \A u \in Users, m \in Alerts :
                Present(u, m) => inbox[u][m].version > dismissed[u][m]
<1>1. Init => Lasts
  BY KnownIds DEF Init, Present, NoRow, Alerts
<1>2. TypeOK /\ Lasts /\ [Next]_vars => Lasts'
  <2> SUFFICES ASSUME TypeOK, Lasts, [Next]_vars, NEW u \in Users, NEW m \in Alerts
               PROVE  Present(u, m)' => inbox'[u][m].version > dismissed'[u][m]
    OBVIOUS
  <2>1. CASE UNCHANGED vars
    BY <2>1 DEF vars, Present
  <2>2. CASE Next
    BY <2>2, AlertFates DEF Fate, Gone, Same, Present
  <2> QED BY <2>1, <2>2
<1>3. TypeOK /\ Lasts => DismissedStaysDismissed
  BY DEF TypeOK, DismissedStaysDismissed, Alerts
<1> QED BY <1>1, <1>2, <1>3, TypeCorrect, PTL DEF Spec
-----------------------------------------------------------------------------
(* What a step may do to one row.  It stays as it is but for being read or *)
(* unread, it is deleted, it loses one like, or an activity arrives.       *)
Stays(u, m) ==
    \/ inbox'[u][m] = inbox[u][m]
    \/ inbox'[u][m] = NoRow
    \/ /\ Present(u, m) /\ inbox'[u][m].state # "absent"
       /\ inbox'[u][m].version = inbox[u][m].version
       /\ inbox'[u][m].generation = inbox[u][m].generation
       /\ inbox'[u][m].count = inbox[u][m].count
       /\ inbox'[u][m].actor = inbox[u][m].actor
Loses(u, m) ==
    /\ m.kind = "like"
    /\ \E a \in Users, t \in Contents :
        \/ Unreact(a, t)
        \/ \E s \in DetachSweeps : DetachLike(s, a, t)
    /\ Present(u, m) /\ inbox'[u][m] = [inbox[u][m] EXCEPT !.count = @ - 1]
LikeArrives(u, m) ==
    \E a \in Users, t \in Contents :
        m = LikeRow(t) /\ u = ContentOwner[t] /\ React(a, t) /\ CanNotify(u, a)
CommentArrives(u, m) ==
    \E a \in Users, c \in Comments :
        /\ m = CommentRow(c) /\ PostComment(a, c) /\ CanNotify(u, a)
        /\ inbox'[u][m].actor = a
AlertArrives(m) == m.kind \in ContentKinds \ {"like"}
Arrives(u, m) ==
    /\ inbox'[u][m].state = "unread" /\ inbox'[u][m].version > inbox[u][m].version
    /\ LikeArrives(u, m) \/ CommentArrives(u, m) \/ AlertArrives(m)
Moves(u, m) == Stays(u, m) \/ Loses(u, m) \/ Arrives(u, m)

LEMMA DropStays ==
    ASSUME InboxTyped, NEW S, Drop(S), NEW u \in Users, NEW m \in Ids
    PROVE  /\ inbox'[u][m] = IF <<u, m>> \in S THEN NoRow ELSE inbox[u][m]
           /\ Stays(u, m)
BY DEF Drop, Stays, InboxTyped

LEMMA ReadStays ==
    ASSUME InboxTyped, NEW S, MarkRead(S), NEW u \in Users, NEW m \in Ids,
           <<u, m>> \in S => Present(u, m)
    PROVE  Stays(u, m)
<1>1. inbox[u][m] \in Row
  BY DEF InboxTyped
<1>2. inbox'[u][m] = IF <<u, m>> \in S THEN [inbox[u][m] EXCEPT !.state = "read"] ELSE inbox[u][m]
  BY DEF MarkRead
<1>3. CASE <<u, m>> \in S
  <2>1. inbox'[u][m] = [inbox[u][m] EXCEPT !.state = "read"]
    BY <1>2, <1>3
  <2> QED BY <1>1, <1>3, <2>1 DEF Row, Stays
<1>4. CASE <<u, m>> \notin S
  BY <1>2, <1>4 DEF Stays
<1> QED BY <1>3, <1>4

LEMMA StageMoves ==
    ASSUME InboxTyped, NEW R, NEW n, NEW version, NEW generation, NEW count, NEW actor,
           Stage(R, n, version, generation, count, actor), NEW u \in Users, NEW m \in Ids
    PROVE  inbox'[u][m] =
             IF u \in R /\ m = n
             THEN [state |-> "unread", version |-> version[u], generation |-> generation,
                   count |-> count, actor |-> actor]
             ELSE inbox[u][m]
BY DEF Stage, InboxTyped

(* A contribution that is removed is its own row's: the others stay.       *)
Matched(t, like) ==
    LET row == inbox[ContentOwner[t]][LikeRow(t)] IN
    like.generation # 0 /\ row.state # "absent" /\ row.generation = like.generation
LEMMA RemoveMoves ==
    ASSUME InboxTyped, NEW t \in Contents, NEW like, RemoveContribution(t, like),
           NEW u \in Users, NEW m \in Ids
    PROVE  LET row == inbox[u][m]
               mine == u = ContentOwner[t] /\ m = LikeRow(t) /\ Matched(t, like)
           IN inbox'[u][m] = IF ~mine THEN row
                             ELSE IF row.count > 1 THEN [row EXCEPT !.count = @ - 1] ELSE NoRow
<1> DEFINE o == ContentOwner[t]
           n == LikeRow(t)
<1>0. o \in Users /\ n \in Ids
  BY KnownIds, OwnersAreUsers
<1>1. CASE ~Matched(t, like)
  BY <1>1 DEF RemoveContribution, Matched
<1>2. CASE Matched(t, like) /\ inbox[o][n].count > 1
  <2>1. inbox' = [inbox EXCEPT ![o][n].count = @ - 1]
    <3>1. ~(inbox[o][n].count <= 1)
      <4>1. inbox[o][n].count \in Nat
        BY <1>0 DEF InboxTyped, Row
      <4> QED BY <1>2, <4>1
    <3> QED BY <1>2, <3>1 DEF RemoveContribution, Matched
  <2>2. inbox'[u][m] = IF u = o /\ m = n THEN [inbox[o][n] EXCEPT !.count = @ - 1] ELSE inbox[u][m]
    BY <1>0, <2>1 DEF InboxTyped
  <2> QED BY <1>2, <2>2
<1>3. CASE Matched(t, like) /\ ~(inbox[o][n].count > 1)
  <2>1. Drop({<<o, n>>})
    BY <1>3 DEF RemoveContribution, Matched
  <2>2. inbox'[u][m] = IF <<u, m>> \in {<<o, n>>} THEN NoRow ELSE inbox[u][m]
    BY <2>1 DEF Drop, InboxTyped
  <2>3. CASE u = o /\ m = n
    BY <1>3, <2>2, <2>3
  <2>4. CASE ~(u = o /\ m = n)
    BY <2>2, <2>4
  <2> QED BY <2>3, <2>4
<1> QED BY <1>1, <1>2, <1>3

LEMMA OneLikeRow ==
    \A t1, t2 : LikeRow(t1) = LikeRow(t2) => t1 = t2
BY DEF LikeRow
LEMMA OneCommentRow ==
    \A c1, c2 : CommentRow(c1) = CommentRow(c2) => c1 = c2
BY DEF CommentRow

LEMMA RowMoves ==
    ASSUME TypeOK, Next, NEW u \in Users, NEW m \in Ids
    PROVE  Moves(u, m)
<1>1. InboxTyped /\ inbox[u][m] \in Row /\ inbox[u][m].version \in Nat
  BY TypeSplit DEF InboxTyped, Row
<1>2. ASSUME UNCHANGED inbox PROVE Moves(u, m)
  BY <1>2 DEF Moves, Stays
<1>3. ASSUME NEW S, Drop(S) PROVE Moves(u, m)
  BY <1>1, <1>3, DropStays DEF Moves
<1>4. ASSUME NEW t \in Contents, NEW like, RemoveContribution(t, like),
             \E a \in Users : Unreact(a, t) \/ \E s \in DetachSweeps : DetachLike(s, a, t)
      PROVE  Moves(u, m)
  <2> DEFINE lost == [inbox[u][m] EXCEPT !.count = @ - 1]
             mine == u = ContentOwner[t] /\ m = LikeRow(t) /\ Matched(t, like)
  <2>1. inbox'[u][m] = IF ~mine THEN inbox[u][m]
                       ELSE IF inbox[u][m].count > 1 THEN lost ELSE NoRow
    BY <1>1, <1>4, RemoveMoves
  <2>2. mine => m.kind = "like" /\ Present(u, m)
    BY DEF Matched, LikeRow, Present
  <2>3. CASE mine /\ inbox'[u][m] = lost
    BY <1>4, <2>2, <2>3 DEF Moves, Loses
  <2>4. CASE inbox'[u][m] = inbox[u][m] \/ inbox'[u][m] = NoRow
    BY <2>4 DEF Moves, Stays
  <2> HIDE DEF lost, mine
  <2> QED BY <2>1, <2>3, <2>4
<1>5. ASSUME NEW R, NEW n, NEW version, NEW generation, NEW count, NEW actor,
             Stage(R, n, version, generation, count, actor),
             u \in R /\ m = n => /\ version[u] > inbox[u][m].version
                                 /\ \/ LikeArrives(u, m) \/ AlertArrives(m)
                                    \/ inbox'[u][m].actor = actor => CommentArrives(u, m)
      PROVE  Moves(u, m)
  <2>1. inbox'[u][m] =
             IF u \in R /\ m = n
             THEN [state |-> "unread", version |-> version[u], generation |-> generation,
                   count |-> count, actor |-> actor]
             ELSE inbox[u][m]
    BY <1>1, <1>5, StageMoves
  <2>2. CASE u \in R /\ m = n
    <3>1. inbox'[u][m].state = "unread" /\ inbox'[u][m].version = version[u]
          /\ inbox'[u][m].actor = actor
      BY <2>1, <2>2
    <3> QED BY <1>5, <2>2, <3>1 DEF Moves, Arrives
  <2>3. CASE ~(u \in R /\ m = n)
    BY <2>1, <2>3 DEF Moves, Stays
  <2> QED BY <2>2, <2>3
<1>6. ASSUME NEW a \in Users, NEW t \in Contents, React(a, t) PROVE Moves(u, m)
  <2>1. CASE CanNotify(ContentOwner[t], a)
    <3> DEFINE o == ContentOwner[t]
               n == LikeRow(t)
    <3>1. PICK g, k : Stage({o}, n, [x \in {o} |-> NextVersion(x, n)], g, k, NoUser)
      BY <1>6, <2>1 DEF React
    <3>2. u \in {o} /\ m = n =>
            [x \in {o} |-> NextVersion(x, n)][u] > inbox[u][m].version /\ LikeArrives(u, m)
      <4> SUFFICES ASSUME u \in {o}, m = n
                   PROVE  [x \in {o} |-> NextVersion(x, n)][u] > inbox[u][m].version
                          /\ LikeArrives(u, m)
        OBVIOUS
      <4>1. [x \in {o} |-> NextVersion(x, n)][u] = inbox[u][m].version + 1
        BY DEF NextVersion
      <4>2. LikeArrives(u, m)
        BY <1>6, <2>1 DEF LikeArrives
      <4> QED BY <1>1, <4>1, <4>2
    <3> QED BY <1>5, <3>1, <3>2
  <2>2. CASE ~CanNotify(ContentOwner[t], a)
    BY <1>2, <1>6, <2>2 DEF React
  <2> QED BY <2>1, <2>2
<1>7. ASSUME NEW a \in Users, NEW t \in Contents, Unreact(a, t) PROVE Moves(u, m)
  <2>1. RemoveContribution(t, likes[t][a])
    BY <1>7 DEF Unreact
  <2> QED BY <1>4, <1>7, <2>1
<1>8. ASSUME NEW a \in Users, NEW c \in Comments, PostComment(a, c) PROVE Moves(u, m)
  <2> DEFINE n == CommentRow(c)
  <2>1. PICK R : /\ Stage(R, n, [x \in R |-> NextVersion(x, n)], 0, 1, a)
                 /\ \A x \in R : CanNotify(x, a)
    BY <1>8 DEF PostComment
  <2>2. u \in R /\ m = n =>
          /\ [x \in R |-> NextVersion(x, n)][u] > inbox[u][m].version
          /\ inbox'[u][m].actor = a => CommentArrives(u, m)
    <3> SUFFICES ASSUME u \in R, m = n
                 PROVE  /\ [x \in R |-> NextVersion(x, n)][u] > inbox[u][m].version
                        /\ inbox'[u][m].actor = a => CommentArrives(u, m)
      OBVIOUS
    <3>1. [x \in R |-> NextVersion(x, n)][u] = inbox[u][m].version + 1
      BY DEF NextVersion
    <3>2. inbox'[u][m].actor = a => CommentArrives(u, m)
      BY <1>8, <2>1 DEF CommentArrives
    <3> QED BY <1>1, <3>1, <3>2
  <2> QED BY <1>5, <2>1, <2>2
<1>9. ASSUME NEW t \in Contents, HoldContent(t) \/ RestoreContent(t) PROVE Moves(u, m)
  <2>1. PICK k \in {"content_held", "content_restored"} :
          \/ UNCHANGED inbox
          \/ LET o == ContentOwner[t]
                 n == StatusRow(k, t)
             IN Stage({o}, n, [x \in {o} |-> NextVersion(x, n)], 0, 1, NoUser)
    BY <1>9 DEF HoldContent, RestoreContent, SetHold
  <2> DEFINE o == ContentOwner[t]
             n == StatusRow(k, t)
  <2>2. CASE Stage({o}, n, [x \in {o} |-> NextVersion(x, n)], 0, 1, NoUser)
    <3>1. u \in {o} /\ m = n =>
            [x \in {o} |-> NextVersion(x, n)][u] > inbox[u][m].version /\ AlertArrives(m)
      <4> SUFFICES ASSUME u \in {o}, m = n
                   PROVE  [x \in {o} |-> NextVersion(x, n)][u] > inbox[u][m].version
                          /\ AlertArrives(m)
        OBVIOUS
      <4>1. [x \in {o} |-> NextVersion(x, n)][u] = inbox[u][m].version + 1
        BY DEF NextVersion
      <4>2. AlertArrives(m)
        BY DEF AlertArrives, StatusRow, ContentKinds
      <4> QED BY <1>1, <4>1, <4>2
    <3> QED BY <1>5, <2>2, <3>1
  <2> QED BY <1>2, <2>1, <2>2
<1>10. ASSUME NEW v \in Users, NEW n \in DOMAIN issued, NEW x \in 1..issued[n], Deliver(v, n, x)
       PROVE  Moves(u, m)
  <2>1. Stage({v}, n, [y \in {v} |-> x], 0, 1, NoUser) /\ inbox[v][n].version < x
    BY <1>10 DEF Deliver, Newer
  <2>2. n.kind \in ContentKinds \ {"like"}
    <3>1. issued \in [Alerts -> Nat]
      BY TypeSplit DEF RestTyped, Alerts
    <3>2. n \in Alerts
      BY <3>1
    <3> QED BY <3>2 DEF Alerts, Versioned, ContentKinds
  <2>3. u \in {v} /\ m = n =>
          [y \in {v} |-> x][u] > inbox[u][m].version /\ AlertArrives(m)
    BY <1>1, <2>1, <2>2 DEF AlertArrives
  <2> QED BY <1>5, <2>1, <2>3
<1>11. ASSUME NEW v \in Users, NEW n \in Ids, NEW read \in BOOLEAN, SetNotificationRead(v, n, read)
       PROVE  Moves(u, m)
  <2>1. PICK st \in {"read", "unread"} : inbox' = [inbox EXCEPT ![v][n].state = st]
    BY <1>11 DEF SetNotificationRead
  <2>2. CASE u = v /\ m = n
    <3>1. inbox'[u][m] = [inbox[u][m] EXCEPT !.state = st]
      BY <1>1, <2>1, <2>2 DEF InboxTyped
    <3>2. Present(u, m)
      BY <1>11, <2>2 DEF SetNotificationRead
    <3> QED BY <1>1, <3>1, <3>2 DEF Row, Moves, Stays
  <2>3. CASE ~(u = v /\ m = n)
    <3>1. inbox'[u][m] = inbox[u][m]
      BY <1>1, <2>1, <2>3 DEF InboxTyped
    <3> QED BY <3>1 DEF Moves, Stays
  <2> QED BY <2>2, <2>3
<1>12. ASSUME NEW s \in Sweeps, CommitPage(s) PROVE Moves(u, m)
  <2> DEFINE live == sweeps[s].page \cap Matching(s)
  <2>1. <<u, m>> \in live => Present(u, m)
    BY DEF Matching, Present
  <2> HIDE DEF live
  <2>2. CASE MarkRead(live)
    BY <1>1, <2>1, <2>2, ReadStays DEF Moves
  <2>3. CASE Drop(live)
    BY <1>3, <2>3
  <2> QED BY <1>12, <2>2, <2>3 DEF CommitPage, live
<1>13. ASSUME NEW s \in Sweeps, NEW a \in Users, NEW t \in Contents, DetachLike(s, a, t)
       PROVE  Moves(u, m)
  <2>1. CASE RemoveContribution(t, likes[t][a])
    <3>1. s \in DetachSweeps
      BY <1>13 DEF DetachLike
    <3> QED BY <1>4, <1>13, <2>1, <3>1
  <2>2. CASE UNCHANGED inbox
    BY <1>2, <2>2
  <2> QED BY <1>13, <2>1, <2>2 DEF DetachLike
<1>14. ASSUME NEW s \in Sweeps, SweepStep(s) \/ SweepFails(s) PROVE Moves(u, m)
  BY <1>2, <1>12, <1>13, <1>14 DEF SweepStep, QueryPage, QueryLikes, DetachDone, SweepFails
<1>15. ASSUME NEW v \in Users, NEW n \in Ids, DeleteNotification(v, n) PROVE Moves(u, m)
  BY <1>3, <1>15 DEF DeleteNotification
<1>16. ASSUME NEW c \in Comments, DeleteComment(c) PROVE Moves(u, m)
  BY <1>3, <1>16 DEF DeleteComment
<1>17. CASE ~UNCHANGED inbox
  BY <1>6, <1>7, <1>8, <1>9, <1>10, <1>11, <1>14, <1>15, <1>16, <1>17
  DEF Next, DeleteContent, EraseContent, Issue, StartBulk, Block, Unblock, DeleteAccount,
      GrantAdmin, RemoveAdmin, ZeroAdminUnread
<1> QED BY <1>2, <1>17

(* Every activity that adds to a row or brings it back moves the push      *)
(* version: stageNotificationActivity and its callers never write an older *)
(* one (notificationService.js:423-487).                                   *)
THEOREM ActivitiesAdvance == Spec => ActivityAdvancesVersion
<1>1. TypeOK /\ [Next]_vars =>
        [\A u \in Users, n \in Ids :
           /\ inbox'[u][n].state # "absent"
           /\ \/ inbox[u][n].state = "absent"
              \/ inbox'[u][n].count > inbox[u][n].count
              \/ inbox'[u][n].version # inbox[u][n].version
           => inbox'[u][n].version > inbox[u][n].version]_vars
  <2> SUFFICES ASSUME TypeOK, Next, NEW u \in Users, NEW n \in Ids,
                      inbox'[u][n].state # "absent",
                      \/ inbox[u][n].state = "absent"
                      \/ inbox'[u][n].count > inbox[u][n].count
                      \/ inbox'[u][n].version # inbox[u][n].version
               PROVE  inbox'[u][n].version > inbox[u][n].version
    OBVIOUS
  <2>1. inbox[u][n] \in Row /\ inbox[u][n].count \in Nat
    BY DEF TypeOK, Row
  <2>2. CASE Stays(u, n)
    BY <2>1, <2>2 DEF Stays, Present, NoRow
  <2>3. CASE Loses(u, n)
    <3>1. inbox'[u][n].count = inbox[u][n].count - 1
          /\ inbox'[u][n].version = inbox[u][n].version
      BY <2>1, <2>3 DEF Loses, Row
    <3> QED BY <2>1, <2>3, <3>1 DEF Loses, Present
  <2>4. CASE Arrives(u, n)
    BY <2>4 DEF Arrives
  <2> QED BY <2>2, <2>3, <2>4, RowMoves DEF Moves
<1> QED BY <1>1, TypeCorrect, PTL DEF Spec, ActivityAdvancesVersion
-----------------------------------------------------------------------------
(* What a step may do to one sweep.                                        *)
SweepMoves(s) ==
    \/ sweeps'[s] = sweeps[s]
    \/ sweeps'[s] = Querying
    \/ sweeps'[s] = Idle /\ (~Durable(s) \/ s[1] \in {"target", "demotion"})
    \/ QueryPage(s) \/ CommitPage(s) \/ QueryLikes(s) \/ DetachDone(s)
    \/ \E a \in Users, t \in Contents : DetachLike(s, a, t)

LEMMA SweepsMove ==
    ASSUME TypeOK, Next, NEW s \in Sweeps
    PROVE  SweepMoves(s)
<1>1. sweeps \in [Sweeps -> Cells]
  BY TypeSplit DEF RestTyped
<1>2. ASSUME UNCHANGED sweeps PROVE SweepMoves(s)
  BY <1>2 DEF SweepMoves
<1>3. ASSUME NEW S, Start(S) PROVE SweepMoves(s)
  BY <1>3 DEF Start, SweepMoves
<1>4. ASSUME NEW r \in Sweeps, SweepFails(r) PROVE SweepMoves(s)
  BY <1>1, <1>4 DEF SweepFails, SweepMoves
<1>5. ASSUME NEW r \in Sweeps, SweepStep(r) PROVE SweepMoves(s)
  <2>1. CASE r = s
    BY <1>5, <2>1 DEF SweepStep, SweepMoves
  <2>2. CASE r # s /\ ~DetachDone(r)
    <3>1. sweeps'[s] = sweeps[s]
      BY <1>1, <1>5, <2>2 DEF SweepStep, QueryPage, CommitPage, QueryLikes, DetachLike
    <3> QED BY <3>1 DEF SweepMoves
  <2>3. CASE r # s /\ DetachDone(r)
    <3>1. sweeps'[s] \in {sweeps[s], Querying}
      BY <1>1, <2>3 DEF DetachDone
    <3> QED BY <3>1 DEF SweepMoves
  <2> QED BY <2>1, <2>2, <2>3
<1>6. ASSUME NEW t \in Contents, EraseContent(t) PROVE SweepMoves(s)
  <2>1. sweeps'[s] = IF s = <<"target", t>> THEN Idle ELSE sweeps[s]
    BY <1>1, <1>6 DEF EraseContent
  <2> QED BY <2>1 DEF SweepMoves
<1>7. ASSUME NEW u \in Users, ZeroAdminUnread(u) PROVE SweepMoves(s)
  <2>1. sweeps'[s] = IF s = <<"demotion", u>> THEN Idle ELSE sweeps[s]
    BY <1>1, <1>7 DEF ZeroAdminUnread
  <2> QED BY <2>1 DEF SweepMoves
<1>8. CASE ~UNCHANGED sweeps
  BY <1>3, <1>4, <1>5, <1>6, <1>7, <1>8
  DEF Next, React, Unreact, PostComment, DeleteComment, HoldContent, RestoreContent, SetHold,
      DeleteContent, Issue, Deliver, SetNotificationRead, DeleteNotification, StartBulk, Block,
      Unblock, DeleteAccount, GrantAdmin, RemoveAdmin
<1> QED BY <1>2, <1>8

(* A page that came back short held everything there was: while nothing    *)
(* new arrives, what is not on it is gone.                                 *)
Short(s) == sweeps[s].at = "commit" /\ Cardinality(sweeps[s].page) < PageLimit

LEMMA Queried ==
    ASSUME TypeOK, NEW s \in Sweeps, QueryPage(s)
    PROVE  /\ UNCHANGED <<inbox, likes, content, blocked>>
           /\ \/ Matching(s) = {} /\ sweeps'[s] = AfterLastPage(s)
              \/ /\ sweeps'[s].at = "commit"
                 /\ Short(s)' => sweeps'[s].page = Matching(s)
<1>1. sweeps \in [Sweeps -> Cells]
  BY TypeSplit DEF RestTyped
<1>2. PICK P \in SUBSET Matching(s) :
        /\ Cardinality(P) = PageLimit \/ (Cardinality(P) < PageLimit /\ P = Matching(s))
        /\ sweeps'[s] = IF P = {} THEN AfterLastPage(s) ELSE [at |-> "commit", page |-> P]
  BY <1>1 DEF QueryPage
<1>3. UNCHANGED <<inbox, likes, content, blocked>>
  BY DEF QueryPage
<1>4. CASE P = {}
  <2>1. Cardinality(P) # PageLimit
    BY <1>4, FS_EmptySet, BoundsAreNumbers
  <2> QED BY <1>2, <1>3, <1>4, <2>1
<1>5. CASE P # {}
  <2>1. sweeps'[s].at = "commit" /\ sweeps'[s].page = P
    BY <1>2, <1>5
  <2>2. Cardinality(P) < PageLimit => P = Matching(s)
    BY <1>2, BoundsAreNumbers
  <2> QED BY <1>3, <2>1, <2>2 DEF Short
<1> QED BY <1>4, <1>5

LEMMA Committed ==
    ASSUME TypeOK, NEW s \in Sweeps, s \notin BulkSweeps, CommitPage(s)
    PROVE  /\ Drop(sweeps[s].page \cap Matching(s))
           /\ sweeps'[s] = IF Short(s) THEN AfterLastPage(s) ELSE Querying
           /\ UNCHANGED <<likes, content, blocked>>
<1>1. sweeps \in [Sweeps -> Cells]
  BY TypeSplit DEF RestTyped
<1>2. s[1] # "read" /\ s[1] # "clear"
  BY DEF Sweeps, BulkSweeps, TargetSweeps, ActorSweeps, BlockSweeps, DetachSweeps
<1>3. Drop(sweeps[s].page \cap Matching(s))
  BY <1>2 DEF CommitPage
<1> QED BY <1>1, <1>3 DEF CommitPage, Short
-----------------------------------------------------------------------------
(* Content that is being deleted lets no like and no comment in.           *)
Social(t) == {n \in Ids : n.kind \in {"like", "comment"} /\ About(n) = t}
Purged ==
    \A t \in Contents : content[t] = "deleting" =>
        LET s == <<"target", t>> IN
        \A u \in Users, n \in Social(t) : Present(u, n) =>
            /\ sweeps[s].at # "last"
            /\ Short(s) => <<u, n>> \in sweeps[s].page

LEMMA NothingArrives ==
    ASSUME TypeOK, Next, NEW t \in Contents, ~Open(t), NEW u \in Users, NEW n \in Social(t),
           Present(u, n)'
    PROVE  Present(u, n)
<1>1. n \in Ids /\ n.kind \in {"like", "comment"} /\ About(n) = t
  BY DEF Social
<1>2. CASE Stays(u, n)
  BY <1>2 DEF Stays, Present, NoRow
<1>3. CASE Loses(u, n)
  BY <1>3 DEF Loses
<1>4. ~LikeArrives(u, n)
  <2>1. \A a \in Users, t1 \in Contents : React(a, t1) => Open(t1)
    BY DEF React
  <2>2. \A t1 : About(LikeRow(t1)) = t1
    BY DEF About, LikeRow
  <2> QED BY <1>1, <2>1, <2>2 DEF LikeArrives
<1>5. ~CommentArrives(u, n)
  <2>1. \A a \in Users, c \in Comments : PostComment(a, c) => Open(CommentParent[c])
    BY DEF PostComment
  <2>2. \A c : About(CommentRow(c)) = CommentParent[c]
    BY DEF About, CommentRow
  <2> QED BY <1>1, <2>1, <2>2 DEF CommentArrives
<1>6. ~AlertArrives(n)
  BY <1>1 DEF AlertArrives, ContentKinds
<1> QED BY <1>1, <1>2, <1>3, <1>4, <1>5, <1>6, RowMoves DEF Moves, Arrives

LEMMA DeletionStarts ==
    ASSUME TypeOK, Next, NEW t \in Contents, content'[t] = "deleting"
    PROVE  content[t] = "deleting" \/ sweeps'[<<"target", t>>] = Querying
<1>1. content \in [Contents -> Statuses] /\ <<"target", t>> \in Sweeps
  BY TypeSplit DEF RestTyped, Sweeps, TargetSweeps
<1>2. ASSUME NEW t1 \in Contents, DeleteContent(t1)
      PROVE  content[t] = "deleting" \/ sweeps'[<<"target", t>>] = Querying
  <2>1. CASE t1 = t
    BY <1>1, <1>2, <2>1 DEF DeleteContent, Start
  <2>2. CASE t1 # t
    BY <1>1, <1>2, <2>2 DEF DeleteContent
  <2> QED BY <2>1, <2>2
<1>3. ASSUME NEW t1 \in Contents, HoldContent(t1) \/ RestoreContent(t1) \/ EraseContent(t1)
      PROVE  content[t] = "deleting"
  BY <1>1, <1>3 DEF HoldContent, RestoreContent, SetHold, EraseContent
<1>4. CASE UNCHANGED content
  BY <1>4
<1>5. CASE ~UNCHANGED content
  BY <1>2, <1>3, <1>5
  DEF Next, React, Unreact, PostComment, DeleteComment, Issue, Deliver, SetNotificationRead,
      DeleteNotification, StartBulk, Block, Unblock, DeleteAccount, GrantAdmin, RemoveAdmin,
      ZeroAdminUnread, SweepStep, SweepFails, QueryPage, CommitPage, QueryLikes, DetachDone,
      DetachLike
<1> QED BY <1>4, <1>5

LEMMA NextPurged ==
    ASSUME TypeOK, Purged, Next
    PROVE  Purged'
<1> SUFFICES ASSUME NEW t \in Contents, content'[t] = "deleting",
                    NEW u \in Users, NEW n \in Social(t), Present(u, n)'
             PROVE  /\ sweeps'[<<"target", t>>].at # "last"
                    /\ Short(<<"target", t>>)' => <<u, n>> \in sweeps'[<<"target", t>>].page
  BY DEF Purged, Social, About
<1>1. PICK s \in Sweeps : s = <<"target", t>>
  BY DEF Sweeps, TargetSweeps
<1>2. s \notin BulkSweeps /\ s \notin DetachSweeps /\ s[1] = "target" /\ s[2] = t
  BY <1>1 DEF BulkSweeps, DetachSweeps
<1>3. CASE sweeps'[s] = Querying \/ sweeps'[s] = Idle
  BY <1>1, <1>3 DEF Querying, Idle, Short
<1>4. CASE content[t] = "deleting"
  <2>1. Present(u, n) /\ n \in Ids /\ About(n) = t
    BY <1>4, NothingArrives DEF Open, Social
  <2>2. sweeps[s].at # "last" /\ (Short(s) => <<u, n>> \in sweeps[s].page)
    BY <1>1, <1>4, <2>1 DEF Purged
  <2>3. <<u, n>> \in Matching(s)
    BY <1>2, <2>1 DEF Matching, Present
  <2>4. CASE sweeps'[s] = sweeps[s]
    BY <1>1, <2>2, <2>4 DEF Short
  <2>5. CASE QueryPage(s)
    BY <1>1, <2>3, <2>5, Queried
  <2>6. CASE CommitPage(s)
    <3>1. CASE Short(s)
      <4>1. <<u, n>> \in sweeps[s].page \cap Matching(s)
        BY <2>2, <2>3, <3>1
      <4>2. Drop(sweeps[s].page \cap Matching(s))
        BY <1>2, <2>6, Committed
      <4>3. inbox'[u][n] = NoRow
        BY <2>1, <4>1, <4>2 DEF Drop
      <4> QED BY <4>3 DEF Present, NoRow
    <3>2. CASE ~Short(s)
      <4>1. sweeps'[s] = Querying
        BY <1>2, <2>6, <3>2, Committed
      <4> QED BY <1>3, <4>1
    <3> QED BY <3>1, <3>2
  <2>7. ~QueryLikes(s) /\ ~DetachDone(s)
        /\ \A a \in Users, t1 \in Contents : ~DetachLike(s, a, t1)
    BY <1>2 DEF QueryLikes, DetachDone, DetachLike
  <2> QED BY <1>3, <2>4, <2>5, <2>6, <2>7, SweepsMove DEF SweepMoves
<1> QED BY <1>1, <1>3, <1>4, DeletionStarts

(* deleteContentInternal erases what markDeleting has closed only after    *)
(* its purge has found nothing more: no like row and no comment row is     *)
(* left behind, whoever likes or comments during the purge                 *)
(* (deletionService.js:83-168).                                            *)
THEOREM ErasuresLeaveNothing == Spec => ErasedContentLeavesNothing
<1>1. Init => Purged
  BY DEF Init, Purged
<1>2. TypeOK /\ Purged /\ [Next]_vars => Purged'
  <2>1. UNCHANGED vars /\ Purged => Purged'
    BY DEF vars, Purged, Present, Short
  <2> QED BY <2>1, NextPurged
<1>3. TypeOK /\ Purged /\ [Next]_vars =>
        [\A t \in Contents, u \in Users :
          content[t] = "deleting" /\ content'[t] = "gone" =>
            /\ inbox'[u][LikeRow(t)].state = "absent"
            /\ \A c \in Comments : CommentParent[c] = t =>
                    inbox'[u][CommentRow(c)].state = "absent"]_vars
  <2> SUFFICES ASSUME TypeOK, Purged, Next, NEW t \in Contents, NEW u \in Users,
                      content[t] = "deleting", content'[t] = "gone"
               PROVE  /\ inbox'[u][LikeRow(t)].state = "absent"
                      /\ \A c \in Comments : CommentParent[c] = t =>
                            inbox'[u][CommentRow(c)].state = "absent"
    OBVIOUS
  <2>1. content \in [Contents -> Statuses]
    BY TypeSplit DEF RestTyped
  <2>2. EraseContent(t)
    <3>1. ASSUME NEW t1 \in Contents, HoldContent(t1) \/ RestoreContent(t1) \/ DeleteContent(t1)
                                       \/ (EraseContent(t1) /\ t1 # t)
          PROVE  FALSE
      BY <2>1, <3>1 DEF HoldContent, RestoreContent, SetHold, DeleteContent, EraseContent
    <3>2. ~UNCHANGED content
      OBVIOUS
    <3> QED BY <3>1, <3>2
      DEF Next, React, Unreact, PostComment, DeleteComment, Issue, Deliver, SetNotificationRead,
          DeleteNotification, StartBulk, Block, Unblock, DeleteAccount, GrantAdmin, RemoveAdmin,
          ZeroAdminUnread, SweepStep, SweepFails, QueryPage, CommitPage, QueryLikes, DetachDone,
          DetachLike
  <2>3. sweeps[<<"target", t>>].at = "last" /\ UNCHANGED inbox
    BY <2>2 DEF EraseContent
  <2>4. \A n \in Social(t) : inbox'[u][n].state = "absent"
    BY <2>3 DEF Purged, Present
  <2>5. LikeRow(t) \in Social(t)
        /\ \A c \in Comments : CommentParent[c] = t => CommentRow(c) \in Social(t)
    BY KnownIds DEF Social, About, LikeRow, CommentRow
  <2> QED BY <2>4, <2>5
<1> QED BY <1>1, <1>2, <1>3, TypeCorrect, PTL DEF Spec, ErasedContentLeavesNothing
-----------------------------------------------------------------------------
(* Grouped likes.  A row that is not there keeps nothing of what it was,   *)
(* a like that is not there is counted nowhere, and a row's generation was *)
(* given out for it alone.                                                 *)
Blank == \A u \in Users, n \in Ids : inbox[u][n].state = "absent" => inbox[u][n] = NoRow
LikesSound ==
    \A t \in Contents, a \in Users :
        /\ likes[t][a].generation <= lastGeneration
        /\ ~likes[t][a].liked => likes[t][a].generation = 0
Contributors(t, g) == {a \in Users : likes[t][a].generation = g}
Grouped(t) ==
    LET row == inbox[ContentOwner[t]][LikeRow(t)] IN
    row.state # "absent" =>
        /\ row.generation # 0 /\ row.generation <= lastGeneration
        /\ content[t] # "gone" =>
            row.count = Cardinality(Contributors(t, row.generation)) /\ row.count > 0
AllGrouped == \A t \in Contents : Grouped(t)
Likable == Blank /\ LikesSound /\ AllGrouped

LEMMA NextBlank ==
    ASSUME TypeOK, Blank, Next
    PROVE  Blank'
<1> SUFFICES ASSUME NEW u \in Users, NEW n \in Ids, inbox'[u][n].state = "absent"
             PROVE  inbox'[u][n] = NoRow
  BY DEF Blank
<1>1. inbox[u][n] \in Row
  BY DEF TypeOK
<1>2. CASE Stays(u, n)
  BY <1>2 DEF Stays, Blank
<1>3. CASE Loses(u, n)
  BY <1>1, <1>3 DEF Loses, Present, Row
<1>4. CASE Arrives(u, n)
  BY <1>4 DEF Arrives
<1> QED BY <1>2, <1>3, <1>4, RowMoves DEF Moves

LEMMA ContributorsFinite ==
    ASSUME NEW t, NEW g
    PROVE  IsFiniteSet(Contributors(t, g)) /\ Cardinality(Contributors(t, g)) \in Nat
<1>1. Contributors(t, g) \subseteq Users
  BY DEF Contributors
<1> QED BY <1>1, SetsAreFinite, FS_Subset, FS_CardinalityType

(* A step that leaves the row and its likes alone.                         *)
LEMMA QuietGrouped ==
    ASSUME TypeOK, NEW t \in Contents, Grouped(t), Stays(ContentOwner[t], LikeRow(t)),
           lastGeneration \in Nat, lastGeneration' \in Nat, lastGeneration <= lastGeneration',
           content'[t] # "gone" => content[t] # "gone" /\ likes'[t] = likes[t]
    PROVE  Grouped(t)'
<1> DEFINE o == ContentOwner[t]
           n == LikeRow(t)
           row == inbox[o][n]
<1>1. o \in Users /\ n \in Ids /\ row \in Row /\ row.generation \in Nat
  BY KnownIds, OwnersAreUsers DEF TypeOK, Row
<1>2. SUFFICES ASSUME inbox'[o][n].state # "absent"
      PROVE  /\ inbox'[o][n].generation # 0 /\ inbox'[o][n].generation <= lastGeneration'
             /\ content'[t] # "gone" =>
                  /\ inbox'[o][n].count =
                       Cardinality({a \in Users : likes'[t][a].generation = inbox'[o][n].generation})
                  /\ inbox'[o][n].count > 0
  BY DEF Grouped, Contributors
<1>3. row.state # "absent" /\ inbox'[o][n].generation = row.generation
      /\ inbox'[o][n].count = row.count
  BY <1>2 DEF Stays, NoRow, Present
<1>4. row.generation # 0 /\ row.generation <= lastGeneration'
  BY <1>1, <1>3 DEF Grouped
<1>5. ASSUME content'[t] # "gone"
      PROVE  /\ row.count = Cardinality({a \in Users : likes'[t][a].generation = row.generation})
             /\ row.count > 0
  <2>1. {a \in Users : likes'[t][a].generation = row.generation} = Contributors(t, row.generation)
    BY <1>5 DEF Contributors
  <2>2. row.count = Cardinality(Contributors(t, row.generation)) /\ row.count > 0
    BY <1>3, <1>5 DEF Grouped
  <2> QED BY <2>1, <2>2
<1> QED BY <1>3, <1>4, <1>5

(* A like that is taken back, or detached: its row counts one less, or     *)
(* never counted it.                                                       *)
LEMMA RemovedGrouped ==
    ASSUME TypeOK, Likable, NEW t \in Contents, NEW r \in Contents, NEW a \in Users,
           RemoveContribution(r, likes[r][a]),
           \A x \in Contents, b \in Users :
             likes'[x][b].generation = IF x = r /\ b = a THEN 0 ELSE likes[x][b].generation,
           UNCHANGED <<content, lastGeneration>>
    PROVE  Grouped(t)'
<1> DEFINE o == ContentOwner[t]
           n == LikeRow(t)
           row == inbox[o][n]
           g == row.generation
           after == {b \in Users : likes'[t][b].generation = g}
           mine == o = ContentOwner[r] /\ n = LikeRow(r) /\ Matched(r, likes[r][a])
           fewer == [row EXCEPT !.count = @ - 1]
<1>1. o \in Users /\ n \in Ids /\ row \in Row /\ row.count \in Nat
  BY KnownIds, OwnersAreUsers DEF TypeOK, Row
<1>2. inbox'[o][n] = IF ~mine THEN row ELSE IF row.count > 1 THEN fewer ELSE NoRow
  BY <1>1, TypeSplit, RemoveMoves
<1>3. SUFFICES ASSUME inbox'[o][n].state # "absent"
      PROVE  /\ inbox'[o][n].generation # 0 /\ inbox'[o][n].generation <= lastGeneration'
             /\ content'[t] # "gone" =>
                  /\ inbox'[o][n].count =
                       Cardinality({b \in Users : likes'[t][b].generation = inbox'[o][n].generation})
                  /\ inbox'[o][n].count > 0
  BY DEF Grouped, Contributors
<1>4. /\ fewer.state = row.state /\ fewer.generation = g /\ fewer.count = row.count - 1
  BY <1>1 DEF Row
<1>5. inbox'[o][n] # NoRow
  BY <1>3 DEF NoRow
<1> HIDE DEF fewer
<1>6. row.state # "absent" /\ inbox'[o][n].generation = g
      /\ (mine => row.count > 1 /\ inbox'[o][n].count = row.count - 1)
      /\ (~mine => inbox'[o][n].count = row.count)
  <2> HIDE DEF mine
  <2>1. CASE mine
    <3>1. row.count > 1 /\ inbox'[o][n] = fewer
      BY <1>2, <1>5, <2>1
    <3> QED BY <1>3, <1>4, <2>1, <3>1
  <2>2. CASE ~mine
    <3>1. inbox'[o][n] = row
      BY <1>2, <2>2
    <3> QED BY <1>3, <2>2, <3>1
  <2> QED BY <2>1, <2>2
<1>7. g # 0 /\ g <= lastGeneration'
      /\ (content'[t] # "gone" => row.count = Cardinality(Contributors(t, g)) /\ row.count > 0)
  BY <1>6 DEF Likable, AllGrouped, Grouped
<1> DEFINE counted == {b \in Users : likes'[t][b].generation = inbox'[o][n].generation}
<1>10. counted = after
  BY <1>6
<1>8. CASE ~mine
  <2>1. r = t => likes[t][a].generation # g
    BY <1>6, <1>7, <1>8 DEF Matched
  <2>2. after = Contributors(t, g)
    BY <1>7, <2>1 DEF Contributors
  <2>3. inbox'[o][n].count = row.count
    BY <1>6, <1>8
  <2>4. content'[t] # "gone" => row.count = Cardinality(counted) /\ row.count > 0
    BY <1>7, <1>10, <2>2
  <2> QED BY <1>6, <1>7, <2>3, <2>4
<1>9. CASE mine
  <2>1. r = t /\ likes[t][a].generation = g
    BY <1>9, OneLikeRow DEF Matched
  <2>2. after = Contributors(t, g) \ {a} /\ a \in Contributors(t, g)
    BY <1>7, <2>1 DEF Contributors
  <2>3. Cardinality(after) = Cardinality(Contributors(t, g)) - 1
    <3> DEFINE C == Contributors(t, g)
    <3>1. IsFiniteSet(C)
      BY ContributorsFinite
    <3>2. a \in C /\ after = C \ {a}
      BY <2>2
    <3> HIDE DEF C, after
    <3>3. Cardinality(C \ {a}) = Cardinality(C) - 1
      BY <3>1, <3>2, FS_RemoveElement
    <3>4. Cardinality(after) = Cardinality(C) - 1
      BY <3>2, <3>3
    <3> QED BY <3>4 DEF C
  <2>4. row.count > 1 /\ inbox'[o][n].count = row.count - 1
    BY <1>6, <1>9
  <2>5. row.count - 1 > 0
    BY <1>1, <2>4
  <2>6. content'[t] # "gone" => row.count - 1 = Cardinality(after)
    <3> HIDE DEF after, row
    <3> QED BY <1>7, <2>3
  <2>7. content'[t] # "gone" => inbox'[o][n].count = Cardinality(counted)
    BY <1>10, <2>4, <2>6
  <2> QED BY <1>6, <1>7, <2>4, <2>5, <2>7
<1> QED BY <1>8, <1>9

(* A like that the owner is told of is counted once more; the first one    *)
(* after a dismissal begins a generation that no earlier like has.         *)
LEMMA ReactGrouped ==
    ASSUME TypeOK, Likable, NEW t \in Contents, NEW r \in Contents, NEW a \in Users, React(a, r)
    PROVE  Grouped(t)'
<1> DEFINE o == ContentOwner[t]
           n == LikeRow(t)
           row == inbox[o][n]
           fresh == row.state = "absent"
           g == IF fresh THEN lastGeneration + 1 ELSE row.generation
           after == {b \in Users : likes'[t][b].generation = g}
<1>1. o \in Users /\ n \in Ids /\ row \in Row /\ row.count \in Nat /\ row.generation \in Nat
      /\ lastGeneration \in Nat
  BY KnownIds, OwnersAreUsers DEF TypeOK, Row
<1>2. \A x \in Contents : likes[x] \in [Users -> Like]
  BY DEF TypeOK
<1>3. /\ Open(r) /\ ~likes[r][a].liked /\ likes[r][a].generation = 0 /\ UNCHANGED content
  BY DEF React, Likable, LikesSound
<1>4. CASE r = t /\ CanNotify(o, a)
  <2>1. /\ Stage({o}, n, [u \in {o} |-> NextVersion(u, n)], g, row.count + 1, NoUser)
        /\ likes' = [likes EXCEPT ![t][a] = [liked |-> TRUE, generation |-> g]]
        /\ lastGeneration' = IF fresh THEN g ELSE lastGeneration
    BY <1>4 DEF React
  <2> HIDE DEF g
  <2>2. /\ inbox'[o][n].state = "unread" /\ inbox'[o][n].generation = g
        /\ inbox'[o][n].count = row.count + 1
    <3>1. InboxTyped /\ o \in {o}
      BY TypeSplit
    <3>2. inbox'[o][n] = [state |-> "unread", version |-> [u \in {o} |-> NextVersion(u, n)][o],
                          generation |-> g, count |-> row.count + 1, actor |-> NoUser]
      BY <1>1, <2>1, <3>1, StageMoves
    <3> QED BY <3>2
  <2>3. g # 0 /\ g <= lastGeneration'
    BY <1>1, <2>1 DEF g, Likable, AllGrouped, Grouped
  <2>4. row.count = Cardinality(Contributors(t, g))
    <3>1. CASE fresh
      <4>1. row.count = 0
        BY <1>1, <3>1 DEF Likable, Blank, NoRow
      <4>2. Contributors(t, g) = {}
        <5>1. \A b \in Users : likes[t][b].generation <= lastGeneration
                                /\ likes[t][b].generation \in Nat
          BY <1>2 DEF Likable, LikesSound, Like
        <5>2. \A b \in Users : likes[t][b].generation # lastGeneration + 1
          BY <1>1, <5>1
        <5> QED BY <3>1, <5>2 DEF Contributors, g
      <4> QED BY <4>1, <4>2, FS_EmptySet
    <3>2. CASE ~fresh
      <4>1. content[t] # "gone"
        BY <1>3, <1>4 DEF Open
      <4> QED BY <3>2, <4>1 DEF g, Likable, AllGrouped, Grouped
    <3> QED BY <3>1, <3>2
  <2>5. likes'[t][a].generation = g /\ \A b \in Users \ {a} : likes'[t][b] = likes[t][b]
    <3>1. likes'[t] = [likes[t] EXCEPT ![a] = [liked |-> TRUE, generation |-> g]]
      BY <2>1 DEF TypeOK
    <3> QED BY <1>2, <3>1
  <2>6. after = Contributors(t, g) \cup {a} /\ a \notin Contributors(t, g)
    BY <1>3, <1>4, <2>3, <2>5 DEF Contributors
  <2>7. Cardinality(after) = row.count + 1
    BY <2>4, <2>6, ContributorsFinite, FS_AddElement
  <2>8. row.count + 1 > 0
    BY <1>1
  <2> QED BY <2>2, <2>3, <2>7, <2>8 DEF Grouped, Contributors
<1>5. CASE ~(r = t /\ CanNotify(o, a))
  <2>1. Stays(o, n)
    <3>1. CASE r # t /\ CanNotify(ContentOwner[r], a)
      <4>1. PICK p, k, v : Stage({ContentOwner[r]}, LikeRow(r), v, p, k, NoUser)
        BY <3>1 DEF React
      <4>2. inbox'[o][n] = inbox[o][n]
        <5>1. InboxTyped /\ n # LikeRow(r)
          BY <3>1, OneLikeRow, TypeSplit
        <5> QED BY <1>1, <4>1, <5>1 DEF Stage, InboxTyped
      <4> QED BY <4>2 DEF Stays
    <3>2. CASE ~CanNotify(ContentOwner[r], a)
      BY <3>2 DEF React, Stays
    <3> QED BY <1>5, <3>1, <3>2
  <2>2. lastGeneration' \in Nat /\ lastGeneration <= lastGeneration'
    BY <1>1 DEF React
  <2>3. CASE r # t
    <3>1. likes'[t] = likes[t]
      BY <2>3 DEF React, TypeOK
    <3> QED BY <1>1, <1>3, <2>1, <2>2, <3>1, QuietGrouped DEF Likable, AllGrouped
  <2>4. CASE r = t /\ ~CanNotify(o, a)
    <3>1. /\ likes' = [likes EXCEPT ![t][a] = [liked |-> TRUE, generation |-> 0]]
          /\ UNCHANGED <<inbox, lastGeneration>>
      BY <2>4 DEF React
    <3>2. \A b \in Users : likes'[t][b].generation = likes[t][b].generation
      <4>1. likes'[t] = [likes[t] EXCEPT ![a] = [liked |-> TRUE, generation |-> 0]]
        BY <3>1 DEF TypeOK
      <4> QED BY <1>2, <1>3, <2>4, <4>1
    <3>3. \A h : {b \in Users : likes'[t][b].generation = h} = Contributors(t, h)
      BY <3>2 DEF Contributors
    <3>4. Grouped(t)
      BY DEF Likable, AllGrouped
    <3>5. \A h : Cardinality({b \in Users : likes'[t][b].generation = h})
                  = Cardinality(Contributors(t, h))
      BY <3>3
    <3>6. SUFFICES ASSUME row.state # "absent"
          PROVE  /\ g # 0 /\ g <= lastGeneration
                 /\ content[t] # "gone" => row.count = Cardinality(after) /\ row.count > 0
      BY <1>3, <3>1 DEF Grouped, Contributors
    <3>7. after = Contributors(t, g)
      BY <3>3
    <3> QED BY <3>4, <3>6, <3>7 DEF Grouped
  <2> QED BY <1>5, <2>3, <2>4
<1> QED BY <1>4, <1>5

(* A like is taken back by its author or detached by a sweep.              *)
TakenBack(a, r) ==
    \/ Unreact(a, r)
    \/ likes[r][a].liked /\ \E s \in DetachSweeps : DetachLike(s, a, r)

LEMMA TakenBackIsRemoved ==
    ASSUME TypeOK, NEW a \in Users, NEW r \in Contents, TakenBack(a, r)
    PROVE  /\ RemoveContribution(r, likes[r][a])
           /\ \A x \in Contents, b \in Users :
                /\ x = r /\ b = a => likes'[x][b].generation = 0
                /\ ~(x = r /\ b = a) => likes'[x][b] = likes[x][b]
           /\ UNCHANGED <<content, blocked, lastGeneration>>
<1>1. PICK like : like.generation = 0 /\ likes' = [likes EXCEPT ![r][a] = like]
  <2>1. CASE Unreact(a, r)
    BY <2>1 DEF Unreact, NoLike
  <2>2. CASE ~Unreact(a, r)
    <3>1. PICK s \in DetachSweeps : likes[r][a].liked /\ DetachLike(s, a, r)
      BY <2>2 DEF TakenBack
    <3>2. CASE s[1] = "eraseLikes"
      BY <3>1, <3>2 DEF DetachLike, NoLike
    <3>3. CASE s[1] # "eraseLikes"
      <4>1. likes' = [likes EXCEPT ![r][a] = [likes[r][a] EXCEPT !.generation = 0]]
        BY <3>1, <3>3 DEF DetachLike
      <4>2. likes[r][a] \in Like
        BY DEF TypeOK
      <4>3. [likes[r][a] EXCEPT !.generation = 0].generation = 0
        BY <4>2 DEF Like
      <4> QED BY <4>1, <4>3
    <3> QED BY <3>2, <3>3
  <2> QED BY <2>1, <2>2
<1>2. \A x \in Contents, b \in Users :
        likes'[x][b] = IF x = r /\ b = a THEN like ELSE likes[x][b]
  BY <1>1 DEF TypeOK
<1>3. RemoveContribution(r, likes[r][a]) /\ UNCHANGED <<content, blocked, lastGeneration>>
  BY DEF TakenBack, Unreact, DetachLike
<1> QED BY <1>1, <1>2, <1>3

(* Every other step leaves the likes alone, or erases those of a content.  *)
LEMMA LikesMove ==
    ASSUME TypeOK, Next,
           \A a \in Users, t \in Contents : ~React(a, t) /\ ~TakenBack(a, t)
    PROVE  /\ UNCHANGED lastGeneration
           /\ \A t \in Contents :
                 /\ content'[t] # "gone" => content[t] # "gone" /\ likes'[t] = likes[t]
                 /\ likes'[t] # likes[t] => likes'[t] = [u \in Users |-> NoLike]
<1>1. content \in [Contents -> Statuses] /\ likes \in [Contents -> [Users -> Like]]
  BY TypeSplit DEF RestTyped
<1> DEFINE Done ==
      /\ UNCHANGED lastGeneration
      /\ \A t \in Contents :
            /\ content'[t] # "gone" => content[t] # "gone" /\ likes'[t] = likes[t]
            /\ likes'[t] # likes[t] => likes'[t] = [u \in Users |-> NoLike]
<1>2. ASSUME NEW r \in Contents, EraseContent(r) PROVE Done
  <2>1. /\ content' = [content EXCEPT ![r] = "gone"]
        /\ likes' = [likes EXCEPT ![r] = [u \in Users |-> NoLike]]
        /\ UNCHANGED lastGeneration
    BY <1>2 DEF EraseContent
  <2> QED BY <1>1, <2>1
<1>3. ASSUME NEW r \in Contents, HoldContent(r) \/ RestoreContent(r) PROVE Done
  <2>1. PICK from, to : /\ content[r] = from /\ content' = [content EXCEPT ![r] = to]
                        /\ from # "gone" /\ UNCHANGED <<likes, lastGeneration>>
    BY <1>3 DEF HoldContent, RestoreContent, SetHold
  <2> QED BY <1>1, <2>1
<1>4. ASSUME NEW r \in Contents, DeleteContent(r) PROVE Done
  <2>1. /\ content' = [content EXCEPT ![r] = IF @ = "active" THEN "deleting" ELSE @]
        /\ UNCHANGED <<likes, lastGeneration>>
    BY <1>4 DEF DeleteContent
  <2> QED BY <1>1, <2>1
<1>5. ASSUME UNCHANGED <<likes, content, lastGeneration>> PROVE Done
  BY <1>5
<1>6. ASSUME NEW s \in Sweeps, NEW a \in Users, NEW t \in Contents, DetachLike(s, a, t)
      PROVE  Done
  <2>1. ~likes[t][a].liked
    BY <1>6 DEF TakenBack, DetachLike
  <2> QED BY <1>5, <1>6, <2>1 DEF DetachLike
<1>7. ASSUME NEW s \in Sweeps, SweepStep(s) \/ SweepFails(s) PROVE Done
  BY <1>5, <1>6, <1>7 DEF SweepStep, SweepFails, QueryPage, CommitPage, QueryLikes, DetachDone
<1>8. ASSUME NEW a \in Users, NEW c \in Comments, PostComment(a, c) PROVE Done
  BY <1>5, <1>8 DEF PostComment
<1>9. ASSUME NEW n, Issue(n) \/ \E u \in Users : \E v \in 1..issued[n] : Deliver(u, n, v)
      PROVE  Done
  BY <1>5, <1>9 DEF Issue, Deliver
<1>10. ASSUME NEW u \in Users, NEW n \in Ids,
              DeleteNotification(u, n) \/ \E read \in BOOLEAN : SetNotificationRead(u, n, read)
       PROVE  Done
  BY <1>5, <1>10 DEF DeleteNotification, SetNotificationRead
<1>11. ASSUME NEW o \in Users, NEW a \in Users, Block(o, a) \/ Unblock(o, a) PROVE Done
  BY <1>5, <1>11 DEF Block, Unblock
<1>12. ASSUME NEW u \in Users,
              DeleteAccount(u) \/ GrantAdmin(u) \/ RemoveAdmin(u) \/ ZeroAdminUnread(u)
       PROVE  Done
  BY <1>5, <1>12 DEF DeleteAccount, GrantAdmin, RemoveAdmin, ZeroAdminUnread
<1>13. ASSUME NEW s \in BulkSweeps, StartBulk(s) PROVE Done
  BY <1>5, <1>13 DEF StartBulk
<1>14. \A a \in Users, t \in Contents : ~React(a, t) /\ ~Unreact(a, t)
  BY DEF TakenBack
<1>15. ASSUME NEW c \in Comments, DeleteComment(c) PROVE Done
  BY <1>5, <1>15 DEF DeleteComment
<1> HIDE DEF Done
<1>16. Done
  BY <1>2, <1>3, <1>4, <1>7, <1>8, <1>9, <1>10, <1>11, <1>12, <1>13, <1>14, <1>15 DEF Next
<1> QED BY <1>16 DEF Done

LEMMA ReactSound ==
    ASSUME TypeOK, Likable, NEW a \in Users, NEW r \in Contents, React(a, r)
    PROVE  LikesSound'
<1> DEFINE row == inbox[ContentOwner[r]][LikeRow(r)]
           g == IF row.state = "absent" THEN lastGeneration + 1 ELSE row.generation
<1>1. /\ row.generation \in Nat /\ lastGeneration \in Nat
      /\ \A x \in Contents, b \in Users : likes[x][b].generation \in Nat
  BY KnownIds, OwnersAreUsers DEF TypeOK, Row, Like
<1>2. PICK h : /\ likes' = [likes EXCEPT ![r][a] = [liked |-> TRUE, generation |-> h]]
               /\ \/ h = g /\ lastGeneration' = IF row.state = "absent" THEN g ELSE lastGeneration
                  \/ h = 0 /\ UNCHANGED lastGeneration
  BY DEF React
<1>3. row.state # "absent" => row.generation <= lastGeneration
  BY DEF Likable, AllGrouped, Grouped
<1>4. lastGeneration <= lastGeneration' /\ h <= lastGeneration' /\ lastGeneration' \in Nat
  BY <1>1, <1>2, <1>3
<1>5. \A x \in Contents, b \in Users :
        likes'[x][b] = IF x = r /\ b = a THEN [liked |-> TRUE, generation |-> h] ELSE likes[x][b]
  BY <1>2 DEF TypeOK
<1> SUFFICES ASSUME NEW x \in Contents, NEW b \in Users
             PROVE  /\ likes'[x][b].generation <= lastGeneration'
                    /\ ~likes'[x][b].liked => likes'[x][b].generation = 0
  BY DEF LikesSound
<1>6. CASE x = r /\ b = a
  BY <1>4, <1>5, <1>6
<1>7. CASE ~(x = r /\ b = a)
  <2>1. likes'[x][b] = likes[x][b]
    BY <1>5, <1>7
  <2>2. likes[x][b].generation <= lastGeneration
        /\ (~likes[x][b].liked => likes[x][b].generation = 0)
    BY DEF Likable, LikesSound
  <2> QED BY <1>1, <1>4, <2>1, <2>2
<1> QED BY <1>6, <1>7

LEMMA NextLikable ==
    ASSUME TypeOK, Likable, Next
    PROVE  Likable'
<1>1. Blank'
  BY NextBlank DEF Likable
<1>2. lastGeneration \in Nat
  BY DEF TypeOK
<1>3. ASSUME NEW a \in Users, NEW r \in Contents, React(a, r)
      PROVE  LikesSound' /\ AllGrouped'
  BY <1>3, ReactSound, ReactGrouped DEF AllGrouped
<1>4. ASSUME NEW a \in Users, NEW r \in Contents, TakenBack(a, r)
      PROVE  LikesSound' /\ AllGrouped'
  <2>1. /\ RemoveContribution(r, likes[r][a])
        /\ \A x \in Contents, b \in Users :
             /\ x = r /\ b = a => likes'[x][b].generation = 0
             /\ ~(x = r /\ b = a) => likes'[x][b] = likes[x][b]
        /\ UNCHANGED <<content, lastGeneration>>
    BY <1>4, TakenBackIsRemoved
  <2>2. \A x \in Contents, b \in Users :
          likes'[x][b].generation = IF x = r /\ b = a THEN 0 ELSE likes[x][b].generation
    BY <2>1
  <2>3. AllGrouped'
    BY <2>1, <2>2, RemovedGrouped DEF AllGrouped
  <2>4. LikesSound'
    <3> SUFFICES ASSUME NEW x \in Contents, NEW b \in Users
                 PROVE  /\ likes'[x][b].generation <= lastGeneration'
                        /\ ~likes'[x][b].liked => likes'[x][b].generation = 0
      BY DEF LikesSound
    <3>1. /\ likes[x][b].generation <= lastGeneration
          /\ ~likes[x][b].liked => likes[x][b].generation = 0
      BY DEF Likable, LikesSound
    <3> QED BY <1>2, <2>1, <3>1
  <2> QED BY <2>3, <2>4
<1>5. ASSUME \A a \in Users, t \in Contents : ~React(a, t) /\ ~TakenBack(a, t)
      PROVE  LikesSound' /\ AllGrouped'
  <2>1. /\ UNCHANGED lastGeneration
        /\ \A t \in Contents :
             /\ content'[t] # "gone" => content[t] # "gone" /\ likes'[t] = likes[t]
             /\ likes'[t] # likes[t] => likes'[t] = [u \in Users |-> NoLike]
    BY <1>5, LikesMove
  <2>2. LikesSound'
    <3> SUFFICES ASSUME NEW x \in Contents, NEW b \in Users
                 PROVE  /\ likes'[x][b].generation <= lastGeneration'
                        /\ ~likes'[x][b].liked => likes'[x][b].generation = 0
      BY DEF LikesSound
    <3>1. CASE likes'[x] = likes[x]
      BY <2>1, <3>1 DEF Likable, LikesSound
    <3>2. CASE likes'[x] # likes[x]
      BY <1>2, <2>1, <3>2 DEF NoLike
    <3> QED BY <3>1, <3>2
  <2>3. ASSUME NEW t \in Contents PROVE Grouped(t)'
    <3>1. LikeRow(t) \in Ids /\ ContentOwner[t] \in Users /\ LikeRow(t).kind = "like"
      BY KnownIds, OwnersAreUsers DEF LikeRow
    <3>2. ~Loses(ContentOwner[t], LikeRow(t)) \/ Stays(ContentOwner[t], LikeRow(t))
      <4> SUFFICES ASSUME Loses(ContentOwner[t], LikeRow(t))
                   PROVE  Stays(ContentOwner[t], LikeRow(t))
        OBVIOUS
      <4>1. PICK a \in Users, r \in Contents, s \in DetachSweeps : DetachLike(s, a, r)
        BY <1>5 DEF Loses, TakenBack
      <4>2. ~likes[r][a].liked
        BY <1>5, <4>1 DEF TakenBack
      <4> QED BY <4>1, <4>2 DEF DetachLike, Stays
    <3>3. ~Arrives(ContentOwner[t], LikeRow(t))
      <4>1. ~LikeArrives(ContentOwner[t], LikeRow(t))
        BY <1>5 DEF LikeArrives
      <4>2. ~CommentArrives(ContentOwner[t], LikeRow(t)) /\ ~AlertArrives(LikeRow(t))
        BY DEF CommentArrives, AlertArrives, LikeRow, CommentRow
      <4> QED BY <4>1, <4>2 DEF Arrives
    <3>4. Stays(ContentOwner[t], LikeRow(t))
      BY <3>1, <3>2, <3>3, RowMoves DEF Moves
    <3>5. Grouped(t)
      BY DEF Likable, AllGrouped
    <3>6. lastGeneration' \in Nat /\ lastGeneration <= lastGeneration'
      BY <1>2, <2>1
    <3> QED BY <1>2, <2>1, <3>4, <3>5, <3>6, QuietGrouped
  <2> QED BY <2>2, <2>3 DEF AllGrouped
<1>6. LikesSound' /\ AllGrouped'
  BY <1>3, <1>4, <1>5
<1> QED BY <1>1, <1>6 DEF Likable

LEMMA AlwaysLikable == Spec => []Likable
<1>1. Init => Likable
  <2> SUFFICES ASSUME Init PROVE Likable
    OBVIOUS
  <2>1. \A t \in Contents : inbox[ContentOwner[t]][LikeRow(t)] = NoRow
    BY KnownIds, OwnersAreUsers DEF Init
  <2>2. AllGrouped
    BY <2>1 DEF AllGrouped, Grouped, NoRow
  <2>3. Blank /\ LikesSound
    BY DEF Init, Blank, LikesSound, NoLike
  <2> QED BY <2>2, <2>3 DEF Likable
<1>2. TypeOK /\ Likable /\ [Next]_vars => Likable'
  <2>1. UNCHANGED vars /\ Likable => Likable'
    BY DEF vars, Likable, Blank, LikesSound, AllGrouped, Grouped, Contributors
  <2> QED BY <2>1, NextLikable
<1> QED BY <1>1, <1>2, TypeCorrect, PTL DEF Spec

(* A grouped-like row counts exactly the likes recorded under its own      *)
(* generation, whoever likes, unlikes, dismisses or is detached in between *)
(* (notificationService.js:488-532, prepareGroupedLikeActivity and         *)
(* prepareGroupedLikeRemoval).                                             *)
THEOREM GroupedCountsExact == Spec => []GroupedCountExact
<1>1. Likable => GroupedCountExact
  BY DEF Likable, AllGrouped, Grouped, Contributors, GroupedCountExact
<1> QED BY <1>1, AlwaysLikable, PTL
-----------------------------------------------------------------------------
(* Blocked actors.  What a blocked actor left in the owner's inbox is      *)
(* still ahead of the clean-up of the block: a clean-up whose page came    *)
(* back short has it on that page, and none is over.                       *)
Ahead(o, a) ==
    LET s == <<"block", o, a>> IN
    \A c \in Comments : inbox[o][CommentRow(c)].actor = a =>
        /\ sweeps[s].at \notin {"idle", "last"}
        /\ Short(s) => <<o, CommentRow(c)>> \in sweeps[s].page
LikesAhead(o, a) ==
    LET r == <<"blockLikes", o, a>> IN
    \A t \in Contents : ContentOwner[t] = o /\ likes[t][a].generation # 0 =>
        /\ sweeps[r].at \in {"query", "commit"}
        /\ sweeps[r].at = "commit" => <<a, t>> \in sweeps[r].page
Silenced ==
    \A o, a \in Users : <<o, a>> \in blocked => Ahead(o, a) /\ LikesAhead(o, a)

LEMMA BlockStarts ==
    ASSUME TypeOK, Next, NEW o \in Users, NEW a \in Users,
           <<o, a>> \in blocked', <<o, a>> \notin blocked
    PROVE  sweeps'[<<"block", o, a>>] = Querying /\ sweeps'[<<"blockLikes", o, a>>] = Querying
<1>1. <<"block", o, a>> \in Sweeps /\ <<"blockLikes", o, a>> \in Sweeps
  BY DEF Sweeps, BlockSweeps, DetachSweeps
<1>2. \E x, y \in Users : Block(x, y) \/ Unblock(x, y)
  <2>1. ~UNCHANGED blocked
    OBVIOUS
  <2> QED BY <2>1
    DEF Next, React, Unreact, PostComment, DeleteComment, HoldContent, RestoreContent, SetHold,
      DeleteContent, EraseContent, Issue, Deliver, SetNotificationRead, DeleteNotification,
      StartBulk, DeleteAccount, GrantAdmin, RemoveAdmin, ZeroAdminUnread, SweepStep, SweepFails,
      QueryPage, CommitPage, QueryLikes, DetachDone, DetachLike
<1>3. Block(o, a)
  BY <1>2 DEF Block, Unblock
<1> QED BY <1>1, <1>3 DEF Block, Start

LEMMA NoCommentComes ==
    ASSUME TypeOK, Blank, Next, NEW o \in Users, NEW a \in Users, <<o, a>> \in blocked,
           NEW c \in Comments, inbox'[o][CommentRow(c)].actor = a
    PROVE  Present(o, CommentRow(c)) /\ inbox[o][CommentRow(c)].actor = a
<1> DEFINE n == CommentRow(c)
<1>1. n \in Ids /\ n.kind = "comment" /\ a # NoUser
  BY KnownIds, OwnersAreUsers DEF CommentRow
<1>2. inbox[o][n].actor = a
  <2>1. CASE Stays(o, n)
    BY <1>1, <2>1 DEF Stays, NoRow
  <2>2. ~Loses(o, n)
    BY <1>1 DEF Loses
  <2>3. ~Arrives(o, n)
    <3>1. ~LikeArrives(o, n) /\ ~AlertArrives(n)
      BY <1>1 DEF LikeArrives, AlertArrives, LikeRow, ContentKinds
    <3>2. ~CommentArrives(o, n)
      BY DEF CommentArrives, CanNotify
    <3> QED BY <3>1, <3>2 DEF Arrives
  <2> QED BY <1>1, <2>1, <2>2, <2>3, RowMoves DEF Moves
<1>3. Present(o, n)
  BY <1>1, <1>2 DEF Blank, Present, NoRow
<1> QED BY <1>2, <1>3

LEMMA NoLikeCounts ==
    ASSUME TypeOK, Likable, Next, NEW t \in Contents, NEW a \in Users,
           <<ContentOwner[t], a>> \in blocked, likes'[t][a].generation # 0
    PROVE  /\ likes[t][a].generation # 0 /\ likes[t][a].liked
           /\ ~TakenBack(a, t)
<1>1. ~TakenBack(a, t)
  <2> SUFFICES ASSUME TakenBack(a, t) PROVE FALSE
    OBVIOUS
  <2>1. likes'[t][a].generation = 0
    BY TakenBackIsRemoved
  <2> QED BY <2>1
<1>2. likes[t][a].generation # 0
  <2>1. ASSUME NEW b \in Users, NEW r \in Contents, React(b, r)
        PROVE  likes[t][a].generation # 0
    <3>1. CASE r = t /\ b = a
      <4>1. ~CanNotify(ContentOwner[t], a)
        BY DEF CanNotify
      <4>2. likes' = [likes EXCEPT ![t][a] = [liked |-> TRUE, generation |-> 0]]
        BY <2>1, <3>1, <4>1 DEF React
      <4>3. likes'[t][a] = [liked |-> TRUE, generation |-> 0]
        BY <4>2 DEF TypeOK
      <4> QED BY <4>3
    <3>2. CASE ~(r = t /\ b = a)
      <4>1. PICK like : likes' = [likes EXCEPT ![r][b] = like]
        BY <2>1 DEF React
      <4>2. likes'[t][a] = likes[t][a]
        BY <3>2, <4>1 DEF TypeOK
      <4> QED BY <4>2
    <3> QED BY <3>1, <3>2
  <2>2. ASSUME NEW b \in Users, NEW r \in Contents, TakenBack(b, r)
        PROVE  likes[t][a].generation # 0
    BY <1>1, <2>2, TakenBackIsRemoved
  <2>3. CASE \A b \in Users, r \in Contents : ~React(b, r) /\ ~TakenBack(b, r)
    <3>1. likes'[t] # likes[t] => likes'[t] = [u \in Users |-> NoLike]
      BY <2>3, LikesMove
    <3> QED BY <3>1 DEF NoLike
  <2> QED BY <2>1, <2>2, <2>3
<1> QED BY <1>1, <1>2 DEF Likable, LikesSound

LEMMA AheadStep ==
    ASSUME TypeOK, Blank, Next, NEW o \in Users, NEW a \in Users,
           <<o, a>> \in blocked, Ahead(o, a)
    PROVE  Ahead(o, a)'
<1>1. PICK s \in Sweeps : s = <<"block", o, a>>
  BY DEF Sweeps, BlockSweeps
<1> SUFFICES ASSUME NEW c \in Comments, inbox'[o][CommentRow(c)].actor = a
             PROVE  /\ sweeps'[s].at \notin {"idle", "last"}
                    /\ Short(s)' => <<o, CommentRow(c)>> \in sweeps'[s].page
  BY <1>1 DEF Ahead
<1> DEFINE n == CommentRow(c)
<1>2. s \notin BulkSweeps /\ s \notin DetachSweeps /\ Durable(s)
      /\ s[1] = "block" /\ s[2] = o /\ s[3] = a
  BY <1>1 DEF BulkSweeps, DetachSweeps, Durable
<1>3. n \in Ids /\ n.kind = "comment" /\ a # NoUser
  BY KnownIds, OwnersAreUsers DEF CommentRow
<1>4. Present(o, n) /\ inbox[o][n].actor = a
  BY NoCommentComes
<1>5. sweeps[s].at \notin {"idle", "last"} /\ (Short(s) => <<o, n>> \in sweeps[s].page)
  BY <1>1, <1>4 DEF Ahead
<1>6. <<o, n>> \in Matching(s)
  BY <1>2, <1>3, <1>4 DEF Matching, Present
<1>7. CASE sweeps'[s] = sweeps[s]
  BY <1>5, <1>7 DEF Short
<1>8. CASE sweeps'[s] = Querying
  BY <1>8 DEF Querying, Short
<1>9. CASE QueryPage(s)
  BY <1>6, <1>9, Queried
<1>10. CASE CommitPage(s)
  <2>1. CASE Short(s)
    <3>1. <<o, n>> \in sweeps[s].page \cap Matching(s)
      BY <1>5, <1>6, <2>1
    <3>2. Drop(sweeps[s].page \cap Matching(s))
      BY <1>2, <1>10, Committed
    <3>3. inbox'[o][n] = NoRow
      BY <1>3, <3>1, <3>2 DEF Drop
    <3> QED BY <1>3, <3>3 DEF NoRow
  <2>2. CASE ~Short(s)
    BY <1>2, <1>8, <1>10, <2>2, Committed
  <2> QED BY <2>1, <2>2
<1>11. /\ ~QueryLikes(s) /\ ~DetachDone(s) /\ \A b \in Users, t \in Contents : ~DetachLike(s, b, t)
       /\ ~(~Durable(s) \/ s[1] \in {"target", "demotion"})
  BY <1>2 DEF QueryLikes, DetachDone, DetachLike
<1> QED BY <1>7, <1>8, <1>9, <1>10, <1>11, SweepsMove DEF SweepMoves

LEMMA LikesAheadStep ==
    ASSUME TypeOK, Likable, Next, NEW o \in Users, NEW a \in Users,
           <<o, a>> \in blocked, LikesAhead(o, a)
    PROVE  LikesAhead(o, a)'
<1>1. PICK r \in Sweeps : r = <<"blockLikes", o, a>>
  BY DEF Sweeps, DetachSweeps
<1> SUFFICES ASSUME NEW t \in Contents, ContentOwner[t] = o, likes'[t][a].generation # 0
             PROVE  /\ sweeps'[r].at \in {"query", "commit"}
                    /\ sweeps'[r].at = "commit" => <<a, t>> \in sweeps'[r].page
  BY <1>1 DEF LikesAhead
<1>2. r \in DetachSweeps /\ Durable(r) /\ r[1] = "blockLikes" /\ r[2] = o /\ r[3] = a
  BY <1>1 DEF DetachSweeps, Durable
<1>3. likes[t][a].generation # 0 /\ likes[t][a].liked /\ ~TakenBack(a, t)
  BY NoLikeCounts
<1>4. sweeps[r].at \in {"query", "commit"} /\ (sweeps[r].at = "commit" => <<a, t>> \in sweeps[r].page)
  BY <1>1, <1>3 DEF LikesAhead
<1>5. sweeps \in [Sweeps -> Cells]
  BY TypeSplit DEF RestTyped
<1>6. CASE sweeps'[r] \in {sweeps[r], Querying}
  BY <1>4, <1>6 DEF Querying
<1>7. CASE QueryLikes(r)
  <2>1. sweeps'[r] = [at |-> "commit", page |-> MatchingLikes(r)]
    BY <1>5, <1>7 DEF QueryLikes
  <2>2. <<a, t>> \in MatchingLikes(r)
    BY <1>2, <1>3 DEF MatchingLikes
  <2> QED BY <2>1, <2>2
<1>8. ASSUME NEW b \in Users, NEW x \in Contents, DetachLike(r, b, x)
      PROVE  /\ sweeps'[r].at \in {"query", "commit"}
             /\ sweeps'[r].at = "commit" => <<a, t>> \in sweeps'[r].page
  <2>1. <<b, x>> # <<a, t>>
    BY <1>2, <1>3, <1>8 DEF TakenBack
  <2>2. sweeps'[r] = [sweeps[r] EXCEPT !.page = @ \ {<<b, x>>}]
    BY <1>5, <1>8 DEF DetachLike
  <2>3. sweeps[r] \in Cells
    BY <1>5
  <2>4. sweeps'[r].at = sweeps[r].at /\ sweeps'[r].page = sweeps[r].page \ {<<b, x>>}
    BY <2>2, <2>3 DEF Cells
  <2> QED BY <1>4, <2>1, <2>4
<1>9. ~DetachDone(r)
  BY <1>4 DEF DetachDone
<1>10. ~QueryPage(r) /\ ~CommitPage(r) /\ ~(~Durable(r) \/ r[1] \in {"target", "demotion"})
  BY <1>2 DEF QueryPage, CommitPage
<1> QED BY <1>6, <1>7, <1>8, <1>9, <1>10, SweepsMove DEF SweepMoves

LEMMA NextSilenced ==
    ASSUME TypeOK, Likable, Silenced, Next
    PROVE  Silenced'
<1> SUFFICES ASSUME NEW o \in Users, NEW a \in Users, <<o, a>> \in blocked'
             PROVE  Ahead(o, a)' /\ LikesAhead(o, a)'
  BY DEF Silenced
<1>1. CASE <<o, a>> \in blocked
  BY <1>1, AheadStep, LikesAheadStep DEF Silenced, Likable
<1>2. CASE <<o, a>> \notin blocked
  BY <1>2, BlockStarts DEF Querying, Ahead, LikesAhead, Short
<1> QED BY <1>1, <1>2

(* Once both clean-ups of a block are through, no comment row and no       *)
(* counted like of the blocked actor is left, whatever was in flight when  *)
(* the block was written: setBlockedUser and its trigger purge after the   *)
(* write (moderationService.js:429-512), and the producers read the block  *)
(* in their own transactions.                                              *)
THEOREM BlockedActorsSilenced == Spec => []BlockedActorSilenced
<1>1. Init => Silenced
  BY DEF Init, Silenced
<1>2. TypeOK /\ Likable /\ Silenced /\ [Next]_vars => Silenced'
  <2>1. UNCHANGED vars /\ Silenced => Silenced'
    BY DEF vars, Silenced, Ahead, LikesAhead, Short
  <2> QED BY <2>1, NextSilenced
<1>3. Silenced => BlockedActorSilenced
  <2> SUFFICES ASSUME Silenced, NEW o \in Users, NEW a \in Users, <<o, a>> \in blocked,
                      sweeps[<<"block", o, a>>].at = "idle",
                      sweeps[<<"blockLikes", o, a>>].at = "idle"
               PROVE  /\ \A c \in Comments : inbox[o][CommentRow(c)].actor # a
                      /\ \A t \in Contents : ContentOwner[t] = o => likes[t][a].generation = 0
    BY DEF BlockedActorSilenced
  <2>1. Ahead(o, a) /\ LikesAhead(o, a)
    BY DEF Silenced
  <2> QED BY <2>1 DEF Ahead, LikesAhead
<1> QED BY <1>1, <1>2, <1>3, TypeCorrect, AlwaysLikable, PTL DEF Spec
=============================================================================
