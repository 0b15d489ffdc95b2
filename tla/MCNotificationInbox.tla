------------------------ MODULE MCNotificationInbox ------------------------
(* Small instances of NotificationInbox.  Each slice bounds some kinds of  *)
(* rows to version 0, which switches their producers off.                  *)
EXTENDS NotificationInbox, TLC
CONSTANTS owner, ann, ben, trip, first, second

MCOwner == [x \in Contents |-> owner]
MCParent == [c \in Comments |-> trip]
NoBlocks == {}
BlockByOwner == {<<owner, ann>>}
NoVersions == [k \in Kinds |-> 0]
LikeVersions == [NoVersions EXCEPT !["like"] = 3]
CommentVersions == [NoVersions EXCEPT !["comment"] = 1]
AlertVersions == [NoVersions EXCEPT !["case"] = 2, !["content_held"] = 1,
                                    !["content_restored"] = 1]
=============================================================================
