SPECIFICATION Spec
CONSTANTS
  owner = owner
  ann = ann
  ben = ben
  trip = trip
  first = first
  second = second
  NoUser = NoUser
  Users = {owner, ann, ben}
  Contents = {trip}
  Comments = {}
  Staff = {}
  ContentOwner <- MCOwner
  CommentParent <- MCParent
  MaxVersion <- LikeVersions
  MaxGeneration = 2
  PageLimit = 2
  MaxSweeps = 2
  Runnable = {"block", "blockLikes", "eraseLikes", "actor", "target"}
  Blocking <- BlockByOwner
CHECK_DEADLOCK FALSE
INVARIANTS PersonalUnreadExact GroupedCountExact BlockedActorSilenced
PROPERTIES ActivityAdvancesVersion ErasedContentLeavesNothing
