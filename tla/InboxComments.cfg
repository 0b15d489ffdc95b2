SPECIFICATION FairSpec
CONSTANTS
  owner = owner
  ann = ann
  ben = ben
  trip = trip
  first = first
  second = second
  NoUser = NoUser
  Users = {owner, ann}
  Contents = {trip}
  Comments = {first, second}
  Staff = {}
  ContentOwner <- MCOwner
  CommentParent <- MCParent
  MaxVersion <- CommentVersions
  MaxGeneration = 2
  PageLimit = 1
  MaxSweeps = 2
  Runnable = {"block", "blockLikes", "target"}
  Blocking <- BlockByOwner
CHECK_DEADLOCK FALSE
PROPERTIES DeletedCommentsVanish
