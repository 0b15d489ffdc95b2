SPECIFICATION Spec
CONSTANTS
  owner = owner
  ann = ann
  ben = ben
  trip = trip
  first = first
  second = second
  NoUser = NoUser
  Users = {owner, ann}
  Contents = {trip}
  Comments = {}
  Staff = {owner, ann}
  ContentOwner <- MCOwner
  CommentParent <- MCParent
  MaxVersion <- AlertVersions
  MaxGeneration = 2
  PageLimit = 1
  MaxSweeps = 1
  Runnable = {"demotion", "clear"}
  Blocking <- NoBlocks
CHECK_DEADLOCK FALSE
INVARIANTS AdminUnreadNeverOvercounts DismissedStaysDismissed
