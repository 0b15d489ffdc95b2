SPECIFICATION FairSpec
CONSTANTS
  call1 = call1
  call2 = call2
  handler1 = handler1
  large = large
  thumb = thumb
  Calls = {call1, call2}
  Handlers = {handler1}
  Variants = {large, thumb}
  Actions = {"hold", "restore", "delete", "withdraw"}
  MaxHolds = 1
  MaxNotices = 2
CHECK_DEADLOCK FALSE
INVARIANTS  NoSilentDeletion ToldOnlyWhenGone NoticeArrives
PROPERTIES ReadyIsDelivered
