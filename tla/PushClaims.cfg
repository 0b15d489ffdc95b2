SPECIFICATION FairSpec
CONSTANTS
  w1 = w1
  w2 = w2
  phone = phone
  tablet = tablet
  Workers = {w1, w2}
  Devices = {phone}
  MaxDispatchAttempts = 2
  MaxSendAttempts = 2
  RenewsGeneration = TRUE
  MaxVersion = 1
  MaxGeneration = 1
CHECK_DEADLOCK FALSE
  
PROPERTIES OutcomeStands EveryActivitySettles
