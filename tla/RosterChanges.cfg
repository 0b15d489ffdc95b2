SPECIFICATION RosterSpec
CONSTANTS
  ada = ada
  bob = bob
  nobody = nobody
  call1 = call1
  call2 = call2
  Users = {ada, bob}
  NoUser = nobody
  Calls = {call1, call2}
  Founders = {ada, bob}
SYMMETRY Interchangeable
CHECK_DEADLOCK FALSE
INVARIANTS FormerAdminSeesNothing RosterAgrees
