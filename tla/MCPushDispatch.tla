--------------------------- MODULE MCPushDispatch ---------------------------
(* Small instances of PushDispatch: two function instances, two devices.   *)
EXTENDS PushDispatch
CONSTANTS w1, w2, phone, tablet
=============================================================================
