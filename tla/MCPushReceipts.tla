---------------------------- MODULE MCPushReceipts ----------------------------
(* PushReceipts for TLC: two accounts, one of them notified.               *)
EXTENDS PushReceipts
=============================================================================
