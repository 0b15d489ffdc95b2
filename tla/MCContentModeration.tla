-------------------------- MODULE MCContentModeration --------------------------
(* Small instances of ContentModeration.                                   *)
EXTENDS ContentModeration
CONSTANTS call1, call2, handler1, large, thumb
=============================================================================
