------------------------- MODULE MCDestinationRename -------------------------
(* Small instances of DestinationRename: up to three names, two instances. *)
EXTENDS DestinationRename
CONSTANTS google, first, second, w1, w2
==============================================================================
