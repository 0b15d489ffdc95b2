--------------------------- MODULE MCCommentThreads ---------------------------
(* CommentThreads for TLC: a root and its two replies, of which the author *)
(* of one deletes the account.                                             *)
EXTENDS CommentThreads

CONSTANTS root, early, late

MCRootOf == [c \in Comments |-> root]
=============================================================================
