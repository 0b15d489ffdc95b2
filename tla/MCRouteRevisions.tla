--------------------------- MODULE MCRouteRevisions ---------------------------
(* RouteRevisions for TLC: two saves and a reader of one route.            *)
EXTENDS RouteRevisions
=============================================================================
