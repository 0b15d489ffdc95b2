----------------------------- MODULE MCAdminRoster -----------------------------
(* Small instances of AdminRoster.                                         *)
EXTENDS AdminRoster, TLC
CONSTANTS ada, bob, nobody, call1, call2
Interchangeable == Permutations({ada, bob}) \cup Permutations({call1, call2})
=============================================================================
