---------------------------- MODULE MCUserCache ----------------------------
(* Instances of UserCache for TLC. *)
EXTENDS UserCache, TLC

CONSTANTS u1, u2, r1, r2

MCUsers     == {u1, u2}
MCRoles     == {"Admin", "Viewer"}
TwoRequests == {r1, r2}
Symmetry    == Permutations(Requests)
=============================================================================
