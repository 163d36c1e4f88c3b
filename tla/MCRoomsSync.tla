---------------------------- MODULE MCRoomsSync ----------------------------
(***************************************************************************)
(* Instances of RoomsSync for TLC: zone updates and shared commands of one *)
(* page, changes found by the server itself.                               *)
(***************************************************************************)
EXTENDS RoomsSync, TLC

CONSTANTS u1, u2, c1, b1, b2

=============================================================================
