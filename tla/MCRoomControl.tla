---------------------------- MODULE MCRoomControl ----------------------------
(***************************************************************************)
(* Instances of RoomControl for TLC: two zones, one of them disabled.      *)
(***************************************************************************)
EXTENDS RoomControl

CONSTANTS e1, e2

=============================================================================
