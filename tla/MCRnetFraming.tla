---------------------------- MODULE MCRnetFraming ----------------------------
(***************************************************************************)
(* Instances of RnetFraming for TLC; the bounds are in the .cfg files.     *)
(***************************************************************************)
EXTENDS RnetFraming
=============================================================================
