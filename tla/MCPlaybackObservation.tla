------------------------ MODULE MCPlaybackObservation ------------------------
(***************************************************************************)
(* Instances of PlaybackObservation for TLC: None is a model value, every  *)
(* other choice is made by the bound.                                      *)
(***************************************************************************)
EXTENDS PlaybackObservation
=============================================================================
