------------------------- MODULE MCPlaybackWatchdog -------------------------
(***************************************************************************)
(* Instances of PlaybackWatchdog for TLC, with windows of a few loops.     *)
(***************************************************************************)
EXTENDS PlaybackWatchdog

CONSTANTS front, rear

=============================================================================
