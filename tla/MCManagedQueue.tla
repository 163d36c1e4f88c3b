--------------------------- MODULE MCManagedQueue ---------------------------
(* Small instances of ManagedQueue for TLC. *)
EXTENDS ManagedQueue, TLC

\* Stations of one kind are interchangeable.
StationSymmetry == Permutations(UrlStations) \cup Permutations(TuneInStations)
=============================================================================
