------------------------ MODULE MCPlaybackOperations ------------------------
(* Small instances of PlaybackOperations for TLC. *)
EXTENDS PlaybackOperations, TLC

\* Identities, keys and outputs are interchangeable in the safety runs.
IdSymmetry == Permutations(Ids) \cup Permutations(Keys) \cup Permutations(Outputs)
=============================================================================
