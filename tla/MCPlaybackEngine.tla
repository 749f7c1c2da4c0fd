-------------------------- MODULE MCPlaybackEngine --------------------------
(* The playback engine on a small instance.                                *)
EXTENDS PlaybackEngine, TLC

MCPositions == {0, 5000}
Symmetry == Permutations(Tracks) \cup Permutations(Sinks)

=============================================================================
