--------------------------- MODULE MCLiveEpisode ---------------------------
(* LiveEpisode on one class of each kind, for TLC. *)
EXTENDS LiveEpisode, TLC

CONSTANTS e1, e2

\* Episodes are told apart only by what happens to them.
EpisodeSymmetry == Permutations(Episodes)
=============================================================================
