---------------------------- MODULE MCLiveConnector ----------------------------
(* Instance of LiveConnector: polls, and the threads that patch, are alike. *)
EXTENDS LiveConnector, TLC

Symmetry == Permutations(Polls) \cup Permutations(Workers)
=============================================================================
