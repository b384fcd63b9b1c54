----------------------------- MODULE MCLiveServer -----------------------------
(* LiveServer on small sets; sessions, tracks and connections are alike.      *)
EXTENDS LiveServer, TLC

Symmetric == Permutations(Sessions) \cup Permutations(Tracks) \cup Permutations(Conns)
=============================================================================
