----------------------------- MODULE MCEventLoop -----------------------------
(* EventLoop on two connections and one endpoint, with descriptors enough for  *)
(* all of them at once; connections are alike.                                 *)
EXTENDS EventLoop, TLC

ConnsAlike == Permutations(Conns)
=============================================================================
