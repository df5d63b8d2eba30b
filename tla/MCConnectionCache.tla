--------------------------- MODULE MCConnectionCache ---------------------------
(* Small instances of ConnectionCache for TLC.  Workers, connections and the *)
(* OAuth sessions are interchangeable; a run with liveness properties uses   *)
(* no symmetry.                                                              *)
EXTENDS ConnectionCache, TLC

Interchangeable ==
  Permutations(Worker) \cup Permutations(Conn) \cup Permutations(OAuth)
=============================================================================
