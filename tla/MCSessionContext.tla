---------------------------- MODULE MCSessionContext ----------------------------
(* A small instance of SessionContext for TLC: the warehouse w1 goes with    *)
(* the role r2, and the default role r1 may not use it.                      *)
EXTENDS SessionContext, TLC

CONSTANTS r1, r2, w1

WarehousesOf == r1 :> {} @@ r2 :> {w1}

(* At most two of what may differ between the two sessions and the row do.   *)
Bounds == Cardinality({x \in Session \X {"role", "wh"} : x[2] \in drift[x[1]]}) <= 2

Interchangeable == Permutations(Session) \cup Permutations(Thread)
=============================================================================
