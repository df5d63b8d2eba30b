----------------------------- MODULE MCDashboards -----------------------------
(* Small instances of Dashboards for TLC.  Ids are interchangeable, and so   *)
(* are handlers.                                                             *)
EXTENDS Dashboards, TLC

Interchangeable ==
  Permutations(Workspace) \cup Permutations(Report) \cup Permutations(Dashboard)
    \cup Permutations(Tile) \cup Permutations(Handler)
=============================================================================
