----------------------------- MODULE MCWorkspaces -----------------------------
(* Small instances of Workspaces for TLC.  Users, workspaces and handlers    *)
(* are interchangeable.                                                      *)
EXTENDS Workspaces, TLC

Interchangeable ==
  Permutations(User) \cup Permutations(Workspace) \cup Permutations(Handler)
=============================================================================
