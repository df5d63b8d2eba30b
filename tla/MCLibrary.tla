------------------------------- MODULE MCLibrary -------------------------------
(* Small instances of Library for TLC.  Users, ids and handlers are          *)
(* interchangeable.                                                          *)
EXTENDS Library, TLC

Interchangeable ==
  Permutations(User) \cup Permutations(Document) \cup Permutations(Dashboard)
    \cup Permutations(Handler)
=============================================================================
