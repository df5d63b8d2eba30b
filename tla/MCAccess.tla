-------------------------------- MODULE MCAccess --------------------------------
(* Small instances of Access for TLC.  Sessions, tokens, XMLA session ids    *)
(* and threads are interchangeable.                                          *)
EXTENDS Access, TLC

Interchangeable ==
  Permutations(Session) \cup Permutations(Token)
    \cup Permutations(XmlaId) \cup Permutations(Handler)
=============================================================================
