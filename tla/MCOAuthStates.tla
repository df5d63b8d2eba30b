----------------------------- MODULE MCOAuthStates -----------------------------
(* Small instances of OAuthStates for TLC.                                   *)
EXTENDS OAuthStates, TLC

Interchangeable == Permutations(Browser) \cup Permutations(State) \cup Permutations(Thread)
=============================================================================
