------------------------------- MODULE SingleUse -------------------------------
(***************************************************************************)
(* What the table of OAuth states promises (auth/oauth.py: "State is       *)
(* single-use and expiring", and the comment on its cookie): a state is    *)
(* issued to one browser, that browser and no other gets through with it,  *)
(* and at most once; a state that lapses never gets anyone through.        *)
(***************************************************************************)
EXTENDS Sequences

CONSTANTS Browser, State, None

VARIABLES
  owner,    \* the browser a state was issued to, or None
  open,     \* the states somebody can still get through with
  uses      \* the browsers that got through with a state, in order

vars == <<owner, open, uses>>

Init ==
  /\ owner = [s \in State |-> None]
  /\ open = {}
  /\ uses = [s \in State |-> <<>>]

Issue(s, b) ==
  /\ owner[s] = None
  /\ owner' = [owner EXCEPT ![s] = b]
  /\ open' = open \cup {s}
  /\ UNCHANGED uses

Use(s) ==
  /\ s \in open
  /\ open' = open \ {s}
  /\ uses' = [uses EXCEPT ![s] = <<owner[s]>>]
  /\ UNCHANGED owner

(* Time passes, or the table is full: any number of them at once.            *)
Lapse ==
  /\ open' \subseteq open
  /\ UNCHANGED <<owner, uses>>

Next ==
  \/ \E s \in State : Use(s) \/ \E b \in Browser : Issue(s, b)
  \/ Lapse

Spec == Init /\ [][Next]_vars
=============================================================================
