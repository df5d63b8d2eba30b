------------------------------ MODULE OAuthStates ------------------------------
(***************************************************************************)
(* The table of sign-ins under way (auth/oauth.py) with the two handlers   *)
(* that use it, oauth_login and oauth_callback (auth/routes.py), and the   *)
(* cookie that ties a sign-in to a browser.                                *)
(*                                                                         *)
(* Handlers run in threads and nothing locks the table, an ordinary dict:  *)
(* one operation on it is one step, and between two of them others run.    *)
(* Ages stop one past the TTL.  What the callback does once the state has  *)
(* let it through (connect, session row, cache) is ConnectionCache and     *)
(* SessionContext; here it succeeds, is refused or raises.                 *)
(***************************************************************************)
EXTENDS Integers, Sequences, FiniteSets

CONSTANTS
  Browser,
  State,    \* the random values make_state draws, each of them once
  Thread,
  None,
  Cap,      \* _STATE_MAX_ENTRIES
  TTL       \* _STATE_TTL_SECONDS, in ticks

(* A request.  `size` and `old`: the length of the dict and the expired      *)
(* states when pruning begins; `doomed`: the keys still to pop, which are    *)
(* listed in the table's order; `over`: overflow.  `had`: what the table     *)
(* held when overflow was counted; `newest`: its Cap newest states when it   *)
(* was listed; `raced`: some of what it had was gone by then (these three    *)
(* are not in the code).                                                     *)
Request ==
  [op : {"login", "callback"},
   at : {"iterate", "prune", "count", "list", "evict", "answer",
         "consume", "check", "exchange", "refuse"},
   b : Browser, s : State \cup {None},
   size : Nat, old : SUBSET State, doomed : SUBSET State, over : Nat,
   had : SUBSET State, newest : SUBSET State, raced : BOOLEAN]

ASSUME OAuthAssumption ==
  /\ None \notin Browser \cup State \cup Request
  /\ Cap \in Nat
  /\ TTL \in Nat \ {0}

VARIABLES
  table,    \* _states: its keys in the order of insertion
  age,      \* time since a state was made
  cookie,   \* the OAUTH_STATE_COOKIE of a browser, or None
  req,      \* what a thread is doing, or None
  maker,    \* the browser whose request made a state, or None (not in the code)
  uses,     \* the browsers the state has let through (not in the code)
  lost,     \* the states dropped before they expired (not in the code)
  disturbed \* the states whose browser had its cookie written for another
            \* sign-in while they were in the table (not in the code)

vars == <<table, age, cookie, req, maker, uses, lost, disturbed>>

Held == {table[i] : i \in DOMAIN table}

Expired(s) == age[s] > TTL

TypeOK ==
  /\ table \in Seq(State)
  /\ age \in [State -> 0..(TTL + 1)]
  /\ cookie \in [Browser -> State \cup {None}]
  /\ req \in [Thread -> Request \cup {None}]
  /\ maker \in [State -> Browser \cup {None}]
  /\ uses \in [State -> Seq(Browser)]
  /\ lost \subseteq State /\ disturbed \subseteq State
  /\ \A i, j \in DOMAIN table : table[i] = table[j] => i = j
  /\ \A s \in Held : maker[s] # None

Init ==
  /\ table = <<>>
  /\ age = [s \in State |-> 0]
  /\ cookie = [b \in Browser |-> None]
  /\ req = [t \in Thread |-> None]
  /\ maker = [s \in State |-> None]
  /\ uses = [s \in State |-> <<>>]
  /\ lost = {} /\ disturbed = {}

At(t, p) == req[t] # None /\ req[t].at = p

GoTo(t, p) == req' = [req EXCEPT ![t].at = p]

Done(t) == req' = [req EXCEPT ![t] = None]

Begin(t, op, p, b, s) ==
  /\ req[t] = None
  /\ req' = [req EXCEPT ![t] =
       [op |-> op, at |-> p, b |-> b, s |-> s,
        size |-> IF op = "login" THEN Len(table) ELSE 0,
        old |-> IF op = "login" THEN {u \in Held : Expired(u)} ELSE {}, doomed |-> {}, over |-> 0,
        had |-> {}, newest |-> {}, raced |-> FALSE]]

(* The table without an entry: dict.pop with a default.                      *)
Dropped(i) == [j \in 1..(Len(table) - 1) |-> IF j < i THEN table[j] ELSE table[j + 1]]

Without(s) ==
  IF s \in Held THEN Dropped(CHOOSE i \in DOMAIN table : table[i] = s) ELSE table

(* A response sets or deletes the cookie on its way back.                    *)
SetCookie(t, v) ==
  LET b == req[t].b IN
  /\ cookie' = [cookie EXCEPT ![b] = v]
  /\ disturbed' = disturbed \cup {s \in Held : maker[s] = b /\ s # req[t].s}

tableVars == <<table, age, lost>>
ghostVars == <<maker, uses>>
cookieVars == <<cookie, disturbed>>
-----------------------------------------------------------------------------
(* GET /auth/login, with make_state: prune, insert, enforce the cap.         *)

(* The instance has a value of State left for it to draw.                    *)
CanDraw ==
  Cardinality({t \in Thread : req[t] # None /\ req[t].op = "login" /\ req[t].s = None})
    < Cardinality({s \in State : maker[s] = None})

AskLogin(t, b) ==
  /\ CanDraw
  /\ Begin(t, "login", "iterate", b, None)
  /\ UNCHANGED <<tableVars, cookieVars, ghostVars>>

(* The comprehension calls _created for each entry, where another thread may *)
(* run; an iterator over a dict raises when the dict's size is not what it   *)
(* was.                                                                      *)
IterationRaises(t) ==
  /\ At(t, "iterate") /\ Len(table) # req[t].size
  /\ Done(t)
  /\ UNCHANGED <<tableVars, cookieVars, ghostVars>>

Collect(t) ==
  /\ At(t, "iterate") /\ Len(table) = req[t].size
  /\ req' = [req EXCEPT ![t].at = "prune", ![t].size = 0, ![t].old = {},
                        ![t].doomed = req[t].old]
  /\ UNCHANGED <<tableVars, cookieVars, ghostVars>>

(* The keys that a thread has still to pop and that are there to be popped:  *)
(* to pop another does nothing.                                              *)
Left(t) == {i \in DOMAIN table : table[i] \in req[t].doomed}

(* One pop of the loops of _prune_expired_states and _enforce_state_cap.     *)
PopDoomed(t) ==
  /\ At(t, "prune") \/ At(t, "evict")
  /\ \E i \in Left(t) :
       /\ \A j \in Left(t) : i <= j
       /\ table' = Dropped(i)
       /\ lost' = IF Expired(table[i]) THEN lost ELSE lost \cup {table[i]}
       /\ req' = [req EXCEPT ![t].doomed = @ \ {table[i]}]
  /\ UNCHANGED <<age, cookieVars, ghostVars>>

Insert(t, s) ==
  /\ At(t, "prune") /\ Left(t) = {}
  /\ maker[s] = None
  /\ table' = Append(table, s)
  /\ age' = [age EXCEPT ![s] = 0]
  /\ maker' = [maker EXCEPT ![s] = req[t].b]
  /\ req' = [req EXCEPT ![t].at = "count", ![t].s = s, ![t].doomed = {}]
  /\ UNCHANGED <<lost, cookieVars, uses>>

(* Mutant: room is made for an entry that is in already.                     *)
Overflow_MakesRoom == Len(table) - Cap + 1

Overflow == Len(table) - Cap

CountOverflow(t) ==
  /\ At(t, "count")
  /\ req' = IF Overflow > 0
            THEN [req EXCEPT ![t].at = "list", ![t].over = Overflow, ![t].had = Held]
            ELSE [req EXCEPT ![t].at = "answer"]
  /\ UNCHANGED <<tableVars, cookieVars, ghostVars>>

(* list(_states.keys())[:overflow]                                           *)
ListOldest(t) ==
  LET n == IF req[t].over < Len(table) THEN req[t].over ELSE Len(table)
      k == IF Len(table) > Cap THEN Len(table) - Cap ELSE 0 IN
  /\ At(t, "list")
  /\ req' = [req EXCEPT ![t].at = "evict",
                        ![t].doomed = {table[i] : i \in 1..n}, ![t].over = 0,
                        ![t].had = {},
                        ![t].newest = {table[i] : i \in (k + 1)..Len(table)},
                        ![t].raced = ~ (req[t].had \subseteq Held)]
  /\ UNCHANGED <<tableVars, cookieVars, ghostVars>>

(* The redirect reaches the browser with its cookie.  (challenge_for finds   *)
(* no entry when the state is gone again; the redirect is sent all the same.)*)
AnswerLogin(t) ==
  /\ At(t, "answer") \/ (At(t, "evict") /\ Left(t) = {})
  /\ SetCookie(t, req[t].s)
  /\ Done(t)
  /\ UNCHANGED <<tableVars, ghostVars>>
-----------------------------------------------------------------------------
(* GET /auth/callback.  Any browser may present any state that has left the  *)
(* server; the cookie that comes with the request must name the same one.    *)

Sent(s) ==
  /\ maker[s] # None
  /\ \A t \in Thread : req[t] # None /\ req[t].op = "login" => req[t].s # s

(* Mutant: the state is consumed before the cookie is compared.              *)
Callback_PopsFirst(t, b, s) ==
  /\ Sent(s)
  /\ Begin(t, "callback", IF cookie[b] = s THEN "consume" ELSE "refuse", b, s)
  /\ table' = IF cookie[b] = s THEN table ELSE Without(s)
  /\ UNCHANGED <<age, lost, cookieVars, ghostVars>>

Callback(t, b, s) ==
  /\ Sent(s)
  /\ Begin(t, "callback", IF cookie[b] = s THEN "consume" ELSE "refuse", b, s)
  /\ UNCHANGED <<tableVars, cookieVars, ghostVars>>

(* Mutant: get instead of pop.                                               *)
Consume_Gets(t) ==
  /\ At(t, "consume")
  /\ GoTo(t, IF req[t].s \in Held THEN "check" ELSE "refuse")
  /\ UNCHANGED <<tableVars, cookieVars, ghostVars>>

(* consume_state: the pop, and then the look at the clock.                   *)
Consume(t) ==
  LET s == req[t].s IN
  /\ At(t, "consume")
  /\ table' = Without(s)
  /\ GoTo(t, IF s \in Held THEN "check" ELSE "refuse")
  /\ UNCHANGED <<age, lost, cookieVars, ghostVars>>

CheckAge(t) ==
  LET s == req[t].s IN
  /\ At(t, "check")
  /\ IF age[s] >= TTL
     THEN GoTo(t, "refuse") /\ UNCHANGED uses
     ELSE /\ GoTo(t, "exchange")
          /\ uses' = [uses EXCEPT ![s] = Append(@, req[t].b)]
  /\ UNCHANGED <<tableVars, cookieVars, maker>>

(* The code is exchanged and the session made: the answer deletes the cookie.*)
(* A token endpoint or a Snowflake that refuses gives _reject_oauth_callback;*)
(* a failure after that raises, and the cookie stays.                        *)
SignedIn(t) ==
  /\ At(t, "exchange")
  /\ SetCookie(t, None)
  /\ Done(t)
  /\ UNCHANGED <<tableVars, ghostVars>>

ExchangeFails(t) ==
  /\ At(t, "exchange")
  /\ GoTo(t, "refuse")
  /\ UNCHANGED <<tableVars, cookieVars, ghostVars>>

SessionFails(t) ==
  /\ At(t, "exchange")
  /\ Done(t)
  /\ UNCHANGED <<tableVars, cookieVars, ghostVars>>

Refuse(t) ==
  /\ At(t, "refuse")
  /\ SetCookie(t, None)
  /\ Done(t)
  /\ UNCHANGED <<tableVars, ghostVars>>
-----------------------------------------------------------------------------
(* Only the age of a state that can still be looked at matters.              *)
Looked(s) == s \in Held \/ \E t \in Thread : At(t, "check") /\ req[t].s = s

Tick ==
  /\ age' = [s \in State |-> IF Looked(s) /\ ~ Expired(s) THEN age[s] + 1 ELSE age[s]]
  /\ UNCHANGED <<table, cookie, req, maker, uses, lost, disturbed>>

Login(t) ==
  \/ \E b \in Browser : AskLogin(t, b)
  \/ IterationRaises(t) \/ Collect(t) \/ PopDoomed(t)
  \/ \E s \in State : Insert(t, s)
  \/ CountOverflow(t) \/ ListOldest(t) \/ AnswerLogin(t)

Return(t) ==
  \/ \E b \in Browser, s \in State : Callback(t, b, s)
  \/ Consume(t) \/ CheckAge(t)
  \/ SignedIn(t) \/ ExchangeFails(t) \/ SessionFails(t) \/ Refuse(t)

Next == Tick \/ \E t \in Thread : Login(t) \/ Return(t)

Spec == Init /\ [][Next]_vars
-----------------------------------------------------------------------------
(* "State is single-use and expiring", and bound to the browser that began:  *)
(* for every interleaving of the handlers the table is SingleUse.  A state   *)
(* is open while a callback can still get through with it: it is fresh, and  *)
(* in the table or in the hands of the one callback that popped it.          *)
Live ==
  {s \in State : Looked(s) /\ age[s] < TTL}

Abstract == INSTANCE SingleUse WITH owner <- maker, open <- Live

UsedOnce == Abstract!Spec

(* "dropping the oldest entries first once the cap is hit": a state leaves   *)
(* the table when its callback takes it, when consume_state would refuse it  *)
(* anyway, or when Cap newer ones are there.  The exception is an eviction   *)
(* whose overflow was stale: the table had shrunk since it was counted.      *)
DropsDeserved ==
  [][\A s \in Held \ {table'[i] : i \in DOMAIN table'} :
       \/ age[s] >= TTL
       \/ \E t \in Thread : At(t, "consume") /\ req[t].s = s
       \/ \E t \in Thread :
            /\ At(t, "evict") /\ s \in req[t].doomed
            /\ s \notin req[t].newest \/ req[t].raced]_vars

(* A browser that comes back with the state of its own sign-in is refused    *)
(* only when the state has expired, has let a callback through or is being   *)
(* popped by another one, was dropped for newer ones, or the browser's       *)
(* cookie was written for another sign-in since.                             *)
RefusedDeserved ==
  \A t \in Thread :
    At(t, "refuse") /\ maker[req[t].s] = req[t].b =>
      LET s == req[t].s IN
      \/ age[s] >= TTL
      \/ uses[s] # <<>>
      \/ s \in lost \cup disturbed
      \/ \E u \in Thread : At(u, "check") /\ req[u].s = s
=============================================================================
