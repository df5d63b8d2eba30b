--------------------------------- MODULE Access ---------------------------------
(***************************************************************************)
(* How Excel and Power Query get in: connect tokens (auth/connect_token.py)*)
(* on the rows of app sessions (auth/sessions.py), the XMLA sessions they  *)
(* open (xmla/state.py), and the window of failed attempts both endpoints  *)
(* share (auth/throttle.py).                                               *)
(*                                                                         *)
(* Feed, mint and logout handlers run in threads and overlap.  The XMLA    *)
(* endpoint is async and never awaits while it works, so one request at a  *)
(* time is in progress there, on the event loop, and the store of XMLA     *)
(* sessions is only touched by it.  A step is one section under a lock, or *)
(* one statement or commit of the database.                                *)
(*                                                                         *)
(* One client is modelled: windows of different clients have nothing in    *)
(* common.  Ages stop one past the limit they are compared with.  A token, *)
(* an XMLA session id or an app session that nothing refers to any more    *)
(* may be used again for a new one, which keeps the model finite.          *)
(***************************************************************************)
EXTENDS Integers, Sequences, FiniteSets

CONSTANTS
  Session,      \* app sessions
  Token,        \* passwords: connect tokens, or anything else while no row has them
  XmlaId,       \* ids of XMLA sessions
  Handler,      \* server threads
  Loop,         \* the event loop
  None,
  SessionTTL,   \* session_ttl_hours, in ticks
  TokenTTL,     \* connect_token_ttl_hours, in ticks
  IdleTTL,      \* IDLE_TTL_SECONDS, in ticks
  Window,       \* WINDOW_SECONDS, in ticks
  Limit,        \* attempts allowed per window
  MaxSessions   \* of the store of XMLA sessions

ASSUME SetAssumption ==
  /\ None \notin Session \cup Token \cup XmlaId \cup Nat
  /\ Loop \notin Handler
  /\ IsFiniteSet(Handler)
  /\ IsFiniteSet(XmlaId)

ASSUME NumberAssumption ==
  /\ {SessionTTL, TokenTTL, IdleTTL, Window, MaxSessions} \subseteq Nat
  /\ Limit \in Nat \ {0}

Thread == Handler \cup {Loop}

VARIABLES
  live,         \* the app sessions that have a row
  seen,         \* age of last_seen_at
  hash,         \* the token whose hash the row has, or None
  minted,       \* age of that token: connect_token_expires_at
  owner,        \* the session a token was minted for, or None (not in the code)
  byId,         \* SessionStore._by_id: the app session of an XMLA session, or None
  idle,         \* age of its last_seen
  byDigest,     \* SessionStore._by_digest: an XMLA session, or None
  hits,         \* SlidingWindow._hits of the client
  counted,      \* SlidingWindow._seen of the client: age, or None
  req           \* what a thread is doing, or None

vars == <<live, seen, hash, minted, owner, byId, idle, byDigest, hits, counted, req>>
rowVars == <<live, seen, hash, minted>>
storeVars == <<byId, idle, byDigest>>
windowVars == <<hits, counted>>

Age(ttl) == 0..(ttl + 1)

(* One tick later. *)
Older(age, ttl) == IF age > ttl THEN age ELSE age + 1

(* A request: its password, if it has sent one, and the app session it has   *)
(* come to.  An XMLA request is "open" while it has no XMLA session.         *)
(* `raced`: the row it is about to drop has been touched since it was read   *)
(* (not in the code).                                                        *)
Request ==
  [op : {"mint", "feed", "open", "xmla"},
   at : {"resolve", "visit", "drop", "touch", "write", "refused", "fault"},
   k : Token \cup {None}, s : Session \cup {None}, raced : BOOLEAN]

(* `by`: the password counted once, or None (not in the code).               *)
Hit == [age : 0..Window, by : Token \cup {None}]

TypeOK ==
  /\ live \subseteq Session
  /\ seen \in [Session -> Age(SessionTTL)]
  /\ hash \in [Session -> Token \cup {None}]
  /\ minted \in [Session -> Age(TokenTTL)]
  /\ owner \in [Token -> Session \cup {None}]
  /\ byId \in [XmlaId -> Session \cup {None}]
  /\ idle \in [XmlaId -> Age(IdleTTL)]
  /\ byDigest \in [Token -> XmlaId \cup {None}]
  /\ hits \in Seq(Hit)
  /\ counted \in [Token -> 0..Window \cup {None}]
  /\ req \in [Thread -> Request \cup {None}]

Init ==
  /\ live = {}
  /\ seen = [s \in Session |-> 0]
  /\ hash = [s \in Session |-> None]
  /\ minted = [s \in Session |-> 0]
  /\ owner = [k \in Token |-> None]
  /\ byId = [x \in XmlaId |-> None]
  /\ idle = [x \in XmlaId |-> 0]
  /\ byDigest = [k \in Token |-> None]
  /\ hits = <<>>
  /\ counted = [k \in Token |-> None]
  /\ req = [t \in Thread |-> None]

At(t, p) == req[t] # None /\ req[t].at = p

GoTo(t, p) == req' = [req EXCEPT ![t].at = p]

Done(t) == req' = [req EXCEPT ![t] = None]

Begin(t, op, p, k, s) ==
  req' = [req EXCEPT ![t] = [op |-> op, at |-> p, k |-> k, s |-> s, raced |-> FALSE]]

UnusedToken(k) ==
  /\ \A s \in Session : hash[s] # k
  /\ byDigest[k] = None
  /\ counted[k] = None
  /\ \A i \in DOMAIN hits : hits[i].by # k
  /\ \A t \in Thread : req[t] # None => req[t].k # k

UnusedSession(s) ==
  /\ s \notin live
  /\ \A x \in XmlaId : byId[x] # s
  /\ \A t \in Thread : req[t] # None => req[t].s # s
  /\ \A k \in Token : owner[k] = s => UnusedToken(k)

-----------------------------------------------------------------------------
(* Rows of app sessions. *)

(* create_session *)
SignIn(s) ==
  /\ UnusedSession(s)
  /\ live' = live \cup {s}
  /\ owner' = [k \in Token |-> IF owner[k] = s THEN None ELSE owner[k]]
  /\ UNCHANGED <<seen, hash, minted, storeVars, windowVars, req>>

DropRows(S) ==
  /\ live' = live \ S
  /\ seen' = [s \in Session |-> IF s \in S THEN 0 ELSE seen[s]]
  /\ hash' = [s \in Session |-> IF s \in S THEN None ELSE hash[s]]
  /\ minted' = [s \in Session |-> IF s \in S THEN 0 ELSE minted[s]]

(* logout: the row is touched, then deleted; the answer forgets the cookie. *)
Logout(s) ==
  /\ s \in live
  /\ DropRows({s})
  /\ UNCHANGED <<owner, storeVars, windowVars, req>>

(* Mutant: an off-by-one in the comparison. *)
Expired_AtTTL(s) == seen[s] >= SessionTTL

Expired(s) == seen[s] > SessionTTL

(* purge_expired_sessions.  A row touched between its reading and the commit *)
(* is deleted all the same, which is no more than a logout can do.           *)
Purge ==
  /\ \E s \in live : Expired(s)
  /\ DropRows({s \in live : Expired(s)})
  /\ UNCHANGED <<owner, storeVars, windowVars, req>>

-----------------------------------------------------------------------------
(* get_active_session.  What it has read decides; the commit only finds out  *)
(* whether the row is still there.                                           *)

(* No session: 401, or a fault when an XMLA session is open already.  Only   *)
(* who has sent a password has more to do.                                   *)
Refuse(t) ==
  \/ req[t].op = "mint" /\ Done(t)
  \/ req[t].op \in {"feed", "open"} /\ GoTo(t, "refused")
  \/ req[t].op = "xmla" /\ GoTo(t, "fault")

(* db.get *)
Visit(t) ==
  LET s == req[t].s IN
  /\ At(t, "visit")
  /\ \/ s \notin live /\ Refuse(t)
     \/ s \in live /\ GoTo(t, IF Expired(s) THEN "drop" ELSE "touch")
  /\ UNCHANGED <<rowVars, owner, storeVars, windowVars>>

(* The expired row is deleted, whatever has happened to it since.            *)
Drop(t) ==
  /\ At(t, "drop")
  /\ DropRows({req[t].s})
  /\ Refuse(t)
  /\ UNCHANGED <<owner, storeVars, windowVars>>

(* _commit_or_stale finds no row to update. *)
Vanished(t) ==
  /\ At(t, "touch") \/ At(t, "write")
  /\ req[t].s \notin live
  /\ Refuse(t)
  /\ UNCHANGED <<rowVars, owner, storeVars, windowVars>>

(* last_seen_at is committed.  The request goes on as q, if it does.         *)
Touched(t, q) ==
  LET s == req[t].s IN
  /\ s \in live
  /\ seen' = [seen EXCEPT ![s] = 0]
  /\ req' = [u \in Thread |->
               IF u = t THEN q
               ELSE IF At(u, "drop") /\ req[u].s = s THEN [req[u] EXCEPT !.raced = TRUE]
               ELSE req[u]]
  /\ UNCHANGED <<live, hash, minted, owner>>

(* The session goes back to the handler.  Mint goes on to its own commit;    *)
(* the feed and the XMLA request to the connection cache, and are served.    *)
Touch(t) ==
  /\ At(t, "touch")
  /\ \/ req[t].op = "mint" /\ Touched(t, [req[t] EXCEPT !.at = "write"])
     \/ req[t].op \in {"feed", "xmla"} /\ Touched(t, None)
  /\ UNCHANGED <<storeVars, windowVars>>

(* A fault is sent, and counts against nobody. *)
Fault(t) ==
  /\ At(t, "fault")
  /\ Done(t)
  /\ UNCHANGED <<rowVars, owner, storeVars, windowVars>>

-----------------------------------------------------------------------------
(* Connect tokens. *)

(* create_connect_token *)
AskMint(t, s) ==
  /\ req[t] = None
  /\ s \in live
  /\ Begin(t, "mint", "visit", None, s)
  /\ UNCHANGED <<rowVars, owner, storeVars, windowVars>>

(* The row gets the new hash, and the token before it is replaced. *)
Mint(t) ==
  /\ At(t, "write")
  /\ req[t].s \in live
  /\ \E k \in Token :
       /\ UnusedToken(k)
       /\ hash' = [hash EXCEPT ![req[t].s] = k]
       /\ owner' = [owner EXCEPT ![k] = req[t].s]
  /\ minted' = [minted EXCEPT ![req[t].s] = 0]
  /\ Done(t)
  /\ UNCHANGED <<live, seen, storeVars, windowVars>>

(* The rows that have the hash of a password. *)
Holder(k) == {s \in live : hash[s] = k}

(* Mutant: the time of one side is taken for that of another zone. *)
TokenExpired_Naive(s) == minted[s] + 1 >= TokenTTL

TokenExpired(s) == minted[s] >= TokenTTL

(* resolve: the row is found by the hash.  The rest is get_active_session,   *)
(* which takes the row as it has been read.                                  *)
Resolve(t) ==
  LET k == req[t].k IN
  /\ At(t, "resolve")
  /\ \/ /\ \A s \in Holder(k) : TokenExpired(s)
        /\ Refuse(t)
     \/ \E s \in Holder(k) :
          /\ ~ TokenExpired(s)
          /\ req' = [req EXCEPT ![t].s = s, ![t].at = IF Expired(s) THEN "drop" ELSE "touch"]
  /\ UNCHANGED <<rowVars, owner, storeVars, windowVars>>

-----------------------------------------------------------------------------
(* The window of failed attempts. *)

(* Mutant: an off-by-one in the comparison. *)
Allowed_AtLimit == Len(hits) <= Limit

(* allowed: of the feed at its start, of the XMLA endpoint before open.      *)
Allowed == Len(hits) < Limit

(* 429 *)
Throttled(t) ==
  /\ req[t] = None
  /\ ~ Allowed
  /\ UNCHANGED vars

AskFeed(t, k) ==
  /\ req[t] = None
  /\ Allowed
  /\ Begin(t, "feed", "resolve", k, None)
  /\ UNCHANGED <<rowVars, owner, storeVars, windowVars>>

Failure(k) == hits' = Append(hits, [age |-> 0, by |-> k])

(* register_failure *)
FeedFailed(t) ==
  /\ At(t, "refused")
  /\ req[t].op = "feed"
  /\ Failure(None)
  /\ Done(t)
  /\ UNCHANGED <<rowVars, owner, storeVars, counted>>

(* Mutant: every failure counts. *)
First_Always(k) == TRUE

(* The fingerprint is not there. *)
First(k) == counted[k] = None

(* register_failure_once *)
OpenFailed ==
  LET k == req[Loop].k IN
  /\ At(Loop, "refused")
  /\ \/ First(k) /\ Failure(k) /\ counted' = [counted EXCEPT ![k] = 0]
     \/ ~ First(k) /\ UNCHANGED windowVars
  /\ Done(Loop)
  /\ UNCHANGED <<rowVars, owner, storeVars>>

(* Whoever looks at the window first drops what is older than it, from the   *)
(* left: here time does.                                                     *)
HitsAge ==
  \E n \in 0..Len(hits) :
    /\ \A i \in 1..n : hits[i].age = Window
    /\ n < Len(hits) => hits[n + 1].age < Window
    /\ hits' = [i \in 1..(Len(hits) - n) |-> [hits[i + n] EXCEPT !.age = @ + 1]]

LaterCounted ==
  [k \in Token |->
     IF counted[k] = None \/ counted[k] = Window THEN None ELSE counted[k] + 1]

-----------------------------------------------------------------------------
(* XMLA sessions. *)

Open == {x \in XmlaId : byId[x] # None}

Forgotten == {x \in Open : idle[x] > IdleTTL}

(* What _sweep may drop: the idle sessions, and then the least recently used *)
(* until MaxSessions are left.                                               *)
Victims ==
  {V \in SUBSET Open :
     /\ Forgotten \subseteq V
     /\ V = Forgotten \/ Cardinality(Open \ V) = MaxSessions
     /\ Cardinality(Open \ V) <= MaxSessions
     /\ \A x \in V, y \in Open \ V : idle[x] >= idle[y]}

(* Mutant: nobody clears the digest table. *)
Kept_All(digests, V) == digests

(* The digest table keeps what the other table still has. *)
Kept(digests, V) == [k \in Token |-> IF digests[k] \in V THEN None ELSE digests[k]]

Swept(V) == [x \in XmlaId |-> IF x \in V THEN None ELSE byId[x]]

(* The session header: get.  An unknown id counts as no id.                  *)
AskById(x) ==
  /\ req[Loop] = None
  /\ x \in Open
  /\ idle' = [idle EXCEPT ![x] = 0]
  /\ Begin(Loop, "xmla", "visit", None, byId[x])
  /\ UNCHANGED <<rowVars, owner, byId, byDigest, windowVars>>

(* The first section of open: the sweep, and an answer from the digests.     *)
(* `ends`: the request is an EndSession.                                     *)
AskByToken(k) ==
  /\ req[Loop] = None
  /\ Allowed
  /\ \E V \in Victims, ends \in BOOLEAN :
       LET x == Kept(byDigest, V)[k]
           gone == IF ends /\ x # None THEN V \cup {x} ELSE V IN
       /\ byId' = Swept(gone)
       /\ byDigest' = Kept(byDigest, gone)
       /\ idle' = [y \in XmlaId |-> IF y \in gone \cup {x} THEN 0 ELSE idle[y]]
       /\ \/ x = None /\ Begin(Loop, "open", "resolve", k, None)
          \/ x # None /\ ~ ends /\ Begin(Loop, "xmla", "visit", k, byId[x])
          \/ x # None /\ ends /\ UNCHANGED req
  /\ UNCHANGED <<rowVars, owner, windowVars>>

(* The second section of open: no sweep.  Then acquire_entry reads the row   *)
(* again.                                                                    *)
OpenSession ==
  /\ At(Loop, "touch")
  /\ req[Loop].op = "open"
  /\ Touched(Loop, [req[Loop] EXCEPT !.op = "xmla", !.at = "visit"])
  /\ \E x \in XmlaId \ Open :
       /\ byId' = [byId EXCEPT ![x] = req[Loop].s]
       /\ idle' = [idle EXCEPT ![x] = 0]
       /\ byDigest' = [byDigest EXCEPT ![req[Loop].k] = x]
  /\ UNCHANGED windowVars

(* An EndSession ends what it has just opened. *)
OpenAndEnd ==
  /\ At(Loop, "touch")
  /\ req[Loop].op = "open"
  /\ Touched(Loop, None)
  /\ UNCHANGED <<storeVars, windowVars>>

(* EndSession by the session header. *)
EndSession(x) ==
  /\ req[Loop] = None
  /\ x \in Open
  /\ byId' = Swept({x})
  /\ idle' = [idle EXCEPT ![x] = 0]
  /\ byDigest' = Kept(byDigest, {x})
  /\ UNCHANGED <<rowVars, owner, windowVars, req>>

-----------------------------------------------------------------------------
Tick ==
  /\ seen' = [s \in Session |-> IF s \in live THEN Older(seen[s], SessionTTL) ELSE seen[s]]
  /\ minted' = [s \in Session |-> IF hash[s] = None THEN minted[s] ELSE Older(minted[s], TokenTTL)]
  /\ idle' = [x \in XmlaId |-> IF x \in Open THEN Older(idle[x], IdleTTL) ELSE idle[x]]
  /\ HitsAge
  /\ counted' = LaterCounted
  /\ UNCHANGED <<live, hash, owner, byId, byDigest, req>>

Work(t) ==
  \/ Resolve(t) \/ Visit(t) \/ Drop(t) \/ Vanished(t) \/ Touch(t) \/ Mint(t)
  \/ Fault(t)

Next ==
  \/ \E s \in Session : SignIn(s) \/ Logout(s)
  \/ Purge
  \/ \E t \in Handler :
       \/ \E s \in Session : AskMint(t, s)
       \/ \E k \in Token : AskFeed(t, k)
       \/ FeedFailed(t)
  \/ \E x \in XmlaId : AskById(x) \/ EndSession(x)
  \/ \E k \in Token : AskByToken(k)
  \/ OpenSession \/ OpenAndEnd \/ OpenFailed
  \/ \E t \in Thread : Throttled(t) \/ Work(t)
  \/ Tick

Spec == Init /\ [][Next]_vars
-----------------------------------------------------------------------------
(* A password that opens a session now: the current token of a live session, *)
(* neither of them expired.                                                  *)
Valid(k) ==
  \E s \in live : hash[s] = k /\ minted[s] < TokenTTL /\ seen[s] <= SessionTTL

(* The two tables of the store agree: every XMLA session is found by exactly *)
(* one token, and it rides on the app session that token was minted for.     *)
TablesAgree ==
  /\ \A x \in Open : \E k \in Token : byDigest[k] = x /\ owner[k] = byId[x]
  /\ \A k \in Token : byDigest[k] # None => byDigest[k] \in Open
  /\ \A k, l \in Token : byDigest[k] = byDigest[l] /\ byDigest[k] # None => k = l

(* MAX_SESSIONS bounds the store, but for the session inserted after the     *)
(* sweep.                                                                    *)
StoreBounded == Cardinality(Open) <= MaxSessions + 1

(* Attempts that pass `allowed` at the same time each add a failure: no more *)
(* of them than there are threads.                                           *)
BudgetHolds == Len(hits) < Limit + Cardinality(Thread)

(* "Count a failure once per (key, fingerprint) per window": MSOLAP's        *)
(* retries of one rejected token take one attempt of the budget.             *)
CountedOnce ==
  \A i, j \in DOMAIN hits : hits[i].by = hits[j].by /\ hits[i].by # None => i = j

Rejected(t) == At(t, "refused") \/ At(t, "fault")

(* A password is rejected only when it is not valid, or not any more: no     *)
(* entry of the store and no race with other handlers keeps a fresh token    *)
(* out.                                                                      *)
RejectionsDeserved ==
  \A t \in Thread : Rejected(t) /\ req[t].k \in Token => ~ Valid(req[t].k)

(* "An actively refreshing workbook keeps its session warm": but for a       *)
(* logout, a row is dropped only when it has not been used for the whole     *)
(* TTL, or if it was when a request read it that somebody has overtaken.     *)
UsedIsKept ==
  [][\A s \in Session :
       s \in live /\ s \notin live' =>
         \/ Logout(s)
         \/ seen[s] > SessionTTL
         \/ \E t \in Thread : At(t, "drop") /\ req[t].s = s /\ req[t].raced]_vars

=============================================================================
