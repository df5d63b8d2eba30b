---------------------------- MODULE ConnectionCache ----------------------------
(***************************************************************************)
(* The per-session Snowflake connection cache (app/snowflake/provider.py)  *)
(* together with every thread that touches it: sign-in (auth/routes.py,    *)
(* auth/dev.py), logout, API and XMLA requests, and the background sweeper *)
(* of main.py.                                                             *)
(*                                                                         *)
(* The cache has two kinds of lock.  The cache lock guards the dictionary  *)
(* and is held for one section at a time, so each section is one action.   *)
(* The lock of an entry is held while a request runs its query, and is not *)
(* taken by the section that hands the entry out.  Popped connections are  *)
(* closed after the section, by the thread that popped them: until then    *)
(* they are in its toClose set, and the thread does nothing else.          *)
(*                                                                         *)
(* A CacheEntry is created with one connection and never given another, so *)
(* the entry and its connection are the same thing here.  A closed         *)
(* connection that nothing refers to any more may be used again for a new  *)
(* one (the object was garbage collected), which keeps the model finite    *)
(* without bounding how many connections are built.                        *)
(***************************************************************************)
EXTENDS Integers, FiniteSets

CONSTANTS
  Session,      \* app sessions; every sign-in has an id of its own
  OAuth,        \* the ones signed in through OAuth: rebuildable
  Worker,       \* server threads that run handlers
  Route,        \* where requests come from: "api", "xmla"
  Sweeper,      \* the thread of main.lifespan
  Conn,         \* Snowflake connections that may exist at a time
  None,         \* Python's None
  MaxSize,      \* connection_cache_max
  IdleTTL,      \* connection_idle_ttl_seconds, in ticks
  SessionTTL,   \* session_ttl_hours, in ticks: session life and retain_ttl
  MaxAge,       \* ages are counted up to here
  CommitFails   \* the database may fail between two commits of one sign-in

ASSUME SetAssumption ==
  /\ OAuth \subseteq Session
  /\ Route \subseteq {"api", "xmla"}
  /\ IsFiniteSet(Session)
  /\ IsFiniteSet(Worker)
  /\ Sweeper \notin Worker
  /\ None \notin Conn
  /\ None \notin Session
  /\ None \notin Worker \cup {Sweeper}

ASSUME NumberAssumption ==
  /\ MaxSize \in Nat
  /\ IdleTTL \in Nat
  /\ SessionTTL \in Nat
  /\ MaxAge \in Nat
  /\ IdleTTL < MaxAge
  /\ SessionTTL < MaxAge
  /\ CommitFails \in BOOLEAN

Thread == Worker \cup {Sweeper}

VARIABLES
  row,       \* the session's database row: "new", "live" or "gone"
  seen,      \* age of the row's last_seen_at
  entry,     \* ConnectionCache._entries
  age,       \* age of the entry's last_used
  conn,      \* "open", "lost" (dead at the server only) or "closed"
  owner,     \* the session whose credential opened the connection, until it is closed
  lock,      \* CacheEntry.lock: the thread that holds it, or None
  pc,        \* what a thread does next
  kind,      \* the request's route: "api", or "xmla" and its one "retry"
  sess,      \* the session a thread works for
  cur,       \* the connection or entry a thread has in a local variable
  toClose    \* connections a thread has popped and not closed yet

vars == <<row, seen, entry, age, conn, owner, lock, pc, kind, sess, cur, toClose>>
rowVars == <<row, seen>>
cacheVars == <<entry, age>>
connVars == <<conn, owner>>
threadVars == <<pc, kind, sess, cur, toClose>>

Cached == {s \in Session : entry[s] # None}

Referenced(c) ==
  \/ \E s \in Session : entry[s] = c
  \/ \E t \in Thread : cur[t] = c \/ c \in toClose[t]

Fresh(c) == conn[c] = "closed" /\ ~ Referenced(c)

IsAlive(c) == conn[c] # "closed"

(* A connection is stored for s and says it is open. *)
Usable(s) == entry[s] # None /\ IsAlive(entry[s])

(* connect_oauth or connect_dev with the credential of session s. *)
Opened(c, s) ==
  /\ Fresh(c)
  /\ conn' = [conn EXCEPT ![c] = "open"]
  /\ owner' = [owner EXCEPT ![c] = s]

Closed(c) ==
  /\ conn' = [conn EXCEPT ![c] = "closed"]
  /\ owner' = [owner EXCEPT ![c] = None]

LoginStep == {"connected", "signedIn"}
RequestStep == {"check", "lookup", "build", "install", "enter", "query", "discard", "raised"}
Step == {"idle", "evicted", "purge"} \cup LoginStep \cup RequestStep

TypeOK ==
  /\ row \in [Session -> {"new", "live", "gone"}]
  /\ seen \in [Session -> 0..MaxAge]
  /\ entry \in [Session -> Conn \cup {None}]
  /\ age \in [Session -> 0..MaxAge]
  /\ conn \in [Conn -> {"open", "lost", "closed"}]
  /\ owner \in [Conn -> Session \cup {None}]
  /\ lock \in [Conn -> Thread \cup {None}]
  /\ pc \in [Thread -> Step]
  /\ kind \in [Thread -> {"api", "xmla", "retry"}]
  /\ sess \in [Thread -> Session \cup {None}]
  /\ cur \in [Thread -> Conn \cup {None}]
  /\ toClose \in [Thread -> SUBSET Conn]

Init ==
  /\ row = [s \in Session |-> "new"]
  /\ seen = [s \in Session |-> 0]
  /\ entry = [s \in Session |-> None]
  /\ age = [s \in Session |-> 0]
  /\ conn = [c \in Conn |-> "closed"]
  /\ owner = [c \in Conn |-> None]
  /\ lock = [c \in Conn |-> None]
  /\ pc = [t \in Thread |-> "idle"]
  /\ kind = [t \in Thread |-> "api"]
  /\ sess = [t \in Thread |-> None]
  /\ cur = [t \in Thread |-> None]
  /\ toClose = [t \in Thread |-> {}]

(* A thread at p that has closed everything it popped. *)
At(t, p) == pc[t] = p /\ toClose[t] = {}

GoTo(t, p) == pc' = [pc EXCEPT ![t] = p]

(* The handler returns or raises: its local variables are gone. *)
Return(t) ==
  /\ GoTo(t, "idle")
  /\ kind' = [kind EXCEPT ![t] = "api"]
  /\ sess' = [sess EXCEPT ![t] = None]
  /\ cur' = [cur EXCEPT ![t] = None]

(* AuthExpiredError ends the request, except the first attempt of an XMLA    *)
(* request, which starts over once.                                          *)
AuthExpired(t) ==
  \/ /\ kind[t] = "xmla"
     /\ GoTo(t, "check")
     /\ kind' = [kind EXCEPT ![t] = "retry"]
     /\ cur' = [cur EXCEPT ![t] = None]
     /\ UNCHANGED sess
  \/ /\ kind[t] # "xmla"
     /\ Return(t)

-----------------------------------------------------------------------------
(* Database rows of sessions: app/auth/sessions.py. *)

Expired(s) == seen[s] > SessionTTL

DropRow(s) ==
  /\ row' = [row EXCEPT ![s] = "gone"]
  /\ seen' = [seen EXCEPT ![s] = 0]

TouchRow(s) ==
  /\ seen' = [seen EXCEPT ![s] = 0]
  /\ UNCHANGED row

(* What get_active_session does to the row, whatever it returns. *)
VisitRow(s) ==
  \/ row[s] = "live" /\ ~ Expired(s) /\ TouchRow(s)
  \/ row[s] = "live" /\ Expired(s) /\ DropRow(s)
  \/ row[s] # "live" /\ UNCHANGED rowVars

-----------------------------------------------------------------------------
(* Sections of the cache. *)

Pop(s) ==
  /\ entry' = [entry EXCEPT ![s] = None]
  /\ age' = [age EXCEPT ![s] = 0]

Stamp(s) ==
  /\ age' = [age EXCEPT ![s] = 0]
  /\ UNCHANGED entry

(* The connection stored for s, if any, on its way to be closed. *)
Popped(s) == {entry[s]} \ {None}

FreeIn(es) == {s \in Session : es[s] # None /\ lock[es[s]] = None}

(* How many entries are left when those of V are gone. *)
Left(es, V) == Cardinality({s \in Session : es[s] # None} \ V)

(* Mutant: the cap goes by age alone and ignores entry.lock. *)
CapVictims_IgnoresLock(es, ages, new) ==
  {V \in SUBSET {s \in Session : es[s] # None} :
     /\ V = {} \/ Left(es, V) >= MaxSize
     /\ Left(es, V) <= MaxSize
     /\ \A v \in V, x \in Session : es[x] # None /\ x \notin V => ages[v] >= ages[x]
     /\ new \notin V}

(* Mutant: an off-by-one in the loop condition. *)
CapVictims_OffByOne(es, ages, new) ==
  {V \in SUBSET FreeIn(es) :
     /\ V = {} \/ Left(es, V) >= MaxSize + 1
     /\ V = FreeIn(es) \/ Left(es, V) <= MaxSize + 1
     /\ \A v \in V, x \in FreeIn(es) \ V : ages[v] >= ages[x]
     /\ new \in V => V = FreeIn(es)}

(* Mutant: sorted the other way, the newest entry goes first. *)
CapVictims_NewestFirst(es, ages, new) ==
  {V \in SUBSET FreeIn(es) :
     /\ V = {} \/ Left(es, V) >= MaxSize
     /\ V = FreeIn(es) \/ Left(es, V) <= MaxSize
     /\ \A v \in V, x \in FreeIn(es) \ V : ages[v] <= ages[x]
     /\ V # {} => new \in V}

(* _enforce_cap_locked pops the oldest free entries, one at a time, until   *)
(* the cache is at its cap or no free entry is left.  Equal last_used       *)
(* values keep insertion order, so the entry just inserted, for `new`, is   *)
(* the last to go.                                                          *)
CapVictims(es, ages, new) ==
  {V \in SUBSET FreeIn(es) :
     /\ V = {} \/ Left(es, V) >= MaxSize
     /\ V = FreeIn(es) \/ Left(es, V) <= MaxSize
     /\ \A v \in V, x \in FreeIn(es) \ V : ages[v] >= ages[x]
     /\ new \in V => V = FreeIn(es)}

(* Store c for s, enforce the cap; the thread closes what was popped unless *)
(* the handler raises before it gets there.                                 *)
Insert(t, s, c, victims, closes) ==
  LET es == [entry EXCEPT ![s] = c] IN
  /\ victims \in CapVictims(es, [age EXCEPT ![s] = 0], s)
  /\ entry' = [x \in Session |-> IF x \in victims THEN None ELSE es[x]]
  /\ age' = [x \in Session |-> IF x \in victims \cup {s} THEN 0 ELSE age[x]]
  /\ toClose' = [toClose EXCEPT ![t] =
                   IF closes THEN Popped(s) \cup {es[v] : v \in victims} ELSE {}]

-----------------------------------------------------------------------------
(* Every thread: close one of the connections it popped. *)
CloseNext(t) ==
  \E c \in toClose[t] :
    /\ Closed(c)
    /\ toClose' = [toClose EXCEPT ![t] = @ \ {c}]
    /\ UNCHANGED <<rowVars, cacheVars, lock, pc, kind, sess, cur>>

-----------------------------------------------------------------------------
(* Sign-in: oauth_callback and dev_login. *)

(* The connection is opened first, from the code exchange or the password. *)
LoginConnect(t, s) ==
  /\ At(t, "idle")
  /\ row[s] = "new"
  /\ \A u \in Thread : sess[u] # s
  /\ \E c \in Conn : Opened(c, s) /\ cur' = [cur EXCEPT ![t] = c]
  /\ sess' = [sess EXCEPT ![t] = s]
  /\ GoTo(t, "connected")
  /\ UNCHANGED <<rowVars, cacheVars, lock, kind, toClose>>

(* probe_identity and create_session succeed. *)
LoginCreate(t) ==
  /\ At(t, "connected")
  /\ row' = [row EXCEPT ![sess[t]] = "live"]
  /\ GoTo(t, "signedIn")
  /\ UNCHANGED <<seen, cacheVars, connVars, lock, kind, sess, cur, toClose>>

(* Mutant: the handler forgets the connection when create_session raises. *)
LoginFail_Leaks(t) ==
  /\ At(t, "connected")
  /\ Return(t)
  /\ UNCHANGED <<rowVars, cacheVars, connVars, lock, toClose>>

(* One of them raises, or the commit of the chosen account does:             *)
(* close_quietly(conn).  A row already committed has an id nobody was given: *)
(* it counts as unused.                                                      *)
LoginFail(t) ==
  /\ At(t, "connected")
  /\ toClose' = [toClose EXCEPT ![t] = {cur[t]}]
  /\ Return(t)
  /\ UNCHANGED <<rowVars, cacheVars, connVars, lock>>

(* OAuth only: _replay_remembered_context raises, most likely in its commit. *)
(* The handler ends and nothing has the connection any more.                 *)
ReplayFail(t) ==
  /\ At(t, "signedIn")
  /\ CommitFails
  /\ sess[t] \in OAuth
  /\ row' = [row EXCEPT ![sess[t]] = "new"]
  /\ seen' = [seen EXCEPT ![sess[t]] = 0]
  /\ Return(t)
  /\ UNCHANGED <<cacheVars, connVars, lock, toClose>>

(* ConnectionCache.put, and the cookie goes out with the response. *)
LoginPut(t) ==
  /\ At(t, "signedIn")
  /\ \E V \in SUBSET Session : Insert(t, sess[t], cur[t], V, TRUE)
  /\ Return(t)
  /\ UNCHANGED <<rowVars, connVars, lock>>

-----------------------------------------------------------------------------
(* Logout. *)

(* The browser holds the id only once the sign-in has answered. *)
Known(s) == row[s] # "new" /\ \A u \in Thread : sess[u] = s => pc[u] \notin LoginStep

(* get_active_session, then ConnectionCache.evict: no check of entry.lock. *)
LogoutEvict(t, s) ==
  /\ At(t, "idle")
  /\ Known(s)
  /\ VisitRow(s)
  /\ toClose' = [toClose EXCEPT ![t] = Popped(s)]
  /\ Pop(s)
  /\ sess' = [sess EXCEPT ![t] = s]
  /\ GoTo(t, "evicted")
  /\ UNCHANGED <<connVars, lock, kind, cur>>

(* delete_session. *)
LogoutDelete(t) ==
  /\ At(t, "evicted")
  /\ DropRow(sess[t])
  /\ Return(t)
  /\ UNCHANGED <<cacheVars, connVars, lock, toClose>>

-----------------------------------------------------------------------------
(* A request that needs Snowflake.  The XMLA endpoint is async and runs on    *)
(* the event loop, so one of its requests runs at a time.                    *)
Arrive(t, s, k) ==
  /\ At(t, "idle")
  /\ Known(s)
  /\ k = "xmla" => \A u \in Thread : kind[u] = "api"
  /\ sess' = [sess EXCEPT ![t] = s]
  /\ kind' = [kind EXCEPT ![t] = k]
  /\ GoTo(t, "check")
  /\ UNCHANGED <<rowVars, cacheVars, connVars, lock, cur, toClose>>

(* A request that needs the session and no connection only touches the row. *)
Browse(t, s) ==
  /\ At(t, "idle")
  /\ Known(s)
  /\ VisitRow(s)
  /\ UNCHANGED <<cacheVars, connVars, lock, threadVars>>

(* current_session, or acquire_entry of the XMLA endpoint. *)
Check(t) ==
  /\ At(t, "check")
  /\ VisitRow(sess[t])
  /\ IF row[sess[t]] = "live" /\ ~ Expired(sess[t])
     THEN GoTo(t, "lookup") /\ UNCHANGED <<kind, sess, cur>>
     ELSE Return(t)
  /\ UNCHANGED <<cacheVars, connVars, lock, toClose>>

(* Mutant: a cache key that does not tell sessions apart. *)
Hit_AnyEntry(t) ==
  /\ At(t, "lookup")
  /\ \E s \in Session :
       /\ Usable(s)
       /\ Stamp(s)
       /\ cur' = [cur EXCEPT ![t] = entry[s]]
  /\ GoTo(t, "enter")
  /\ UNCHANGED <<rowVars, connVars, lock, kind, sess, toClose>>

(* acquire, first section: the stored entry is alive. *)
Hit(t) ==
  LET s == sess[t] IN
  /\ At(t, "lookup")
  /\ Usable(s)
  /\ Stamp(s)
  /\ cur' = [cur EXCEPT ![t] = entry[s]]
  /\ GoTo(t, "enter")
  /\ UNCHANGED <<rowVars, connVars, lock, kind, sess, toClose>>

(* acquire, first section: nothing alive is stored.  A dead entry is popped. *)
(* Only an OAuth session has a token to build a new connection from.         *)
Miss(t) ==
  LET s == sess[t] IN
  /\ At(t, "lookup")
  /\ ~ Usable(s)
  /\ toClose' = [toClose EXCEPT ![t] = Popped(s)]
  /\ Pop(s)
  /\ \/ s \in OAuth /\ GoTo(t, "build") /\ UNCHANGED <<kind, sess, cur>>
     \/ s \notin OAuth /\ AuthExpired(t)
  /\ UNCHANGED <<rowVars, connVars, lock>>

(* _build_oauth, outside the cache lock. *)
Build(t) ==
  /\ At(t, "build")
  /\ \E c \in Conn : Opened(c, sess[t]) /\ cur' = [cur EXCEPT ![t] = c]
  /\ GoTo(t, "install")
  /\ UNCHANGED <<rowVars, cacheVars, lock, kind, sess, toClose>>

(* The refresh is refused (AuthExpiredError), or the connection cannot be    *)
(* opened (any other error: the request ends).                               *)
BuildFail(t) ==
  /\ At(t, "build")
  /\ Return(t) \/ AuthExpired(t)
  /\ UNCHANGED <<rowVars, cacheVars, connVars, lock, toClose>>

(* Mutant: the connection just built is dropped when another one is there.   *)
InstallTheirs_Forgets(t) ==
  LET s == sess[t] IN
  /\ At(t, "install")
  /\ Usable(s)
  /\ Stamp(s)
  /\ cur' = [cur EXCEPT ![t] = entry[s]]
  /\ GoTo(t, "enter")
  /\ UNCHANGED <<rowVars, connVars, lock, kind, sess, toClose>>

(* acquire, second section: another request was faster; keep its entry and   *)
(* close the connection just built.                                          *)
InstallTheirs(t) ==
  LET s == sess[t] IN
  /\ At(t, "install")
  /\ Usable(s)
  /\ Stamp(s)
  /\ toClose' = [toClose EXCEPT ![t] = {cur[t]}]
  /\ cur' = [cur EXCEPT ![t] = entry[s]]
  /\ GoTo(t, "enter")
  /\ UNCHANGED <<rowVars, connVars, lock, kind, sess>>

(* acquire, second section: store the connection just built.  If the cap     *)
(* takes it at once, reading the entry back raises KeyError, and whatever    *)
(* was popped is never closed.                                               *)
InstallMine(t) ==
  LET s == sess[t] IN
  /\ At(t, "install")
  /\ ~ Usable(s)
  /\ \E V \in SUBSET Session :
       /\ Insert(t, s, cur[t], V, s \notin V)
       /\ GoTo(t, IF s \in V THEN "raised" ELSE "enter")
       /\ cur' = [cur EXCEPT ![t] = IF s \in V THEN None ELSE @]
  /\ UNCHANGED <<rowVars, connVars, lock, kind, sess>>

(* KeyError is no ApiError: the request ends in an internal error. *)
Raise(t) ==
  /\ At(t, "raised")
  /\ Return(t)
  /\ UNCHANGED <<rowVars, cacheVars, connVars, lock, toClose>>

(* with entry.lock: blocks while another request of the session runs. *)
Enter(t) ==
  /\ At(t, "enter")
  /\ lock[cur[t]] = None
  /\ lock' = [lock EXCEPT ![cur[t]] = t]
  /\ GoTo(t, "query")
  /\ UNCHANGED <<rowVars, cacheVars, connVars, kind, sess, cur, toClose>>

(* The block ends, with an answer or an error.  Only a connection lost at    *)
(* the server raises AuthExpiredError, and only the XMLA endpoint hands the  *)
(* entry back.                                                               *)
Leave(t) ==
  /\ At(t, "query")
  /\ lock' = [lock EXCEPT ![cur[t]] = None]
  /\ IF conn[cur[t]] = "lost" /\ kind[t] # "api"
     THEN GoTo(t, "discard") /\ UNCHANGED <<kind, sess, cur>>
     ELSE Return(t)
  /\ UNCHANGED <<rowVars, cacheVars, connVars, toClose>>

(* Mutant: discard without the identity check.  *)
Discard_AnyEntry(t) ==
  LET s == sess[t] IN
  /\ At(t, "discard")
  /\ toClose' = [toClose EXCEPT ![t] = {cur[t]}]
  /\ Pop(s)
  /\ AuthExpired(t)
  /\ UNCHANGED <<rowVars, connVars, lock>>

(* ConnectionCache.discard, if the entry is still the one stored, and the    *)
(* error goes on.                                                            *)
Discard(t) ==
  LET s == sess[t] IN
  /\ At(t, "discard")
  /\ IF entry[s] = cur[t]
     THEN Pop(s) /\ toClose' = [toClose EXCEPT ![t] = {cur[t]}]
     ELSE UNCHANGED <<cacheVars, toClose>>
  /\ AuthExpired(t)
  /\ UNCHANGED <<rowVars, connVars, lock>>

-----------------------------------------------------------------------------
(* main.lifespan: every minute, sweep the cache, then purge the rows. *)

Idle(s) ==
  /\ entry[s] # None
  /\ age[s] > (IF s \in OAuth THEN IdleTTL ELSE SessionTTL)

(* sweep: every idle entry whose lock is free, in one section. *)
Sweep ==
  LET swept == {s \in Session : Idle(s) /\ lock[entry[s]] = None} IN
  /\ At(Sweeper, "idle")
  /\ entry' = [s \in Session |-> IF s \in swept THEN None ELSE entry[s]]
  /\ age' = [s \in Session |-> IF s \in swept THEN 0 ELSE age[s]]
  /\ toClose' = [toClose EXCEPT ![Sweeper] = {entry[s] : s \in swept}]
  /\ GoTo(Sweeper, "purge")
  /\ UNCHANGED <<rowVars, connVars, lock, kind, sess, cur>>

(* purge_expired_sessions: the rows go, the cache is not told. *)
Purge ==
  LET stale == {s \in Session : row[s] = "live" /\ Expired(s)} IN
  /\ At(Sweeper, "purge")
  /\ row' = [s \in Session |-> IF s \in stale THEN "gone" ELSE row[s]]
  /\ seen' = [s \in Session |-> IF s \in stale THEN 0 ELSE seen[s]]
  /\ GoTo(Sweeper, "idle")
  /\ UNCHANGED <<cacheVars, connVars, lock, kind, sess, cur, toClose>>

(* Mutant: an exception ends the loop. *)
PurgeFail_EndsLoop ==
  /\ At(Sweeper, "purge")
  /\ GoTo(Sweeper, "raised")
  /\ UNCHANGED <<rowVars, cacheVars, connVars, lock, kind, sess, cur, toClose>>

(* The database is down: logged, and the loop goes on. *)
PurgeFail ==
  /\ At(Sweeper, "purge")
  /\ GoTo(Sweeper, "idle")
  /\ UNCHANGED <<rowVars, cacheVars, connVars, lock, kind, sess, cur, toClose>>

-----------------------------------------------------------------------------
(* The environment. *)

Older(a) == IF a < MaxAge THEN a + 1 ELSE a

Tick ==
  /\ seen' = [s \in Session |-> IF row[s] = "live" THEN Older(seen[s]) ELSE seen[s]]
  /\ age' = [s \in Session |-> IF entry[s] # None THEN Older(age[s]) ELSE age[s]]
  /\ UNCHANGED <<row, entry, connVars, lock, threadVars>>

(* Snowflake ends the session of a connection; is_closed() still says open. *)
ServerDrop(c) ==
  /\ conn[c] = "open"
  /\ conn' = [conn EXCEPT ![c] = "lost"]
  /\ UNCHANGED <<rowVars, cacheVars, owner, lock, threadVars>>

(* The connector marks a stored connection closed by itself. *)
ClientDrop(s) ==
  /\ Usable(s)
  /\ Closed(entry[s])
  /\ UNCHANGED <<rowVars, cacheVars, lock, threadVars>>

-----------------------------------------------------------------------------
(* What a worker does once it has started on a request. *)
Continue(t) ==
  \/ LoginCreate(t) \/ LoginFail(t) \/ ReplayFail(t) \/ LoginPut(t)
  \/ LogoutDelete(t)
  \/ Check(t) \/ Hit(t) \/ Miss(t)
  \/ Build(t) \/ BuildFail(t) \/ InstallTheirs(t) \/ InstallMine(t) \/ Raise(t)
  \/ Enter(t) \/ Leave(t) \/ Discard(t)

Start(t) ==
  \E s \in Session :
    \/ LoginConnect(t, s)
    \/ LogoutEvict(t, s)
    \/ Browse(t, s)
    \/ \E k \in Route : Arrive(t, s, k)

Next ==
  \/ \E t \in Worker : Start(t) \/ Continue(t)
  \/ \E t \in Thread : CloseNext(t)
  \/ Sweep \/ Purge \/ PurgeFail
  \/ Tick
  \/ \E c \in Conn : ServerDrop(c)
  \/ \E s \in Session : ClientDrop(s)

Spec == Init /\ [][Next]_vars

(* Time passes, the sweeper's loop never stops, a handler that has started   *)
(* goes on: queries end (statement timeout) and close() returns.             *)
Fairness ==
  /\ WF_vars(Tick)
  /\ WF_vars(Sweep)
  /\ WF_vars(Purge \/ PurgeFail)
  /\ \A t \in Thread : WF_vars(CloseNext(t))
  /\ \A t \in Worker : WF_vars(Continue(t))

FairSpec == Spec /\ Fairness
-----------------------------------------------------------------------------
(* Properties. *)

(* The thread has the connection for itself: it built it and has not stored  *)
(* it yet, or popped it and has not closed it yet.                           *)
Owns(t, c) ==
  \/ c \in toClose[t]
  \/ cur[t] = c /\ pc[t] \in LoginStep \cup {"install"}

Busy(s) == entry[s] # None /\ lock[entry[s]] # None

(* With no more workers than max_size, and unless the database fails in the  *)
(* middle of a sign-in, no connection is leaked: one that is still open is in*)
(* the cache or in the hands of a thread that will store or close it.  The   *)
(* code closes what it popped outside the cache lock, on eight paths.        *)
NoLeak ==
  \A c \in Conn : IsAlive(c) =>
    (\E s \in Session : entry[s] = c) \/ (\E t \in Thread : Owns(t, c))

(* A connection has one owner: it is stored for one session, or one thread   *)
(* has it.  So what a thread is about to close cannot be handed out, and no  *)
(* thread closes what another one stored: discard's identity check.          *)
OneOwner ==
  \A c \in Conn :
    /\ \A s, x \in Session : entry[s] = c /\ entry[x] = c => s = x
    /\ \A t, u \in Thread : Owns(t, c) /\ Owns(u, c) => t = u
    /\ \A s \in Session, t \in Thread : ~ (entry[s] = c /\ Owns(t, c))

(* A request works on a connection that its own session's credential opened, *)
(* through rebuilds, replacements and evictions.                             *)
OwnCredential ==
  /\ \A s \in Session : Usable(s) => owner[entry[s]] = s
  /\ \A t \in Thread :
       pc[t] \in {"install", "enter", "query", "discard"} /\ IsAlive(cur[t]) =>
         owner[cur[t]] = sess[t]

(* entry.lock is held exactly by the request inside its block: it is given   *)
(* back on every path out, and two requests of a session never overlap.      *)
LockMatchesUse ==
  \A c \in Conn, t \in Thread : lock[c] = t <=> pc[t] = "query" /\ cur[t] = c

(* With no more workers than max_size the cache stays at its cap ...         *)
CapRespected == Cardinality(Cached) <= MaxSize

(* ... and acquire always finds the entry it has just stored (no KeyError).  *)
AcquireReturns == \A t \in Thread : pc[t] # "raised"

(* Neither the cap nor the sweep removes an entry that a query is using: a   *)
(* busy entry is removed only by a thread that works for the same session    *)
(* (logout, a dead connection found by acquire, discard).                    *)
BusySpared ==
  [][\A s \in Session : Busy(s) /\ entry'[s] # entry[s] =>
       \E t \in Worker : s \in {sess[t], sess'[t]} /\ pc'[t] # pc[t]]_vars

(* A connection rebuilt by a request that overlapped the logout or the purge *)
(* of its session outlives the row, but not for ever: the sweep takes it.    *)
OrphanReclaimed ==
  \A s \in Session : (row[s] = "gone" /\ entry[s] # None) ~> entry[s] = None

(* What a session that has signed out or expired leaves at Snowflake is      *)
(* closed in the end, wherever it is then: cached, popped, being built by a  *)
(* request that overlaps, installed after the row is gone or discarded       *)
(* because another one was first.  (Not so when the database fails in the    *)
(* middle of a sign-in.)                                                     *)
NothingOutlives ==
  \A s \in Session, c \in Conn :
    (row[s] = "gone" /\ IsAlive(c) /\ owner[c] = s) ~> ~ IsAlive(c)

=============================================================================
