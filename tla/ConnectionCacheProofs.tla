------------------------- MODULE ConnectionCacheProofs -------------------------
(***************************************************************************)
(* What ConnectionCache satisfies for every set of sessions, workers and   *)
(* connections and every size, by proof.                                   *)
(***************************************************************************)
EXTENDS ConnectionCache, FiniteSetTheorems, TLAPS

(* What a thread that is in the middle of something has in its variables. *)
Working == LoginStep \cup RequestStep \cup {"evicted"}
Holding == LoginStep \cup {"install", "enter", "query", "discard"}

LocalOK ==
  /\ \A t \in Thread : pc[t] \in Working => sess[t] \in Session
  /\ \A t \in Thread : pc[t] \in Holding => cur[t] \in Conn

TypeInv == TypeOK /\ LocalOK

(* The initial state has the right types. *)
LEMMA InitType == Init => TypeInv
  BY SetAssumption, NumberAssumption
  DEF Init, TypeInv, TypeOK, LocalOK, Thread, Step, Working, Holding, LoginStep, RequestStep

(* What a worker starts on keeps types and local variables right. *)
LEMMA StartType ==
  ASSUME TypeInv, NEW t \in Worker, Start(t)
  PROVE  TypeInv'
<1> USE SetAssumption, NumberAssumption
    DEF TypeInv, TypeOK, LocalOK, Thread, Step, Working, Holding, LoginStep, RequestStep,
        At, GoTo, rowVars, cacheVars, connVars, threadVars
<1>1. ASSUME NEW s \in Session, LoginConnect(t, s) PROVE TypeInv'
  BY <1>1 DEF LoginConnect, Opened
<1>2. ASSUME NEW s \in Session, LogoutEvict(t, s) PROVE TypeInv'
  BY <1>2 DEF LogoutEvict, VisitRow, TouchRow, DropRow, Pop, Popped
<1>3. ASSUME NEW s \in Session, Browse(t, s) PROVE TypeInv'
  BY <1>3 DEF Browse, VisitRow, TouchRow, DropRow
<1>4. ASSUME NEW s \in Session, NEW k \in Route, Arrive(t, s, k) PROVE TypeInv'
  BY <1>4 DEF Arrive
<1> QED BY <1>1, <1>2, <1>3, <1>4 DEF Start

(* What a section of the cache that inserts leaves behind is well typed. *)
LEMMA InsertType ==
  ASSUME TypeInv, NEW t \in Worker, NEW s \in Session, NEW c \in Conn, NEW V \in SUBSET Session,
         NEW closes \in BOOLEAN, Insert(t, s, c, V, closes)
  PROVE  /\ entry' \in [Session -> Conn \cup {None}]
         /\ age' \in [Session -> 0..MaxAge]
         /\ toClose' \in [Thread -> SUBSET Conn]
<1> USE SetAssumption, NumberAssumption DEF TypeInv, TypeOK, Thread, Insert
<1> DEFINE es == [entry EXCEPT ![s] = c]
<1>1. es \in [Session -> Conn \cup {None}]
  OBVIOUS
<1>2. \A v \in V : es[v] \in Conn
  BY <1>1 DEF CapVictims, FreeIn
<1>3. Popped(s) \cup {es[v] : v \in V} \subseteq Conn
  BY <1>2 DEF Popped
<1> QED BY <1>1, <1>3

LEMMA AuthExpiredType ==
  ASSUME TypeInv, NEW t \in Worker, AuthExpired(t), pc[t] \in Working
  PROVE  /\ pc' \in [Thread -> Step]
         /\ kind' \in [Thread -> {"api", "xmla", "retry"}]
         /\ sess' \in [Thread -> Session \cup {None}]
         /\ cur' \in [Thread -> Conn \cup {None}]
         /\ LocalOK'
  BY SetAssumption
  DEF TypeInv, TypeOK, LocalOK, Thread, Step, Working, Holding, LoginStep, RequestStep,
      AuthExpired, GoTo, Return

(* A handler that goes on keeps types and local variables right. *)
LEMMA ContinueType ==
  ASSUME TypeInv, NEW t \in Worker, Continue(t)
  PROVE  TypeInv'
<1> USE SetAssumption, NumberAssumption
    DEF TypeInv, TypeOK, LocalOK, Thread, Step, Working, Holding, LoginStep, RequestStep,
        At, GoTo, rowVars, cacheVars, connVars, threadVars
<1>1. CASE LoginCreate(t)
  BY <1>1 DEF LoginCreate
<1>2. CASE Check(t)
  BY <1>2 DEF Check, VisitRow, TouchRow, DropRow, Return
<1>3. CASE Hit(t)
  BY <1>3 DEF Hit, Usable, Stamp
<1>4. CASE Miss(t)
  <2>1. CASE sess[t] \in OAuth
    BY <1>4, <2>1 DEF Miss, Pop, Popped
  <2>2. CASE sess[t] \notin OAuth
    BY <1>4, <2>2, AuthExpiredType DEF Miss, Pop, Popped
  <2> QED BY <2>1, <2>2
<1>5. CASE Build(t)
  BY <1>5 DEF Build, Opened
<1>6. CASE BuildFail(t)
  <2>1. CASE Return(t)
    BY <1>6, <2>1 DEF BuildFail, Return
  <2>2. CASE AuthExpired(t)
    BY <1>6, <2>2, AuthExpiredType DEF BuildFail
  <2> QED BY <1>6, <2>1, <2>2 DEF BuildFail
<1>7. CASE InstallTheirs(t)
  BY <1>7 DEF InstallTheirs, Usable, Stamp
<1>8. CASE InstallMine(t)
  <2>1. PICK V \in SUBSET Session :
          /\ Insert(t, sess[t], cur[t], V, sess[t] \notin V)
          /\ GoTo(t, IF sess[t] \in V THEN "raised" ELSE "enter")
          /\ cur' = [cur EXCEPT ![t] = IF sess[t] \in V THEN None ELSE @]
    BY <1>8 DEF InstallMine
  <2>2. sess[t] \in Session /\ cur[t] \in Conn
    BY <1>8 DEF InstallMine
  <2>3. /\ entry' \in [Session -> Conn \cup {None}]
        /\ age' \in [Session -> 0..MaxAge]
        /\ toClose' \in [Thread -> SUBSET Conn]
    BY <2>1, <2>2, InsertType DEF Thread
  <2> QED BY <1>8, <2>1, <2>2, <2>3 DEF InstallMine
<1>9. CASE Raise(t)
  BY <1>9 DEF Raise, Return
<1>10. CASE Enter(t)
  BY <1>10 DEF Enter
<1>11. CASE Leave(t)
  BY <1>11 DEF Leave, Return
<1>12. CASE Discard(t)
  <2>1. /\ sess[t] \in Session /\ cur[t] \in Conn /\ pc[t] = "discard"
        /\ AuthExpired(t)
        /\ row' = row /\ seen' = seen /\ conn' = conn /\ owner' = owner /\ lock' = lock
    BY <1>12 DEF Discard
  <2>2. /\ entry' \in [Session -> Conn \cup {None}]
        /\ age' \in [Session -> 0..MaxAge]
        /\ toClose' \in [Thread -> SUBSET Conn]
    BY <1>12, <2>1 DEF Discard, Pop
  <2>3. /\ pc' \in [Thread -> Step]
        /\ kind' \in [Thread -> {"api", "xmla", "retry"}]
        /\ sess' \in [Thread -> Session \cup {None}]
        /\ cur' \in [Thread -> Conn \cup {None}]
        /\ LocalOK'
    BY <2>1, AuthExpiredType
  <2> QED BY <2>1, <2>2, <2>3
<1>13. CASE LoginPut(t)
  <2>1. PICK V \in SUBSET Session : Insert(t, sess[t], cur[t], V, TRUE)
    BY <1>13 DEF LoginPut
  <2>2. sess[t] \in Session /\ cur[t] \in Conn
    BY <1>13 DEF LoginPut
  <2>3. /\ entry' \in [Session -> Conn \cup {None}]
        /\ age' \in [Session -> 0..MaxAge]
        /\ toClose' \in [Thread -> SUBSET Conn]
    BY <2>1, <2>2, InsertType DEF Thread
  <2> QED BY <1>13, <2>3 DEF LoginPut, Return
<1>14. CASE LoginFail(t)
  BY <1>14 DEF LoginFail, Return
<1>15. CASE LogoutDelete(t)
  BY <1>15 DEF LogoutDelete, DropRow, Return
<1>16. CASE ReplayFail(t)
  BY <1>16 DEF ReplayFail, Return
<1> QED BY <1>1, <1>2, <1>3, <1>4, <1>5, <1>6, <1>7, <1>8, <1>9, <1>10, <1>11, <1>12,
           <1>13, <1>14, <1>15, <1>16 DEF Continue

(* The sweeper, the clock and the connections themselves keep types right. *)
LEMMA BackgroundType ==
  ASSUME TypeInv,
         \/ \E t \in Thread : CloseNext(t)
         \/ Sweep \/ Purge \/ PurgeFail \/ Tick
         \/ \E c \in Conn : ServerDrop(c)
         \/ \E s \in Session : ClientDrop(s)
  PROVE  TypeInv'
<1> USE SetAssumption, NumberAssumption
    DEF TypeInv, TypeOK, LocalOK, Thread, Step, Working, Holding, LoginStep, RequestStep,
        At, GoTo, rowVars, cacheVars, connVars, threadVars
<1>1. ASSUME NEW t \in Thread, CloseNext(t) PROVE TypeInv'
  BY <1>1 DEF CloseNext, Closed
<1>2. CASE Sweep
  BY <1>2 DEF Sweep, Idle
<1>3. CASE Purge
  BY <1>3 DEF Purge
<1>4. CASE PurgeFail
  BY <1>4 DEF PurgeFail
<1>5. CASE Tick
  <2>1. \A a \in 0..MaxAge : Older(a) \in 0..MaxAge
    BY DEF Older
  <2> QED BY <1>5, <2>1 DEF Tick
<1>6. ASSUME NEW c \in Conn, ServerDrop(c) PROVE TypeInv'
  BY <1>6 DEF ServerDrop
<1>7. ASSUME NEW s \in Session, ClientDrop(s) PROVE TypeInv'
  BY <1>7 DEF ClientDrop, Closed
<1> QED BY <1>1, <1>2, <1>3, <1>4, <1>5, <1>6, <1>7

(* The type invariant, with what threads hold in their variables, is          *)
(* inductive.                                                                 *)
LEMMA TypeStep == TypeInv /\ [Next]_vars => TypeInv'
<1> SUFFICES ASSUME TypeInv, [Next]_vars PROVE TypeInv'
  OBVIOUS
<1>1. CASE UNCHANGED vars
  BY <1>1 DEF vars, TypeInv, TypeOK, LocalOK
<1>2. CASE Next
  BY <1>2, StartType, ContinueType, BackgroundType DEF Next
<1> QED BY <1>1, <1>2

(* Every variable keeps its type: ConnectionCache for any number of sessions, *)
(* workers and connections.                                                   *)
THEOREM TypeCorrect == Spec => []TypeOK
<1>1. TypeInv => TypeOK
  BY DEF TypeInv
<1> QED BY <1>1, InitType, TypeStep, PTL DEF Spec

-----------------------------------------------------------------------------
(* entry.lock. *)

(* Only Enter and Leave move a thread into or out of its block, and only they *)
(* change a lock.                                                             *)
LEMMA LockStep == TypeInv /\ LockMatchesUse /\ [Next]_vars => LockMatchesUse'
<1> SUFFICES ASSUME TypeInv, LockMatchesUse, [Next]_vars PROVE LockMatchesUse'
  OBVIOUS
<1> USE SetAssumption
    DEF TypeInv, TypeOK, LocalOK, LockMatchesUse, Thread, Working, Holding, LoginStep,
        RequestStep, At, GoTo, rowVars, cacheVars, connVars, threadVars
<1>1. CASE UNCHANGED vars
  BY <1>1 DEF vars
<1>2. ASSUME NEW t \in Worker, Start(t) PROVE LockMatchesUse'
  BY <1>2 DEF Start, LoginConnect, LogoutEvict, Browse, Arrive
<1>3. ASSUME NEW t \in Worker, Continue(t) PROVE LockMatchesUse'
  <2>1. CASE Enter(t)
    BY <2>1 DEF Enter
  <2>2. CASE Leave(t)
    BY <2>2 DEF Leave, Return
  <2>3. CASE LoginCreate(t) \/ LoginFail(t) \/ ReplayFail(t) \/ LogoutDelete(t)
    BY <2>3 DEF LoginCreate, LoginFail, ReplayFail, LogoutDelete, Return
  <2>6. CASE LoginPut(t)
    <3>1. pc[t] = "signedIn" /\ lock' = lock /\ Return(t)
      BY <2>6 DEF LoginPut
    <3> QED BY <3>1 DEF Return
  <2>4. CASE Check(t) \/ Hit(t) \/ Build(t) \/ InstallTheirs(t) \/ InstallMine(t) \/ Raise(t)
    BY <2>4 DEF Check, Hit, Build, InstallTheirs, InstallMine, Raise, Return
  <2>5. CASE Miss(t) \/ BuildFail(t) \/ Discard(t)
    BY <2>5 DEF Miss, BuildFail, Discard, AuthExpired, Return
  <2> QED BY <1>3, <2>1, <2>2, <2>3, <2>4, <2>5, <2>6 DEF Continue
<1>4. ASSUME NEW t \in Thread, CloseNext(t) PROVE LockMatchesUse'
  BY <1>4 DEF CloseNext
<1>5. CASE Sweep \/ Purge \/ PurgeFail \/ Tick
  BY <1>5 DEF Sweep, Purge, PurgeFail, Tick
<1>6. ASSUME NEW c \in Conn, ServerDrop(c) PROVE LockMatchesUse'
  BY <1>6 DEF ServerDrop
<1>7. ASSUME NEW s \in Session, ClientDrop(s) PROVE LockMatchesUse'
  BY <1>7 DEF ClientDrop
<1> QED BY <1>1, <1>2, <1>3, <1>4, <1>5, <1>6, <1>7 DEF Next

(* entry.lock is held exactly by the request inside its block, so no lock     *)
(* outlives its request and two requests of a session never overlap.          *)
THEOREM LockCorrect == Spec => []LockMatchesUse
<1>1. Init => LockMatchesUse
  BY SetAssumption DEF Init, LockMatchesUse, Thread
<1> QED BY <1>1, InitType, TypeStep, LockStep, PTL DEF Spec

-----------------------------------------------------------------------------
(* What may happen to an entry that a query is using. *)

Spared(s) ==
  Busy(s) /\ entry'[s] # entry[s] =>
    \E t \in Worker : s \in {sess[t], sess'[t]} /\ pc'[t] # pc[t]

(* A section that inserts pops no busy entry but the one it replaces. *)
LEMMA InsertSpares ==
  ASSUME TypeInv, NEW t \in Worker, NEW c \in Conn, NEW V \in SUBSET Session,
         NEW closes \in BOOLEAN, sess[t] \in Session, Insert(t, sess[t], c, V, closes),
         NEW s \in Session, Busy(s), s # sess[t]
  PROVE  entry'[s] = entry[s]
  BY DEF TypeInv, TypeOK, Insert, CapVictims, FreeIn, Busy

(* Any number of workers, any cap: no step takes away a busy entry, unless a  *)
(* thread that works for the same session does.                               *)
LEMMA SparedStep == TypeInv /\ [Next]_vars => \A s \in Session : Spared(s)
<1> SUFFICES ASSUME TypeInv, [Next]_vars, NEW s \in Session PROVE Spared(s)
  OBVIOUS
<1> USE SetAssumption
    DEF TypeInv, TypeOK, LocalOK, Spared, Thread, Working, Holding, LoginStep,
        RequestStep, At, GoTo, rowVars, cacheVars, connVars, threadVars
<1>1. CASE UNCHANGED vars
  BY <1>1 DEF vars
<1>2. ASSUME NEW t \in Worker, Start(t) PROVE Spared(s)
  BY <1>2 DEF Start, LoginConnect, LogoutEvict, Browse, Arrive, Pop
<1>3. ASSUME NEW t \in Worker, Continue(t) PROVE Spared(s)
  <2>1. CASE LoginPut(t)
    <3>1. pc[t] = "signedIn" /\ pc'[t] # pc[t]
      BY <2>1 DEF LoginPut, Return
    <3>2. s # sess[t] /\ Busy(s) => entry'[s] = entry[s]
      BY <2>1, InsertSpares DEF LoginPut
    <3> QED BY <3>1, <3>2
  <2>2. CASE InstallMine(t)
    <3>1. pc'[t] # pc[t]
      BY <2>2 DEF InstallMine
    <3>2. s # sess[t] /\ Busy(s) => entry'[s] = entry[s]
      BY <2>2, InsertSpares DEF InstallMine
    <3> QED BY <3>1, <3>2
  <2>3. CASE LoginCreate(t) \/ LoginFail(t) \/ ReplayFail(t) \/ LogoutDelete(t) \/ Check(t) \/ BuildFail(t)
             \/ Build(t) \/ Raise(t) \/ Enter(t) \/ Leave(t)
    BY <2>3 DEF LoginCreate, LoginFail, ReplayFail, LogoutDelete, Check, BuildFail, Build, Raise,
                Enter, Leave
  <2>4. CASE Hit(t) \/ InstallTheirs(t)
    BY <2>4 DEF Hit, InstallTheirs, Stamp
  <2>5. CASE Miss(t) \/ Discard(t)
    BY <2>5 DEF Miss, Discard, AuthExpired, Return, Pop
  <2> QED BY <1>3, <2>1, <2>2, <2>3, <2>4, <2>5 DEF Continue
<1>4. ASSUME NEW t \in Thread, CloseNext(t) PROVE Spared(s)
  BY <1>4 DEF CloseNext
<1>5. CASE Sweep
  BY <1>5 DEF Sweep, Busy
<1>6. CASE Purge \/ PurgeFail \/ Tick
  BY <1>6 DEF Purge, PurgeFail, Tick
<1>7. ASSUME NEW c \in Conn, ServerDrop(c) PROVE Spared(s)
  BY <1>7 DEF ServerDrop
<1>8. ASSUME NEW x \in Session, ClientDrop(x) PROVE Spared(s)
  BY <1>8 DEF ClientDrop
<1> QED BY <1>1, <1>2, <1>3, <1>4, <1>5, <1>6, <1>7, <1>8 DEF Next

(* The cap and the sweep never remove an entry that a query is using.         *)
THEOREM BusyCorrect == Spec => BusySpared
<1>1. TypeInv /\ [Next]_vars =>
        [\A s \in Session : Busy(s) /\ entry'[s] # entry[s] =>
           \E t \in Worker : s \in {sess[t], sess'[t]} /\ pc'[t] # pc[t]]_vars
  BY SparedStep DEF Spared
<1> QED BY <1>1, InitType, TypeStep, PTL DEF Spec, BusySpared

-----------------------------------------------------------------------------
(* Who has a connection. *)

Owning == LoginStep \cup {"install"}

(* What a thread may do to the places a connection can be in: store what it   *)
(* owns for its own session, and take what is stored or what is fresh.        *)
Moves(t, s) ==
  /\ \A x \in Session, c \in Conn :
       entry'[x] = c => entry[x] = c \/ (Owns(t, c) /\ x = s)
  /\ \A u \in Thread \ {t}, c \in Conn : Owns(u, c)' => Owns(u, c)
  /\ \A c \in Conn :
       Owns(t, c)' => Owns(t, c) \/ (\E x \in Session : entry[x] = c) \/ Fresh(c)
  /\ \A c \in Conn, x \in Session : ~ (Owns(t, c)' /\ entry'[x] = c)

LEMMA MovesKeepOneOwner ==
  ASSUME TypeInv, OneOwner, NEW t \in Thread, NEW s, Moves(t, s)
  PROVE  OneOwner'
<1>1. ASSUME NEW c \in Conn, NEW x \in Session, NEW y \in Session, entry'[x] = c, entry'[y] = c
      PROVE  x = y
  BY <1>1 DEF OneOwner, Moves
<1>2. ASSUME NEW c \in Conn, NEW u \in Thread, NEW w \in Thread, Owns(u, c)', Owns(w, c)'
      PROVE  u = w
  <2>1. \A z \in Thread \ {t} : Owns(z, c) => ~ Owns(t, c)'
    BY DEF OneOwner, Moves, Fresh, Referenced, Owns
  <2> QED BY <1>2, <2>1 DEF OneOwner, Moves
<1>3. ASSUME NEW c \in Conn, NEW x \in Session, NEW u \in Thread, entry'[x] = c, Owns(u, c)'
      PROVE  FALSE
  BY <1>3 DEF OneOwner, Moves
<1> QED BY <1>1, <1>2, <1>3 DEF OneOwner

(* A section that inserts what the thread owns leaves one owner each. *)
LEMMA InsertMoves ==
  ASSUME TypeInv, OneOwner, NEW t \in Worker, sess[t] \in Session, cur[t] \in Conn,
         pc[t] \in Owning, toClose[t] = {},
         NEW V \in SUBSET Session, NEW closes \in BOOLEAN,
         Insert(t, sess[t], cur[t], V, closes),
         pc'[t] \notin Owning,
         \A u \in Thread \ {t} : pc'[u] = pc[u] /\ cur'[u] = cur[u]
  PROVE  OneOwner'
<1> USE SetAssumption DEF TypeInv, TypeOK, Thread, Owning, Owns
<1> DEFINE s == sess[t]
           es == [entry EXCEPT ![s] = cur[t]]
<1>1. s \in Session /\ t \in Thread
  OBVIOUS
<1>2. Owns(t, cur[t])
  OBVIOUS
<1>3. \A x \in Session : entry'[x] = IF x \in V THEN None ELSE IF x = s THEN cur[t] ELSE entry[x]
  BY DEF Insert
<1>4. ASSUME NEW c \in Conn, Owns(t, c)'
      PROVE  c = entry[s] \/ \E v \in V : c = IF v = s THEN cur[t] ELSE entry[v]
  BY <1>4 DEF Insert, Popped
<1>5. \A u \in Thread \ {t}, c \in Conn : Owns(u, c)' => Owns(u, c)
  BY DEF Insert
<1>6. \A x \in Session : entry[x] # cur[t]
  BY <1>1, <1>2 DEF OneOwner
<1>7. \A c \in Conn, x \in Session : ~ (Owns(t, c)' /\ entry'[x] = c)
  <2> SUFFICES ASSUME NEW c \in Conn, NEW x \in Session, Owns(t, c)', entry'[x] = c
               PROVE  FALSE
    OBVIOUS
  <2>1. x \notin V
    BY <1>3
  <2>2. c = IF x = s THEN cur[t] ELSE entry[x]
    BY <1>3, <2>1
  <2>3. \A y, z \in Session : entry[y] = c /\ entry[z] = c => y = z
    BY DEF OneOwner
  <2>4. c = entry[s] \/ \E v \in V : c = IF v = s THEN cur[t] ELSE entry[v]
    BY <1>4
  <2>5. CASE x = s
    BY <1>1, <1>6, <2>1, <2>2, <2>4, <2>5
  <2>6. CASE x # s
    BY <1>1, <1>6, <2>1, <2>2, <2>3, <2>4, <2>6
  <2> QED BY <2>5, <2>6
<1>8. Moves(t, s)
  <2>1. \A x \in Session, c \in Conn :
          entry'[x] = c => entry[x] = c \/ (Owns(t, c) /\ x = s)
    <3> SUFFICES ASSUME NEW x \in Session, NEW c \in Conn, entry'[x] = c, entry[x] # c
                 PROVE  Owns(t, c) /\ x = s
      OBVIOUS
    <3>1. x \notin V
      BY <1>3
    <3>2. x = s /\ c = cur[t]
      BY <1>3, <3>1
    <3> QED BY <1>2, <3>2
  <2>2. \A c \in Conn :
          Owns(t, c)' => Owns(t, c) \/ (\E x \in Session : entry[x] = c) \/ Fresh(c)
    <3> SUFFICES ASSUME NEW c \in Conn, Owns(t, c)'
                 PROVE  Owns(t, c) \/ \E x \in Session : entry[x] = c
      OBVIOUS
    <3>1. c = entry[s] \/ \E v \in V : c = IF v = s THEN cur[t] ELSE entry[v]
      BY <1>4
    <3>2. c = entry[s] \/ c = cur[t] \/ \E v \in V : c = entry[v]
      BY <3>1
    <3> QED BY <1>1, <1>2, <3>2
  <2> QED BY <1>5, <1>7, <2>1, <2>2 DEF Moves
<1> HIDE DEF TypeInv, Thread, Owns, s
<1> QED BY <1>1, <1>8, MovesKeepOneOwner

(* A step that stores nothing and gives no thread anything keeps one owner    *)
(* each.                                                                      *)
LEMMA FewerOwners ==
  ASSUME OneOwner, entry' = entry,
         \A u \in Thread, c \in Conn : Owns(u, c)' => Owns(u, c)
  PROVE  OneOwner'
  BY DEF OneOwner

(* Nor does opening a connection, or popping entries to close what they held. *)
LEMMA FreshOwner ==
  ASSUME TypeInv, OneOwner, NEW t \in Thread, NEW k \in Conn, Fresh(k),
         entry' = entry,
         \A u \in Thread \ {t}, c \in Conn : Owns(u, c)' => Owns(u, c),
         \A c \in Conn : Owns(t, c)' => c = k \/ Owns(t, c)
  PROVE  OneOwner'
<1>1. \A c \in Conn, x \in Session : Owns(t, c)' => entry'[x] # c
  BY DEF OneOwner, Fresh, Referenced
<1>2. Moves(t, None)
  BY <1>1 DEF Moves
<1> QED BY <1>2, MovesKeepOneOwner

LEMMA PopOwner ==
  ASSUME TypeInv, OneOwner, NEW t \in Thread, NEW S \in SUBSET Session,
         entry' = [s \in Session |-> IF s \in S THEN None ELSE entry[s]],
         \A u \in Thread \ {t}, c \in Conn : Owns(u, c)' => Owns(u, c),
         \A c \in Conn : Owns(t, c)' => \E s \in S : c = entry[s]
  PROVE  OneOwner'
<1>1. \A x \in Session, c \in Conn : entry'[x] = c => entry[x] = c /\ x \notin S
  BY SetAssumption
<1>2. \A c \in Conn, x \in Session : ~ (Owns(t, c)' /\ entry'[x] = c)
  BY <1>1 DEF OneOwner
<1>3. Moves(t, None)
  BY <1>1, <1>2 DEF Moves
<1> QED BY <1>3, MovesKeepOneOwner

(* What a worker starts on keeps one owner each. *)
LEMMA OwnerStart ==
  ASSUME TypeInv, OneOwner, NEW t \in Worker, Start(t)
  PROVE  OneOwner'
<1> USE SetAssumption
    DEF TypeInv, TypeOK, Thread, Owns, LoginStep, At, GoTo, rowVars, cacheVars, connVars,
        threadVars
<1>1. ASSUME NEW s \in Session, LoginConnect(t, s) PROVE OneOwner'
  <2>1. PICK c \in Conn : Fresh(c) /\ cur' = [cur EXCEPT ![t] = c]
    BY <1>1 DEF LoginConnect, Opened
  <2>2. /\ entry' = entry
        /\ pc' = [pc EXCEPT ![t] = "connected"]
        /\ toClose' = toClose
    BY <1>1 DEF LoginConnect
  <2>3. \A u \in Thread \ {t}, d \in Conn : Owns(u, d)' => Owns(u, d)
    BY <2>1, <2>2
  <2>4. \A d \in Conn : Owns(t, d)' => d = c \/ Owns(t, d)
    BY <2>1, <2>2
  <2> QED BY <2>1, <2>2, <2>3, <2>4, FreshOwner
<1>2. ASSUME NEW s \in Session, LogoutEvict(t, s) PROVE OneOwner'
  <2>1. /\ entry' = [entry EXCEPT ![s] = None]
        /\ toClose' = [toClose EXCEPT ![t] = {entry[s]} \ {None}]
        /\ pc' = [pc EXCEPT ![t] = "evicted"]
        /\ cur' = cur
    BY <1>2 DEF LogoutEvict, Pop, Popped
  <2>2. entry' = [x \in Session |-> IF x \in {s} THEN None ELSE entry[x]]
    BY <2>1
  <2>3. \A u \in Thread \ {t}, c \in Conn : Owns(u, c)' => Owns(u, c)
    BY <2>1
  <2>4. \A c \in Conn : Owns(t, c)' => \E x \in {s} : c = entry[x]
    BY <2>1
  <2> HIDE DEF TypeInv, Thread, Owns
  <2> QED BY <2>2, <2>3, <2>4, PopOwner DEF Thread
<1>3. ASSUME NEW s \in Session, Browse(t, s) \/ \E k \in Route : Arrive(t, s, k)
      PROVE  OneOwner'
  BY <1>3, FewerOwners DEF Browse, Arrive
<1> QED BY <1>1, <1>2, <1>3 DEF Start

(* So does a handler that goes on. *)
LEMMA OwnerContinue ==
  ASSUME TypeInv, OneOwner, NEW t \in Worker, Continue(t)
  PROVE  OneOwner'
<1> USE SetAssumption
    DEF TypeInv, TypeOK, LocalOK, Thread, Owns, Owning, LoginStep, RequestStep, Working, Holding,
        At, GoTo, Return, AuthExpired, rowVars, cacheVars, connVars, threadVars
<1>1. CASE LoginCreate(t) \/ LoginFail(t) \/ ReplayFail(t) \/ LogoutDelete(t) \/ Check(t)
  BY <1>1, FewerOwners DEF LoginCreate, LoginFail, ReplayFail, LogoutDelete, Check
<1>2. CASE LoginPut(t)
  <2>1. /\ pc[t] = "signedIn" /\ toClose[t] = {}
        /\ pc' = [pc EXCEPT ![t] = "idle"]
        /\ cur' = [cur EXCEPT ![t] = None]
    BY <1>2 DEF LoginPut
  <2>2. PICK V \in SUBSET Session : Insert(t, sess[t], cur[t], V, TRUE)
    BY <1>2 DEF LoginPut
  <2>3. sess[t] \in Session /\ cur[t] \in Conn /\ pc[t] \in Owning /\ pc'[t] \notin Owning
    BY <2>1
  <2>4. \A u \in Thread \ {t} : pc'[u] = pc[u] /\ cur'[u] = cur[u]
    BY <2>1
  <2> HIDE DEF TypeInv, Thread, Owns, Owning
  <2> QED BY <2>1, <2>2, <2>3, <2>4, InsertMoves
<1>3. CASE InstallMine(t)
  <2>1. PICK V \in SUBSET Session :
          /\ Insert(t, sess[t], cur[t], V, sess[t] \notin V)
          /\ GoTo(t, IF sess[t] \in V THEN "raised" ELSE "enter")
          /\ cur' = [cur EXCEPT ![t] = IF sess[t] \in V THEN None ELSE @]
    BY <1>3 DEF InstallMine
  <2>2. pc[t] = "install" /\ toClose[t] = {}
    BY <1>3 DEF InstallMine
  <2>3. sess[t] \in Session /\ cur[t] \in Conn /\ pc[t] \in Owning /\ pc'[t] \notin Owning
    BY <2>1, <2>2
  <2>4. \A u \in Thread \ {t} : pc'[u] = pc[u] /\ cur'[u] = cur[u]
    BY <2>1
  <2> HIDE DEF TypeInv, Thread, Owns, Owning
  <2> QED BY <2>1, <2>2, <2>3, <2>4, InsertMoves
<1>4. CASE Hit(t)
  BY <1>4, FewerOwners DEF Hit, Stamp
<1>5. CASE Miss(t)
  <2>1. /\ entry' = [entry EXCEPT ![sess[t]] = None]
        /\ toClose' = [toClose EXCEPT ![t] = {entry[sess[t]]} \ {None}]
        /\ sess[t] \in Session
        /\ pc'[t] \in {"build", "check", "idle"}
        /\ \A u \in Thread \ {t} : pc'[u] = pc[u] /\ cur'[u] = cur[u]
    BY <1>5 DEF Miss, Pop, Popped
  <2>2. entry' = [x \in Session |-> IF x \in {sess[t]} THEN None ELSE entry[x]]
    BY <2>1
  <2>3. \A u \in Thread \ {t}, c \in Conn : Owns(u, c)' => Owns(u, c)
    BY <2>1
  <2>4. \A c \in Conn : Owns(t, c)' => \E x \in {sess[t]} : c = entry[x]
    BY <2>1
  <2>5. {sess[t]} \in SUBSET Session
    BY <2>1
  <2> HIDE DEF TypeInv, Thread, Owns
  <2> QED BY <2>2, <2>3, <2>4, <2>5, PopOwner DEF Thread
<1>6. CASE Build(t)
  <2>1. PICK c \in Conn : Fresh(c) /\ cur' = [cur EXCEPT ![t] = c]
    BY <1>6 DEF Build, Opened
  <2>2. /\ entry' = entry
        /\ pc' = [pc EXCEPT ![t] = "install"]
        /\ toClose' = toClose
    BY <1>6 DEF Build
  <2>3. \A u \in Thread \ {t}, d \in Conn : Owns(u, d)' => Owns(u, d)
    BY <2>1, <2>2
  <2>4. \A d \in Conn : Owns(t, d)' => d = c \/ Owns(t, d)
    BY <2>1, <2>2
  <2> HIDE DEF TypeInv, Thread, Owns
  <2> QED BY <2>1, <2>2, <2>3, <2>4, FreshOwner DEF Thread
<1>7. CASE BuildFail(t) \/ Raise(t)
  BY <1>7, FewerOwners DEF BuildFail, Raise
<1>8. CASE InstallTheirs(t)
  <2>1. Owns(t, cur[t]) /\ cur[t] \in Conn
    BY <1>8 DEF InstallTheirs
  <2>2. /\ entry' = entry
        /\ toClose' = [toClose EXCEPT ![t] = {cur[t]}]
        /\ pc' = [pc EXCEPT ![t] = "enter"]
        /\ \A u \in Thread \ {t} : cur'[u] = cur[u]
    BY <1>8 DEF InstallTheirs, Stamp
  <2> QED BY <2>1, <2>2, FewerOwners
<1>9. CASE Enter(t) \/ Leave(t)
  BY <1>9, FewerOwners DEF Enter, Leave
<1>10. CASE Discard(t)
  <2>1. /\ sess[t] \in Session /\ cur[t] \in Conn /\ toClose[t] = {}
        /\ pc'[t] \in {"check", "idle"}
        /\ \A u \in Thread \ {t} : pc'[u] = pc[u] /\ cur'[u] = cur[u]
    BY <1>10 DEF Discard
  <2>2. CASE entry[sess[t]] = cur[t]
    <3>1. /\ entry' = [entry EXCEPT ![sess[t]] = None]
          /\ toClose' = [toClose EXCEPT ![t] = {cur[t]}]
      BY <1>10, <2>2 DEF Discard, Pop
    <3>2. entry' = [x \in Session |-> IF x \in {sess[t]} THEN None ELSE entry[x]]
      BY <3>1
    <3>3. \A u \in Thread \ {t}, c \in Conn : Owns(u, c)' => Owns(u, c)
      BY <2>1, <3>1
    <3>4. \A c \in Conn : Owns(t, c)' => \E x \in {sess[t]} : c = entry[x]
      BY <2>1, <2>2, <3>1
    <3>5. {sess[t]} \in SUBSET Session
      BY <2>1
    <3> HIDE DEF TypeInv, Thread, Owns
    <3> QED BY <3>2, <3>3, <3>4, <3>5, PopOwner DEF Thread
  <2>3. CASE entry[sess[t]] # cur[t]
    BY <1>10, <2>1, <2>3, FewerOwners DEF Discard
  <2> QED BY <2>2, <2>3
<1> QED BY <1>1, <1>2, <1>3, <1>4, <1>5, <1>6, <1>7, <1>8, <1>9, <1>10 DEF Continue

(* Having one owner each is inductive, given the types. *)
LEMMA OwnerStep == TypeInv /\ OneOwner /\ [Next]_vars => OneOwner'
<1> SUFFICES ASSUME TypeInv, OneOwner, [Next]_vars PROVE OneOwner'
  OBVIOUS
<1> USE SetAssumption
    DEF TypeInv, TypeOK, Thread, Owns, At, GoTo, rowVars, cacheVars, connVars, threadVars
<1>1. CASE UNCHANGED vars
  BY <1>1, FewerOwners DEF vars
<1>2. ASSUME NEW t \in Thread, CloseNext(t) PROVE OneOwner'
  BY <1>2, FewerOwners DEF CloseNext
<1>3. CASE Sweep
  <2>1. PICK S \in SUBSET Session :
          /\ entry' = [s \in Session |-> IF s \in S THEN None ELSE entry[s]]
          /\ toClose' = [toClose EXCEPT ![Sweeper] = {entry[s] : s \in S}]
    BY <1>3 DEF Sweep
  <2>2. cur' = cur /\ pc' = [pc EXCEPT ![Sweeper] = "purge"]
    BY <1>3 DEF Sweep
  <2>3. \A u \in Thread \ {Sweeper}, c \in Conn : Owns(u, c)' => Owns(u, c)
    BY <2>1, <2>2
  <2>4. \A c \in Conn : Owns(Sweeper, c)' => \E s \in S : c = entry[s]
    BY <2>1, <2>2 DEF LoginStep
  <2>5. Sweeper \in Thread
    OBVIOUS
  <2> HIDE DEF TypeInv, Thread, Owns
  <2> QED BY <2>1, <2>3, <2>4, <2>5, PopOwner
<1>4. CASE Purge \/ PurgeFail \/ Tick
  BY <1>4, FewerOwners DEF Purge, PurgeFail, Tick, LoginStep
<1>5. ASSUME NEW c \in Conn, ServerDrop(c) PROVE OneOwner'
  BY <1>5, FewerOwners DEF ServerDrop
<1>6. ASSUME NEW s \in Session, ClientDrop(s) PROVE OneOwner'
  BY <1>6, FewerOwners DEF ClientDrop
<1> QED BY <1>1, <1>2, <1>3, <1>4, <1>5, <1>6, OwnerStart, OwnerContinue DEF Next

(* A connection is stored for one session or is in the hands of one thread:   *)
(* no thread can close what is stored, and none is handed out twice.          *)
THEOREM OwnerCorrect == Spec => []OneOwner
<1>1. Init => OneOwner
  BY SetAssumption DEF Init, OneOwner, Owns, LoginStep, Thread
<1> QED BY <1>1, InitType, TypeStep, OwnerStep, PTL DEF Spec

-----------------------------------------------------------------------------
(* Whose credential a request works with. *)

(* OwnCredential, and the same for a sign-in that has not stored its          *)
(* connection yet: what it opened is what it will store.                      *)
CredentialInv ==
  /\ \A s \in Session : Usable(s) => owner[entry[s]] = s
  /\ \A t \in Thread : pc[t] \in Holding /\ IsAlive(cur[t]) => owner[cur[t]] = sess[t]

LEMMA CredentialStart ==
  ASSUME TypeInv, CredentialInv, NEW t \in Worker, Start(t)
  PROVE  CredentialInv'
<1> USE SetAssumption
    DEF TypeInv, TypeOK, LocalOK, Thread, Working, Holding, LoginStep, RequestStep,
        CredentialInv, Usable, IsAlive, At, GoTo, rowVars, cacheVars, connVars, threadVars
<1>1. ASSUME NEW s \in Session, LoginConnect(t, s) PROVE CredentialInv'
  BY <1>1 DEF LoginConnect, Opened, Fresh, Referenced
<1>2. ASSUME NEW s \in Session, LogoutEvict(t, s) PROVE CredentialInv'
  BY <1>2 DEF LogoutEvict, Pop
<1>3. ASSUME NEW s \in Session, Browse(t, s) PROVE CredentialInv'
  BY <1>3 DEF Browse
<1>4. ASSUME NEW s \in Session, NEW k \in Route, Arrive(t, s, k) PROVE CredentialInv'
  BY <1>4 DEF Arrive
<1> QED BY <1>1, <1>2, <1>3, <1>4 DEF Start

(* What an insertion leaves stored opened with the right credential. *)
LEMMA CredentialInsert ==
  ASSUME TypeInv, CredentialInv, NEW t \in Worker, pc[t] \in LoginStep \cup {"install"},
         NEW V \in SUBSET Session, NEW closes \in BOOLEAN,
         Insert(t, sess[t], cur[t], V, closes), connVars' = connVars
  PROVE  \A s \in Session : Usable(s)' => owner'[entry'[s]] = s
  BY SetAssumption
  DEF TypeInv, TypeOK, LocalOK, Thread, Working, Holding, LoginStep, RequestStep,
      CredentialInv, Usable, IsAlive, Insert, connVars

LEMMA CredentialContinue ==
  ASSUME TypeInv, CredentialInv, NEW t \in Worker, Continue(t)
  PROVE  CredentialInv'
<1> USE SetAssumption
    DEF TypeInv, TypeOK, LocalOK, Thread, Working, Holding, LoginStep, RequestStep,
        CredentialInv, Usable, IsAlive, At, GoTo, Return, rowVars, cacheVars, connVars
<1>1. CASE LoginCreate(t) \/ LoginFail(t) \/ ReplayFail(t) \/ LogoutDelete(t) \/ Check(t)
  BY <1>1 DEF LoginCreate, LoginFail, ReplayFail, LogoutDelete, Check
<1>2. CASE LoginPut(t)
  <2>1. \A s \in Session : Usable(s)' => owner'[entry'[s]] = s
    BY <1>2, CredentialInsert DEF LoginPut
  <2>2. /\ conn' = conn /\ owner' = owner
        /\ pc' = [pc EXCEPT ![t] = "idle"]
        /\ cur' = [cur EXCEPT ![t] = None]
        /\ sess' = [sess EXCEPT ![t] = None]
    BY <1>2 DEF LoginPut
  <2> QED BY <2>1, <2>2
<1>3. CASE InstallMine(t)
  <2>1. PICK V \in SUBSET Session :
          /\ Insert(t, sess[t], cur[t], V, sess[t] \notin V)
          /\ GoTo(t, IF sess[t] \in V THEN "raised" ELSE "enter")
          /\ cur' = [cur EXCEPT ![t] = IF sess[t] \in V THEN None ELSE @]
    BY <1>3 DEF InstallMine
  <2>2. conn' = conn /\ owner' = owner /\ sess' = sess /\ pc[t] = "install"
    BY <1>3 DEF InstallMine
  <2>3. \A s \in Session : Usable(s)' => owner'[entry'[s]] = s
    BY <2>1, <2>2, CredentialInsert
  <2>4. \A u \in Thread : pc'[u] \in Holding => pc[u] \in Holding /\ cur'[u] = cur[u]
    BY <2>1, <2>2
  <2> QED BY <2>2, <2>3, <2>4
<1>4. CASE Hit(t) \/ InstallTheirs(t)
  BY <1>4 DEF Hit, InstallTheirs, Stamp
<1>5. CASE Miss(t)
  BY <1>5 DEF Miss, Pop, AuthExpired
<1>6. CASE Build(t)
  BY <1>6 DEF Build, Opened, Fresh, Referenced
<1>7. CASE BuildFail(t) \/ Raise(t)
  BY <1>7 DEF BuildFail, Raise, AuthExpired
<1>8. CASE Enter(t) \/ Leave(t)
  BY <1>8 DEF Enter, Leave
<1>9. CASE Discard(t)
  BY <1>9 DEF Discard, Pop, AuthExpired
<1> QED BY <1>1, <1>2, <1>3, <1>4, <1>5, <1>6, <1>7, <1>8, <1>9 DEF Continue

(* Working with one's own credential is inductive, given the types. *)
LEMMA CredentialStep == TypeInv /\ CredentialInv /\ [Next]_vars => CredentialInv'
<1> SUFFICES ASSUME TypeInv, CredentialInv, [Next]_vars PROVE CredentialInv'
  OBVIOUS
<1> USE SetAssumption
    DEF TypeInv, TypeOK, Thread, Holding, LoginStep,
        CredentialInv, Usable, IsAlive, At, GoTo, rowVars, cacheVars, connVars, threadVars
<1>1. CASE UNCHANGED vars
  BY <1>1 DEF vars
<1>2. ASSUME NEW t \in Thread, CloseNext(t) PROVE CredentialInv'
  BY <1>2 DEF CloseNext, Closed
<1>3. CASE Sweep
  BY <1>3 DEF Sweep
<1>4. CASE Purge \/ PurgeFail \/ Tick
  BY <1>4 DEF Purge, PurgeFail, Tick
<1>5. ASSUME NEW c \in Conn, ServerDrop(c) PROVE CredentialInv'
  BY <1>5 DEF ServerDrop
<1>6. ASSUME NEW s \in Session, ClientDrop(s) PROVE CredentialInv'
  BY <1>6 DEF ClientDrop, Closed
<1> QED BY <1>1, <1>2, <1>3, <1>4, <1>5, <1>6, CredentialStart, CredentialContinue DEF Next

(* A request never works on a connection that another session's credential    *)
(* opened, through rebuilds, replacements and evictions.                      *)
THEOREM CredentialCorrect == Spec => []OwnCredential
<1>1. Init => CredentialInv
  BY SetAssumption DEF Init, CredentialInv, Usable, Holding, LoginStep, Thread
<1>2. CredentialInv => OwnCredential
  BY DEF CredentialInv, OwnCredential, Holding
<1> QED BY <1>1, <1>2, InitType, TypeStep, CredentialStep, PTL DEF Spec
-----------------------------------------------------------------------------
(* How many entries the cache may hold. *)

(* The cap spares an entry whose lock is held.  A lock is held by a worker    *)
(* inside its block, one entry each, and the worker that enforces the cap is  *)
(* not in one: all but one of the workers may have an entry spared.           *)
CacheBound ==
  Cardinality(Cached) <= MaxSize \/ Cardinality(Cached) < Cardinality(Worker)

SweeperOK == pc[Sweeper] \in {"idle", "purge"}

BoundInv == CacheBound /\ SweeperOK

Stored(es) == {s \in Session : es[s] # None}

OneToOne(es) == \A s, x \in Session : es[s] = es[x] /\ es[s] # None => s = x

(* The counting argument: which worker holds the lock of an entry is a one to *)
(* one map from the locked entries to the other workers.                      *)
LEMMA LockedFew ==
  ASSUME TypeInv, LockMatchesUse, SweeperOK, NEW t \in Worker, pc[t] # "query",
         NEW es \in [Session -> Conn \cup {None}], OneToOne(es)
  PROVE  /\ IsFiniteSet(Stored(es) \ FreeIn(es))
         /\ Cardinality(Stored(es) \ FreeIn(es)) < Cardinality(Worker)
<1> DEFINE L == Stored(es) \ FreeIn(es)
           W == Worker \ {t}
           holder == [x \in L |-> lock[es[x]]]
<1>1. ASSUME NEW x \in L
      PROVE  es[x] \in Conn /\ lock[es[x]] \in W /\ cur[lock[es[x]]] = es[x]
  <2>1. x \in Session /\ es[x] \in Conn /\ lock[es[x]] \in Thread
    BY <1>1, SetAssumption DEF Stored, FreeIn, TypeInv, TypeOK
  <2>2. pc[lock[es[x]]] = "query" /\ cur[lock[es[x]]] = es[x]
    BY <2>1 DEF LockMatchesUse
  <2> QED BY <2>1, <2>2 DEF SweeperOK, Thread
<1>2. holder \in [L -> W]
  BY <1>1
<1>3. \A x, y \in L : holder[x] = holder[y] => x = y
  BY <1>1, SetAssumption DEF OneToOne, Stored
<1>4. holder \in Injection(L, W)
  BY <1>2, <1>3 DEF Injection, IsInjective
<1>5. IsFiniteSet(W) /\ Cardinality(W) = Cardinality(Worker) - 1
  BY SetAssumption, FS_RemoveElement
<1>6. IsFiniteSet(L) /\ Cardinality(L) <= Cardinality(W)
  BY <1>4, <1>5, FS_Injection
<1> HIDE DEF L, W, holder
<1>7. Cardinality(L) \in Nat /\ Cardinality(Worker) \in Nat
  BY <1>6, SetAssumption, FS_CardinalityType
<1> QED BY <1>5, <1>6, <1>7 DEF L

(* What an insertion leaves: as many entries as the cap allows, or only       *)
(* entries that other workers have locked.  And it takes the entry it has     *)
(* just made only when those alone fill the cache.                            *)
LEMMA InsertBound ==
  ASSUME TypeInv, LockMatchesUse, SweeperOK, OneOwner, NEW t \in Worker,
         sess[t] \in Session, cur[t] \in Conn, pc[t] \in Owning,
         NEW V \in SUBSET Session, NEW closes \in BOOLEAN,
         Insert(t, sess[t], cur[t], V, closes)
  PROVE  /\ CacheBound'
         /\ sess[t] \in V => MaxSize < Cardinality(Worker)
<1> DEFINE es == [entry EXCEPT ![sess[t]] = cur[t]]
<1>1. es \in [Session -> Conn \cup {None}]
  BY DEF TypeInv, TypeOK
<1>2. OneToOne(es)
  <2>1. Owns(t, cur[t]) /\ t \in Thread
    BY DEF Owns, Owning, Thread
  <2>2. \A x \in Session : entry[x] # cur[t]
    BY <2>1 DEF OneOwner
  <2>3. \A x, y \in Session : entry[x] = entry[y] /\ entry[x] # None => x = y
    BY DEF OneOwner, TypeInv, TypeOK
  <2> QED BY <2>2, <2>3 DEF OneToOne, TypeInv, TypeOK
<1>3. pc[t] # "query"
  BY DEF Owning, LoginStep
<1>4. /\ IsFiniteSet(Stored(es) \ FreeIn(es))
      /\ Cardinality(Stored(es) \ FreeIn(es)) < Cardinality(Worker)
  BY <1>1, <1>2, <1>3, LockedFew
<1>5. /\ V \subseteq FreeIn(es)
      /\ V = {} \/ Left(es, V) >= MaxSize
      /\ V = FreeIn(es) \/ Left(es, V) <= MaxSize
      /\ sess[t] \in V => V = FreeIn(es)
      /\ entry' = [x \in Session |-> IF x \in V THEN None ELSE es[x]]
  BY DEF Insert, CapVictims
<1>6. Cached' = Stored(es) \ V
  BY <1>5 DEF Cached, Stored
<1>7. Left(es, V) = Cardinality(Stored(es) \ V)
  BY DEF Left, Stored
<1>8. Left(es, V) <= MaxSize \/ Left(es, V) < Cardinality(Worker)
  BY <1>4, <1>5, <1>7
<1>9. CacheBound'
  BY <1>6, <1>7, <1>8 DEF CacheBound
<1>10. ASSUME sess[t] \in V PROVE MaxSize < Cardinality(Worker)
  <2>1. Left(es, V) = Cardinality(Stored(es) \ FreeIn(es)) /\ Left(es, V) >= MaxSize
    BY <1>5, <1>7, <1>10
  <2>2. Left(es, V) \in Nat /\ Cardinality(Worker) \in Nat /\ MaxSize \in Nat
    BY <2>1, <1>4, SetAssumption, NumberAssumption, FS_CardinalityType
  <2> QED BY <1>4, <2>1, <2>2
<1> QED BY <1>9, <1>10

(* A step that stores nothing new keeps the bound. *)
LEMMA FewerCached ==
  ASSUME TypeInv, CacheBound, Cached' \subseteq Cached
  PROVE  CacheBound'
<1>1. IsFiniteSet(Cached)
  BY SetAssumption, FS_Subset DEF Cached
<1>2. IsFiniteSet(Cached') /\ Cardinality(Cached') <= Cardinality(Cached)
  BY <1>1, FS_Subset
<1>3. /\ Cardinality(Cached') \in Nat /\ Cardinality(Cached) \in Nat
      /\ Cardinality(Worker) \in Nat /\ MaxSize \in Nat
  BY <1>1, <1>2, SetAssumption, NumberAssumption, FS_CardinalityType
<1> QED BY <1>2, <1>3 DEF CacheBound

(* Only the two insertions can add an entry; no other step takes the cache    *)
(* over the bound.                                                            *)
LEMMA BoundContinue ==
  ASSUME TypeInv, LockMatchesUse, OneOwner, BoundInv, NEW t \in Worker, Continue(t)
  PROVE  CacheBound'
<1> USE SetAssumption DEF At, rowVars, cacheVars, connVars, threadVars
<1>1. CASE LoginPut(t)
  <2>1. PICK V \in SUBSET Session : Insert(t, sess[t], cur[t], V, TRUE)
    BY <1>1 DEF LoginPut
  <2>2. sess[t] \in Session /\ cur[t] \in Conn /\ pc[t] \in Owning
    BY <1>1 DEF LoginPut, TypeInv, LocalOK, Thread, Working, Holding, LoginStep, Owning
  <2> QED BY <2>1, <2>2, InsertBound DEF BoundInv
<1>2. CASE InstallMine(t)
  <2>1. PICK V \in SUBSET Session : Insert(t, sess[t], cur[t], V, sess[t] \notin V)
    BY <1>2 DEF InstallMine
  <2>2. sess[t] \in Session /\ cur[t] \in Conn /\ pc[t] \in Owning
    BY <1>2 DEF InstallMine, TypeInv, LocalOK, Thread, Working, RequestStep, Holding, Owning
  <2> QED BY <2>1, <2>2, InsertBound DEF BoundInv
<1>3. CASE LoginCreate(t) \/ LoginFail(t) \/ ReplayFail(t) \/ LogoutDelete(t) \/ Check(t)
           \/ Build(t) \/ BuildFail(t) \/ Raise(t) \/ Enter(t) \/ Leave(t)
  <2>1. entry' = entry
    BY <1>3 DEF LoginCreate, LoginFail, ReplayFail, LogoutDelete, Check, Build, BuildFail, Raise,
                Enter, Leave
  <2> QED BY <2>1, FewerCached DEF BoundInv, Cached
<1>4. CASE Hit(t) \/ InstallTheirs(t)
  <2>1. entry' = entry
    BY <1>4 DEF Hit, InstallTheirs, Stamp
  <2> QED BY <2>1, FewerCached DEF BoundInv, Cached
<1>5. CASE Miss(t) \/ Discard(t)
  <2>1. \A s \in Session : entry'[s] \in {None, entry[s]}
    BY <1>5 DEF Miss, Discard, Pop, TypeInv, TypeOK
  <2> QED BY <2>1, FewerCached DEF BoundInv, Cached
<1> QED BY <1>1, <1>2, <1>3, <1>4, <1>5 DEF Continue

LEMMA SweeperStep == TypeInv /\ SweeperOK /\ [Next]_vars => SweeperOK'
<1> SUFFICES ASSUME TypeInv, SweeperOK, [Next]_vars PROVE SweeperOK'
  OBVIOUS
<1> USE SetAssumption
    DEF TypeInv, TypeOK, SweeperOK, Thread, At, GoTo, rowVars, cacheVars, connVars, threadVars
<1>1. ASSUME NEW t \in Worker, Start(t) PROVE SweeperOK'
  BY <1>1 DEF Start, LoginConnect, LogoutEvict, Browse, Arrive
<1>2. ASSUME NEW t \in Worker, Continue(t) PROVE SweeperOK'
  <2>1. \E p \in Step : pc' = [pc EXCEPT ![t] = p]
    <3> USE DEF Step, LoginStep, RequestStep, Return
    <3>1. CASE LoginCreate(t) \/ LoginFail(t) \/ ReplayFail(t) \/ LoginPut(t) \/ LogoutDelete(t)
      BY <3>1 DEF LoginCreate, LoginFail, ReplayFail, LoginPut, LogoutDelete
    <3>2. CASE Check(t) \/ Hit(t) \/ Miss(t)
      BY <3>2 DEF Check, Hit, Miss, AuthExpired
    <3>3. CASE Build(t) \/ BuildFail(t) \/ InstallTheirs(t) \/ InstallMine(t) \/ Raise(t)
      BY <3>3 DEF Build, BuildFail, InstallTheirs, InstallMine, Raise, AuthExpired
    <3>4. CASE Enter(t) \/ Leave(t) \/ Discard(t)
      BY <3>4 DEF Enter, Leave, Discard, AuthExpired
    <3> QED BY <1>2, <3>1, <3>2, <3>3, <3>4 DEF Continue
  <2> QED BY <2>1
<1>3. ASSUME NEW t \in Thread, CloseNext(t) PROVE SweeperOK'
  BY <1>3 DEF CloseNext
<1>4. CASE Sweep \/ Purge \/ PurgeFail \/ Tick \/ UNCHANGED vars
  BY <1>4 DEF Sweep, Purge, PurgeFail, Tick, vars
<1>5. ASSUME NEW c \in Conn, ServerDrop(c) PROVE SweeperOK'
  BY <1>5 DEF ServerDrop
<1>6. ASSUME NEW s \in Session, ClientDrop(s) PROVE SweeperOK'
  BY <1>6 DEF ClientDrop
<1> QED BY <1>1, <1>2, <1>3, <1>4, <1>5, <1>6 DEF Next

LEMMA BoundStep ==
  TypeInv /\ LockMatchesUse /\ OneOwner /\ BoundInv /\ [Next]_vars => BoundInv'
<1> SUFFICES ASSUME TypeInv, LockMatchesUse, OneOwner, BoundInv, [Next]_vars PROVE BoundInv'
  OBVIOUS
<1>1. SweeperOK'
  BY SweeperStep DEF BoundInv
<1> USE SetAssumption DEF At, rowVars, cacheVars, connVars, threadVars
<1>2. ASSUME NEW t \in Worker, Start(t) PROVE CacheBound'
  <2>1. \A s \in Session : entry'[s] \in {None, entry[s]}
    BY <1>2 DEF Start, LoginConnect, LogoutEvict, Browse, Arrive, Pop, TypeInv, TypeOK
  <2> QED BY <2>1, FewerCached DEF BoundInv, Cached
<1>3. ASSUME NEW t \in Worker, Continue(t) PROVE CacheBound'
  BY <1>3, BoundContinue
<1>4. ASSUME Sweep PROVE CacheBound'
  <2>1. \A s \in Session : entry'[s] \in {None, entry[s]}
    BY <1>4 DEF Sweep, TypeInv, TypeOK
  <2> QED BY <2>1, FewerCached DEF BoundInv, Cached
<1>5. ASSUME entry' = entry PROVE CacheBound'
  BY <1>5, FewerCached DEF BoundInv, Cached
<1>6. ASSUME \/ \E t \in Thread : CloseNext(t)
             \/ Purge \/ PurgeFail \/ Tick \/ UNCHANGED vars
             \/ \E c \in Conn : ServerDrop(c)
             \/ \E s \in Session : ClientDrop(s)
      PROVE  CacheBound'
  BY <1>5, <1>6 DEF CloseNext, Purge, PurgeFail, Tick, ServerDrop, ClientDrop, vars
<1>7. CacheBound'
  BY <1>2, <1>3, <1>4, <1>6 DEF Next
<1> QED BY <1>1, <1>7 DEF BoundInv

LEMMA BoundInit == Init => BoundInv
<1> SUFFICES ASSUME Init PROVE BoundInv
  OBVIOUS
<1>1. Cached = {}
  BY DEF Init, Cached
<1>2. Cardinality(Cached) <= MaxSize
  BY <1>1, FS_EmptySet, NumberAssumption
<1> QED BY <1>2 DEF Init, BoundInv, CacheBound, SweeperOK, Thread

(* Whatever the number of workers, the cache exceeds its cap only by entries  *)
(* that are in use: it never holds more than max_size entries and more than   *)
(* one for every worker but one.                                              *)
THEOREM BoundCorrect == Spec => []CacheBound
<1>1. Init => LockMatchesUse /\ OneOwner
  BY SetAssumption DEF Init, LockMatchesUse, OneOwner, Owns, LoginStep, Thread
<1>2. BoundInv => CacheBound
  BY DEF BoundInv
<1> QED BY <1>1, <1>2, InitType, BoundInit, TypeStep, LockStep, OwnerStep, BoundStep, PTL DEF Spec

(* With at most one worker more than max_size the cache stays at its cap.     *)
THEOREM CapCorrect == Cardinality(Worker) <= MaxSize + 1 => (Spec => []CapRespected)
<1> SUFFICES ASSUME Cardinality(Worker) <= MaxSize + 1 PROVE Spec => []CapRespected
  OBVIOUS
<1>1. CacheBound => CapRespected
  <2>1. /\ IsFiniteSet(Cached)
        /\ Cardinality(Cached) \in Nat /\ Cardinality(Worker) \in Nat /\ MaxSize \in Nat
    BY SetAssumption, NumberAssumption, FS_Subset, FS_CardinalityType DEF Cached
  <2> QED BY <2>1 DEF CacheBound, CapRespected
<1> QED BY <1>1, BoundCorrect, PTL

-----------------------------------------------------------------------------
(* What too small a cache would break. *)

(* A worker that stores what it built finds it stored: with the locks of the  *)
(* other workers the cache is not full.                                       *)
LEMMA StoredStays ==
  ASSUME TypeInv, LockMatchesUse, OneOwner, BoundInv, Cardinality(Worker) <= MaxSize,
         NEW t \in Worker, pc[t] \in Owning,
         NEW V \in SUBSET Session, NEW closes \in BOOLEAN,
         Insert(t, sess[t], cur[t], V, closes)
  PROVE  sess[t] \notin V
<1>1. sess[t] \in Session /\ cur[t] \in Conn
  BY DEF TypeInv, LocalOK, Thread, Working, Holding, LoginStep, RequestStep, Owning
<1>2. Cardinality(Worker) \in Nat /\ MaxSize \in Nat
  BY SetAssumption, NumberAssumption, FS_CardinalityType
<1>3. sess[t] \in V => MaxSize < Cardinality(Worker)
  BY <1>1, InsertBound DEF BoundInv
<1> QED BY <1>2, <1>3

LEMMA ReturnsStep ==
  ASSUME TypeInv, LockMatchesUse, OneOwner, BoundInv, Cardinality(Worker) <= MaxSize,
         AcquireReturns, [Next]_vars
  PROVE  AcquireReturns'
<1> USE SetAssumption
    DEF TypeOK, AcquireReturns, Thread, At, GoTo, rowVars, cacheVars, connVars, threadVars
<1>1. ASSUME NEW t \in Worker, Start(t) PROVE AcquireReturns'
  BY <1>1 DEF TypeInv, Start, LoginConnect, LogoutEvict, Browse, Arrive
<1>2. ASSUME NEW t \in Worker, Continue(t) PROVE AcquireReturns'
  <2> USE DEF Return
  <2>1. CASE LoginCreate(t) \/ LoginFail(t) \/ ReplayFail(t) \/ LogoutDelete(t)
    BY <2>1 DEF TypeInv, LoginCreate, LoginFail, ReplayFail, LogoutDelete
  <2>2. CASE LoginPut(t)
    <3>1. pc' = [pc EXCEPT ![t] = "idle"]
      BY <2>2 DEF LoginPut
    <3> QED BY <3>1 DEF TypeInv
  <2>3. CASE Check(t) \/ Hit(t) \/ Miss(t)
    BY <2>3 DEF TypeInv, Check, Hit, Miss, AuthExpired
  <2>4. CASE Build(t) \/ BuildFail(t) \/ InstallTheirs(t) \/ Raise(t)
    BY <2>4 DEF TypeInv, Build, BuildFail, InstallTheirs, Raise, AuthExpired
  <2>5. CASE InstallMine(t)
    <3>1. PICK V \in SUBSET Session :
            /\ Insert(t, sess[t], cur[t], V, sess[t] \notin V)
            /\ pc' = [pc EXCEPT ![t] = IF sess[t] \in V THEN "raised" ELSE "enter"]
      BY <2>5 DEF InstallMine
    <3>2. pc[t] \in Owning
      BY <2>5 DEF InstallMine, Owning
    <3>3. sess[t] \notin V
      BY <3>1, <3>2, StoredStays
    <3> QED BY <3>1, <3>3 DEF TypeInv
  <2>6. CASE Enter(t) \/ Leave(t) \/ Discard(t)
    BY <2>6 DEF TypeInv, Enter, Leave, Discard, AuthExpired
  <2> QED BY <1>2, <2>1, <2>2, <2>3, <2>4, <2>5, <2>6 DEF Continue
<1>3. ASSUME NEW t \in Thread, CloseNext(t) PROVE AcquireReturns'
  BY <1>3 DEF CloseNext
<1>4. ASSUME Sweep \/ Purge \/ PurgeFail \/ Tick \/ UNCHANGED vars PROVE AcquireReturns'
  BY <1>4 DEF TypeInv, Sweep, Purge, PurgeFail, Tick, vars
<1>5. ASSUME NEW c \in Conn, ServerDrop(c) PROVE AcquireReturns'
  BY <1>5 DEF ServerDrop
<1>6. ASSUME NEW s \in Session, ClientDrop(s) PROVE AcquireReturns'
  BY <1>6 DEF ClientDrop
<1> QED BY <1>1, <1>2, <1>3, <1>4, <1>5, <1>6 DEF Next

(* With no more workers than max_size, acquire never fails to find the entry  *)
(* it has just stored.                                                        *)
THEOREM AcquireCorrect == Cardinality(Worker) <= MaxSize => (Spec => []AcquireReturns)
<1> SUFFICES ASSUME Cardinality(Worker) <= MaxSize PROVE Spec => []AcquireReturns
  OBVIOUS
<1>1. Init => LockMatchesUse /\ OneOwner /\ AcquireReturns
  BY SetAssumption DEF Init, LockMatchesUse, OneOwner, AcquireReturns, Owns, LoginStep, Thread
<1>2. TypeInv /\ LockMatchesUse /\ OneOwner /\ BoundInv /\ AcquireReturns /\ [Next]_vars
        => AcquireReturns'
  BY ReturnsStep
<1> QED BY <1>1, <1>2, InitType, BoundInit, TypeStep, LockStep, OwnerStep, BoundStep, PTL
        DEF Spec

-----------------------------------------------------------------------------
(* Where an open connection is. *)

Held(c) == (\E s \in Session : entry[s] = c) \/ (\E t \in Thread : Owns(t, c))

(* A step that opens nothing and lets go of nothing leaks nothing. *)
LEMMA HeldStays ==
  ASSUME NoLeak,
         \A c \in Conn : IsAlive(c)' => IsAlive(c),
         \A c \in Conn : IsAlive(c)' /\ Held(c) => Held(c)'
  PROVE  NoLeak'
  BY DEF NoLeak, Held

(* An insertion lets go of nothing that it does not hand to the thread to     *)
(* close, the entry it replaces and the victims of the cap.                   *)
LEMMA InsertHolds ==
  ASSUME TypeInv, NoLeak, connVars' = connVars, NEW t \in Worker,
         sess[t] \in Session, cur[t] \in Conn, pc[t] \in Owning, toClose[t] = {},
         NEW V \in SUBSET Session, Insert(t, sess[t], cur[t], V, TRUE),
         \A u \in Thread \ {t} : pc'[u] = pc[u] /\ cur'[u] = cur[u]
  PROVE  NoLeak'
<1> USE SetAssumption DEF TypeInv, TypeOK, Thread
<1> DEFINE s == sess[t]
           es == [entry EXCEPT ![s] = cur[t]]
<1>1. \A x \in Session : entry'[x] = IF x \in V THEN None ELSE es[x]
  BY DEF Insert
<1>2. toClose' = [toClose EXCEPT ![t] = Popped(s) \cup {es[v] : v \in V}]
  BY DEF Insert
<1>3. ASSUME NEW c \in Conn, Held(c) PROVE Held(c)'
  <2>1. ASSUME NEW x \in Session, es[x] = c PROVE Held(c)'
    <3>1. CASE x \in V
      BY <1>2, <2>1, <3>1 DEF Held, Owns
    <3>2. CASE x \notin V
      BY <1>1, <2>1, <3>2 DEF Held
    <3> QED BY <3>1, <3>2
  <2>2. ASSUME entry[s] = c PROVE Held(c)'
    BY <1>2, <2>2 DEF Held, Owns, Popped
  <2>3. ASSUME NEW x \in Session, entry[x] = c, x # s PROVE Held(c)'
    BY <2>1, <2>3
  <2>4. ASSUME Owns(t, c) PROVE Held(c)'
    <3>1. c = cur[t]
      BY <2>4 DEF Owns
    <3>2. es[s] = c
      BY <3>1
    <3> QED BY <2>1, <3>2
  <2>5. ASSUME NEW u \in Thread \ {t}, Owns(u, c) PROVE Held(c)'
    BY <1>2, <2>5 DEF Held, Owns
  <2> QED BY <1>3, <2>2, <2>3, <2>4, <2>5 DEF Held
<1> QED BY <1>3, HeldStays DEF connVars, IsAlive

(* A step that leaves the connections and the table alone keeps what a thread *)
(* has, unless it takes it from that thread.                                  *)
LEMMA OwnersKeep ==
  ASSUME NoLeak, connVars' = connVars, entry' = entry,
         \A u \in Thread, c \in Conn : Owns(u, c) => Owns(u, c)'
  PROVE  NoLeak'
  BY HeldStays DEF Held, connVars, IsAlive

(* A connection just opened is in the hands of the thread that opened it.     *)
LEMMA OpenedHeld ==
  ASSUME TypeInv, NoLeak, NEW t \in Thread, NEW k \in Conn, NEW s, Opened(k, s), entry' = entry,
         Owns(t, k)',
         \A u \in Thread, c \in Conn : Owns(u, c) => Owns(u, c)'
  PROVE  NoLeak'
<1> SUFFICES ASSUME NEW c \in Conn, IsAlive(c)' PROVE Held(c)'
  BY DEF NoLeak, Held
<1>1. CASE c = k
  BY <1>1 DEF Held
<1>2. CASE c # k
  BY <1>2 DEF NoLeak, Held, IsAlive, Opened, TypeInv, TypeOK
<1> QED BY <1>1, <1>2

(* Entries go out of the table into the hands of the thread that popped them. *)
LEMMA PoppedHeld ==
  ASSUME TypeInv, NoLeak, connVars' = connVars, NEW t \in Thread, NEW S \in SUBSET Session,
         entry' = [x \in Session |-> IF x \in S THEN None ELSE entry[x]],
         toClose[t] = {} , pc[t] \notin Owning,
         \A x \in S : entry[x] # None => entry[x] \in toClose'[t],
         \A u \in Thread \ {t} : toClose'[u] = toClose[u] /\ pc'[u] = pc[u] /\ cur'[u] = cur[u]
  PROVE  NoLeak'
<1>1. ASSUME NEW c \in Conn, Held(c) PROVE Held(c)'
  <2>1. ASSUME NEW x \in Session, entry[x] = c, x \in S PROVE Held(c)'
    <3>1. c \in toClose'[t]
      BY <2>1, SetAssumption
    <3> QED BY <3>1 DEF Held, Owns
  <2>2. ASSUME NEW x \in Session, entry[x] = c, x \notin S PROVE Held(c)'
    BY <2>2 DEF Held
  <2>3. ASSUME NEW u \in Thread, Owns(u, c) PROVE Held(c)'
    <3>1. u # t
      BY <2>3 DEF Owns, Owning
    <3> QED BY <2>3, <3>1 DEF Held, Owns
  <2> QED BY <1>1, <2>1, <2>2, <2>3 DEF Held
<1> QED BY <1>1, HeldStays DEF connVars, IsAlive

LEMMA HeldStart ==
  ASSUME TypeInv, NoLeak, NEW t \in Worker, Start(t)
  PROVE  NoLeak'
<1> USE SetAssumption DEF Thread, At, GoTo, rowVars, cacheVars, threadVars
<1>1. ASSUME NEW s \in Session, LoginConnect(t, s) PROVE NoLeak'
  <2>1. PICK k \in Conn : Opened(k, s) /\ cur' = [cur EXCEPT ![t] = k]
    BY <1>1 DEF LoginConnect
  <2>2. /\ entry' = entry /\ toClose' = toClose
        /\ pc[t] = "idle" /\ pc' = [pc EXCEPT ![t] = "connected"]
    BY <1>1 DEF LoginConnect
  <2>3. \A u \in Thread, c \in Conn : Owns(u, c) => Owns(u, c)'
    BY <2>1, <2>2 DEF Owns, LoginStep, TypeInv, TypeOK
  <2>4. Owns(t, k)'
    BY <2>1, <2>2 DEF Owns, LoginStep, TypeInv, TypeOK
  <2> QED BY <2>1, <2>2, <2>3, <2>4, OpenedHeld
<1>2. ASSUME NEW s \in Session, LogoutEvict(t, s) PROVE NoLeak'
  <2>1. /\ entry' = [entry EXCEPT ![s] = None]
        /\ toClose[t] = {} /\ toClose' = [toClose EXCEPT ![t] = {entry[s]} \ {None}]
        /\ pc[t] = "idle" /\ pc' = [pc EXCEPT ![t] = "evicted"]
        /\ cur' = cur /\ connVars' = connVars
    BY <1>2 DEF LogoutEvict, Pop, Popped
  <2>2. entry' = [x \in Session |-> IF x \in {s} THEN None ELSE entry[x]]
    BY <2>1 DEF TypeInv, TypeOK
  <2>3. \A x \in {s} : entry[x] # None => entry[x] \in toClose'[t]
    BY <2>1 DEF TypeInv, TypeOK
  <2>4. \A u \in Thread \ {t} : toClose'[u] = toClose[u] /\ pc'[u] = pc[u] /\ cur'[u] = cur[u]
    BY <2>1 DEF TypeInv, TypeOK
  <2>5. pc[t] \notin Owning
    BY <2>1 DEF Owning, LoginStep
  <2> HIDE DEF Thread
  <2>6. {s} \in SUBSET Session
    OBVIOUS
  <2> QED BY <2>1, <2>2, <2>3, <2>4, <2>5, <2>6, PoppedHeld DEF Thread
<1>3. ASSUME NEW s \in Session, Browse(t, s) \/ \E k \in Route : Arrive(t, s, k)
      PROVE  NoLeak'
  <2>1. /\ entry' = entry /\ connVars' = connVars /\ toClose' = toClose /\ cur' = cur
        /\ pc' = pc \/ (pc[t] = "idle" /\ pc' = [pc EXCEPT ![t] = "check"])
    BY <1>3 DEF Browse, Arrive, connVars
  <2>2. \A u \in Thread, c \in Conn : Owns(u, c) => Owns(u, c)'
    BY <2>1 DEF Owns, LoginStep, TypeInv, TypeOK
  <2> QED BY <2>1, <2>2, OwnersKeep
<1> HIDE DEF At, GoTo, rowVars, cacheVars, threadVars
<1> QED BY <1>1, <1>2, <1>3 DEF Start

LEMMA HeldContinue ==
  ASSUME TypeInv, LockMatchesUse, OneOwner, BoundInv, Cardinality(Worker) <= MaxSize,
         CommitFails = FALSE, NoLeak, NEW t \in Worker, Continue(t)
  PROVE  NoLeak'
<1> USE SetAssumption DEF Thread, At, GoTo, rowVars, cacheVars, threadVars
<1>1. CASE LoginCreate(t)
  <2>1. /\ entry' = entry /\ connVars' = connVars /\ toClose' = toClose /\ cur' = cur
        /\ pc' = [pc EXCEPT ![t] = "signedIn"]
    BY <1>1 DEF LoginCreate
  <2>2. \A u \in Thread, c \in Conn : Owns(u, c) => Owns(u, c)'
    BY <2>1 DEF Owns, LoginStep, TypeInv, TypeOK
  <2> QED BY <2>1, <2>2, OwnersKeep
<1>2. CASE LoginFail(t)
  <2>1. /\ entry' = entry /\ connVars' = connVars
        /\ toClose[t] = {} /\ toClose' = [toClose EXCEPT ![t] = {cur[t]}]
        /\ \A u \in Thread \ {t} : pc'[u] = pc[u] /\ cur'[u] = cur[u]
    BY <1>2 DEF LoginFail, Return, TypeInv, TypeOK
  <2>2. \A u \in Thread, c \in Conn : Owns(u, c) => Owns(u, c)'
    BY <2>1 DEF Owns, TypeInv, TypeOK
  <2> QED BY <2>1, <2>2, OwnersKeep
<1>3. CASE ReplayFail(t)
  BY <1>3 DEF ReplayFail
<1>4. CASE LoginPut(t)
  <2>1. /\ pc[t] = "signedIn" /\ toClose[t] = {} /\ connVars' = connVars
        /\ \A u \in Thread \ {t} : pc'[u] = pc[u] /\ cur'[u] = cur[u]
    BY <1>4 DEF LoginPut, Return, TypeInv, TypeOK
  <2>2. PICK V \in SUBSET Session : Insert(t, sess[t], cur[t], V, TRUE)
    BY <1>4 DEF LoginPut
  <2>3. sess[t] \in Session /\ cur[t] \in Conn /\ pc[t] \in Owning
    BY <2>1 DEF TypeInv, LocalOK, Working, Holding, LoginStep, Owning
  <2> HIDE DEF Thread
  <2> QED BY <2>1, <2>2, <2>3, InsertHolds
<1>5. CASE LogoutDelete(t) \/ Check(t) \/ BuildFail(t) \/ Raise(t)
  <2>1. /\ entry' = entry /\ connVars' = connVars /\ toClose' = toClose
        /\ pc[t] \in {"evicted", "check", "build", "raised"}
        /\ \A u \in Thread \ {t} : pc'[u] = pc[u] /\ cur'[u] = cur[u]
    BY <1>5 DEF LogoutDelete, Check, BuildFail, Raise, Return, AuthExpired, TypeInv, TypeOK
  <2>2. \A u \in Thread, c \in Conn : Owns(u, c) => Owns(u, c)'
    BY <2>1 DEF Owns, LoginStep
  <2> QED BY <2>1, <2>2, OwnersKeep
<1>6. CASE Hit(t)
  <2>1. /\ entry' = entry /\ connVars' = connVars /\ toClose' = toClose
        /\ pc[t] = "lookup"
        /\ \A u \in Thread \ {t} : pc'[u] = pc[u] /\ cur'[u] = cur[u]
    BY <1>6 DEF Hit, Stamp, TypeInv, TypeOK
  <2>2. \A u \in Thread, c \in Conn : Owns(u, c) => Owns(u, c)'
    BY <2>1 DEF Owns, LoginStep
  <2> QED BY <2>1, <2>2, OwnersKeep
<1>7. CASE Miss(t)
  <2>1. /\ entry' = [entry EXCEPT ![sess[t]] = None]
        /\ toClose[t] = {} /\ toClose' = [toClose EXCEPT ![t] = {entry[sess[t]]} \ {None}]
        /\ sess[t] \in Session /\ pc[t] = "lookup" /\ connVars' = connVars
        /\ \A u \in Thread \ {t} : pc'[u] = pc[u] /\ cur'[u] = cur[u]
    BY <1>7 DEF Miss, Pop, Popped, AuthExpired, Return, TypeInv, TypeOK, LocalOK, Working, RequestStep
  <2>2. entry' = [x \in Session |-> IF x \in {sess[t]} THEN None ELSE entry[x]]
    BY <2>1 DEF TypeInv, TypeOK
  <2>3. \A x \in {sess[t]} : entry[x] # None => entry[x] \in toClose'[t]
    BY <2>1 DEF TypeInv, TypeOK
  <2>4. \A u \in Thread \ {t} : toClose'[u] = toClose[u] /\ pc'[u] = pc[u] /\ cur'[u] = cur[u]
    BY <2>1 DEF TypeInv, TypeOK
  <2>5. pc[t] \notin Owning /\ {sess[t]} \in SUBSET Session
    BY <2>1 DEF Owning, LoginStep
  <2> HIDE DEF Thread
  <2> QED BY <2>1, <2>2, <2>3, <2>4, <2>5, PoppedHeld DEF Thread
<1>8. CASE Build(t)
  <2>1. PICK k \in Conn : Opened(k, sess[t]) /\ cur' = [cur EXCEPT ![t] = k]
    BY <1>8 DEF Build
  <2>2. /\ entry' = entry /\ toClose' = toClose
        /\ pc[t] = "build" /\ pc' = [pc EXCEPT ![t] = "install"]
    BY <1>8 DEF Build
  <2>3. \A u \in Thread, c \in Conn : Owns(u, c) => Owns(u, c)'
    BY <2>1, <2>2 DEF Owns, LoginStep, TypeInv, TypeOK
  <2>4. Owns(t, k)'
    BY <2>1, <2>2 DEF Owns, LoginStep, TypeInv, TypeOK
  <2> QED BY <2>1, <2>2, <2>3, <2>4, OpenedHeld
<1>9. CASE InstallTheirs(t)
  <2>1. /\ entry' = entry /\ connVars' = connVars
        /\ toClose[t] = {} /\ toClose' = [toClose EXCEPT ![t] = {cur[t]}]
        /\ \A u \in Thread \ {t} : pc'[u] = pc[u] /\ cur'[u] = cur[u]
    BY <1>9 DEF InstallTheirs, Stamp, TypeInv, TypeOK
  <2>2. \A u \in Thread, c \in Conn : Owns(u, c) => Owns(u, c)'
    BY <2>1 DEF Owns, TypeInv, TypeOK
  <2> QED BY <2>1, <2>2, OwnersKeep
<1>10. CASE InstallMine(t)
  <2>1. PICK V \in SUBSET Session :
          /\ Insert(t, sess[t], cur[t], V, sess[t] \notin V)
          /\ GoTo(t, IF sess[t] \in V THEN "raised" ELSE "enter")
          /\ cur' = [cur EXCEPT ![t] = IF sess[t] \in V THEN None ELSE @]
    BY <1>10 DEF InstallMine
  <2>2. pc[t] = "install" /\ toClose[t] = {} /\ connVars' = connVars
    BY <1>10 DEF InstallMine
  <2>3. sess[t] \in Session /\ cur[t] \in Conn /\ pc[t] \in Owning
    BY <2>2 DEF TypeInv, LocalOK, Working, Holding, RequestStep, Owning
  <2>4. sess[t] \notin V
    BY <2>1, <2>3, StoredStays
  <2>5. \A u \in Thread \ {t} : pc'[u] = pc[u] /\ cur'[u] = cur[u]
    BY <2>1 DEF TypeInv, TypeOK
  <2>6. Insert(t, sess[t], cur[t], V, TRUE)
    BY <2>1, <2>4
  <2> HIDE DEF Thread, GoTo
  <2> QED BY <2>2, <2>3, <2>5, <2>6, InsertHolds
<1>11. CASE Enter(t) \/ Leave(t)
  <2>1. /\ entry' = entry /\ connVars' = connVars /\ toClose' = toClose
        /\ pc[t] \in {"enter", "query"}
        /\ \A u \in Thread \ {t} : pc'[u] = pc[u] /\ cur'[u] = cur[u]
    BY <1>11 DEF Enter, Leave, Return, TypeInv, TypeOK
  <2>2. \A u \in Thread, c \in Conn : Owns(u, c) => Owns(u, c)'
    BY <2>1 DEF Owns, LoginStep
  <2> QED BY <2>1, <2>2, OwnersKeep
<1>12. CASE Discard(t)
  <2>1. /\ sess[t] \in Session /\ pc[t] = "discard" /\ toClose[t] = {} /\ connVars' = connVars
        /\ \A u \in Thread \ {t} : pc'[u] = pc[u] /\ cur'[u] = cur[u]
    BY <1>12 DEF Discard, AuthExpired, Return, TypeInv, TypeOK, LocalOK, Working, RequestStep
  <2>2. pc[t] \notin Owning /\ {sess[t]} \in SUBSET Session
    BY <2>1 DEF Owning, LoginStep
  <2>3. CASE entry[sess[t]] = cur[t]
    <3>1. /\ entry' = [entry EXCEPT ![sess[t]] = None]
          /\ toClose' = [toClose EXCEPT ![t] = {cur[t]}]
      BY <1>12, <2>3 DEF Discard, Pop
    <3>2. entry' = [x \in Session |-> IF x \in {sess[t]} THEN None ELSE entry[x]]
      BY <3>1 DEF TypeInv, TypeOK
    <3>3. \A x \in {sess[t]} : entry[x] # None => entry[x] \in toClose'[t]
      BY <2>3, <3>1 DEF TypeInv, TypeOK
    <3>4. \A u \in Thread \ {t} : toClose'[u] = toClose[u]
      BY <3>1 DEF TypeInv, TypeOK
    <3>5. \A u \in Thread \ {t} : toClose'[u] = toClose[u] /\ pc'[u] = pc[u] /\ cur'[u] = cur[u]
      BY <2>1, <3>4
    <3> HIDE DEF Thread
    <3> QED BY <2>1, <2>2, <3>2, <3>3, <3>5, PoppedHeld DEF Thread
  <2>4. CASE entry[sess[t]] # cur[t]
    <3>1. entry' = entry /\ toClose' = toClose
      BY <1>12, <2>4 DEF Discard
    <3>2. \A u \in Thread, c \in Conn : Owns(u, c) => Owns(u, c)'
      BY <2>1, <2>2, <3>1 DEF Owns, Owning
    <3> QED BY <2>1, <3>1, <3>2, OwnersKeep
  <2> QED BY <2>3, <2>4
<1> HIDE DEF Thread, At, GoTo, rowVars, cacheVars, threadVars
<1> QED BY <1>1, <1>2, <1>3, <1>4, <1>5, <1>6, <1>7, <1>8, <1>9, <1>10, <1>11, <1>12 DEF Continue

(* With no more workers than max_size and no failing commit, no step loses an *)
(* open connection.                                                           *)
LEMMA LeakStep ==
  ASSUME TypeInv, LockMatchesUse, OneOwner, BoundInv, Cardinality(Worker) <= MaxSize,
         CommitFails = FALSE, NoLeak, [Next]_vars
  PROVE  NoLeak'
<1> USE SetAssumption DEF At, GoTo, rowVars, cacheVars, threadVars
<1>1. ASSUME NEW t \in Worker, Start(t) PROVE NoLeak'
  BY <1>1, HeldStart
<1>2. ASSUME NEW t \in Worker, Continue(t) PROVE NoLeak'
  BY <1>2, HeldContinue
<1>3. ASSUME NEW t \in Thread, CloseNext(t) PROVE NoLeak'
  <2>1. PICK k \in toClose[t] :
          /\ conn' = [conn EXCEPT ![k] = "closed"]
          /\ toClose' = [toClose EXCEPT ![t] = @ \ {k}]
    BY <1>3 DEF CloseNext, Closed
  <2>2. entry' = entry /\ pc' = pc /\ cur' = cur
    BY <1>3 DEF CloseNext
  <2>3. k \in Conn
    BY DEF TypeInv, TypeOK
  <2>4. \A c \in Conn : IsAlive(c)' => IsAlive(c) /\ c # k
    BY <2>1, <2>3 DEF IsAlive, TypeInv, TypeOK
  <2>5. \A c \in Conn : c # k /\ Held(c) => Held(c)'
    BY <2>1, <2>2 DEF Held, Owns, TypeInv, TypeOK
  <2> QED BY <2>4, <2>5, HeldStays
<1>4. CASE Sweep
  <2>1. PICK S \in SUBSET Session :
          /\ entry' = [s \in Session |-> IF s \in S THEN None ELSE entry[s]]
          /\ toClose' = [toClose EXCEPT ![Sweeper] = {entry[s] : s \in S}]
    BY <1>4 DEF Sweep
  <2>2. /\ connVars' = connVars /\ cur' = cur
        /\ toClose[Sweeper] = {} /\ pc[Sweeper] = "idle"
        /\ pc' = [pc EXCEPT ![Sweeper] = "purge"]
    BY <1>4 DEF Sweep
  <2>3. \A x \in S : entry[x] # None => entry[x] \in toClose'[Sweeper]
    BY <2>1 DEF TypeInv, TypeOK, Thread
  <2>4. \A u \in Thread \ {Sweeper} : toClose'[u] = toClose[u] /\ pc'[u] = pc[u] /\ cur'[u] = cur[u]
    BY <2>1, <2>2 DEF TypeInv, TypeOK
  <2>5. pc[Sweeper] \notin Owning /\ Sweeper \in Thread
    BY <2>2 DEF Owning, LoginStep, Thread
  <2>6. entry' = [s \in Session |-> IF s \in S THEN None ELSE entry[s]]
    BY <2>1
  <2> QED BY <2>2, <2>3, <2>4, <2>5, <2>6, PoppedHeld
<1>5. CASE Purge \/ PurgeFail \/ Tick \/ UNCHANGED vars
  <2>1. /\ entry' = entry /\ connVars' = connVars /\ toClose' = toClose /\ cur' = cur
        /\ pc' = pc \/ (pc[Sweeper] = "purge" /\ pc' = [pc EXCEPT ![Sweeper] = "idle"])
    BY <1>5 DEF Purge, PurgeFail, Tick, vars, connVars
  <2>2. \A u \in Thread, c \in Conn : Owns(u, c) => Owns(u, c)'
    BY <2>1 DEF Owns, LoginStep, TypeInv, TypeOK
  <2> QED BY <2>1, <2>2, OwnersKeep
<1>6. ASSUME NEW k \in Conn, ServerDrop(k) PROVE NoLeak'
  <2>1. \A c \in Conn : IsAlive(c)' => IsAlive(c)
    BY <1>6 DEF ServerDrop, IsAlive, TypeInv, TypeOK
  <2>2. \A c \in Conn : Held(c) => Held(c)'
    BY <1>6 DEF ServerDrop, Held, Owns
  <2> QED BY <2>1, <2>2, HeldStays
<1>7. ASSUME NEW s \in Session, ClientDrop(s) PROVE NoLeak'
  <2>1. \A c \in Conn : IsAlive(c)' => IsAlive(c)
    BY <1>7 DEF ClientDrop, Usable, Closed, IsAlive, TypeInv, TypeOK
  <2>2. \A c \in Conn : Held(c) => Held(c)'
    BY <1>7 DEF ClientDrop, Held, Owns
  <2> QED BY <2>1, <2>2, HeldStays
<1> HIDE DEF At, GoTo, rowVars, cacheVars, threadVars
<1> QED BY <1>1, <1>2, <1>3, <1>4, <1>5, <1>6, <1>7 DEF Next

(* With no more workers than max_size, and unless the database fails in the   *)
(* middle of a sign-in, an open connection is always in the cache or in the   *)
(* hands of a thread that will store or close it.                             *)
THEOREM LeakCorrect ==
  Cardinality(Worker) <= MaxSize /\ CommitFails = FALSE => (Spec => []NoLeak)
<1> SUFFICES ASSUME Cardinality(Worker) <= MaxSize, CommitFails = FALSE
             PROVE  Spec => []NoLeak
  OBVIOUS
<1>1. Init => LockMatchesUse /\ OneOwner /\ NoLeak
  BY SetAssumption
  DEF Init, LockMatchesUse, OneOwner, NoLeak, IsAlive, Owns, LoginStep, Thread
<1>2. TypeInv /\ LockMatchesUse /\ OneOwner /\ BoundInv /\ NoLeak /\ [Next]_vars => NoLeak'
  BY LeakStep
<1> QED BY <1>1, <1>2, InitType, BoundInit, TypeStep, LockStep, OwnerStep, BoundStep, PTL
        DEF Spec
=============================================================================
