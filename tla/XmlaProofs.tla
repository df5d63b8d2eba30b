-------------------------------- MODULE XmlaProofs --------------------------------
(***************************************************************************)
(* Proofs about the XMLA service.  First about module Access, for any      *)
(* number of sessions, tokens and threads and any limits: its types,       *)
(* TablesAgree, StoreBounded, BudgetHolds, CountedOnce,                    *)
(* RejectionsDeserved and UsedIsKept.  Then about module Pivot, for any    *)
(* tables and any statements, but for the exceptions that each property    *)
(* names: MemberSelectsItself, CellsAreRight and DrillStateTold.           *)
(***************************************************************************)
EXTENDS Access, PivotTerms, FiniteSetTheorems, SequenceTheorems, TLAPS

(* A row that is gone has no token, and a token is on its owner's row only.  *)
RowsSound ==
  \A s \in Session :
    /\ s \notin live => hash[s] = None
    /\ hash[s] # None => owner[hash[s]] = s

(* No row lets this password in, now or later. *)
Dead(k) == \A s \in Session : hash[s] = k => TokenExpired(s)

(* What a request has in hand at each step. *)
StepSound(q) ==
  /\ q.at \in {"visit", "drop", "touch", "write"} => q.s \in Session
  /\ q.at = "resolve" => q.op \in {"feed", "open"} /\ q.s = None
  /\ q.at = "write" => q.op = "mint"
  /\ q.at = "refused" => q.op \in {"feed", "open"}
  /\ q.op \in {"feed", "open"} => q.k \in Token
  /\ q.op = "mint" => q.k = None

(* The session it has come to is the one its password was minted for; it has *)
(* been rejected because of a dead password; and the row it is about to drop *)
(* is expired, unless it has been raced.                                     *)
SessionSound(q) ==
  /\ q.k # None /\ q.s # None => owner[q.k] = q.s
  /\ q.at \in {"refused", "fault"} /\ q.k # None => Dead(q.k)
  /\ q.at = "drop" /\ ~ q.raced /\ q.s \in live => Expired(q.s)

(* Only the event loop is concerned with XMLA sessions, and while it opens   *)
(* one its token has none and the store is within its bound.                 *)
StoreSound(t, q) ==
  /\ q.op \in {"open", "xmla"} => t = Loop
  /\ q.op = "open" => byDigest[q.k] = None /\ Cardinality(Open) <= MaxSessions

StepsSound == \A t \in Thread : req[t] # None => StepSound(req[t])
SessionsSound == \A t \in Thread : req[t] # None => SessionSound(req[t])
StoresSound == \A t \in Thread : req[t] # None => StoreSound(t, req[t])

(* The older a failure, the further left; a failure counted once is as old   *)
(* as its fingerprint.                                                       *)
HitsSound ==
  /\ \A i, j \in DOMAIN hits : i < j => hits[i].age >= hits[j].age
  /\ \A i \in DOMAIN hits : hits[i].by # None => counted[hits[i].by] = hits[i].age

(* Requests that are past `allowed` and may yet fail. *)
PastGate == {t \in Thread : req[t] # None /\ req[t].op \in {"feed", "open"}}

BudgetKept == Len(hits) + Cardinality(PastGate) < Limit + Cardinality(Thread)

IInv ==
  /\ TypeOK /\ RowsSound
  /\ StepsSound /\ SessionsSound /\ StoresSound
  /\ TablesAgree /\ StoreBounded
  /\ HitsSound /\ CountedOnce /\ BudgetKept

-----------------------------------------------------------------------------
(* The invariant holds at the start. *)
LEMMA InitInv == Init => IInv
<1> SUFFICES ASSUME Init PROVE IInv
  OBVIOUS
<1> USE DEF Init
<1>1. TypeOK
  BY NumberAssumption DEF TypeOK, Age
<1>2. RowsSound /\ StepsSound /\ SessionsSound /\ StoresSound
  BY SetAssumption DEF RowsSound, StepsSound, SessionsSound, StoresSound
<1>3. TablesAgree /\ StoreBounded
  <2>1. Open = {}
    BY DEF Open
  <2> QED BY <2>1, FS_EmptySet, NumberAssumption DEF TablesAgree, StoreBounded
<1>4. HitsSound /\ CountedOnce
  BY DEF HitsSound, CountedOnce
<1>5. BudgetKept
  <2>1. PastGate = {}
    BY DEF PastGate
  <2>2. IsFiniteSet(Thread)
    BY SetAssumption, FS_AddElement DEF Thread
  <2>3. Cardinality(Thread) \in Nat /\ Cardinality(PastGate) = 0
    BY <2>1, <2>2, FS_CardinalityType, FS_EmptySet
  <2>4. Thread # {}
    BY DEF Thread
  <2> QED BY <2>2, <2>3, NumberAssumption DEF BudgetKept
<1> QED BY <1>1, <1>2, <1>3, <1>4, <1>5 DEF IInv

-----------------------------------------------------------------------------
(* The types. *)

(* What time does to the window keeps it a sequence of failures.             *)
LEMMA HitsAgeType ==
  ASSUME TypeOK, HitsSound, HitsAge
  PROVE  hits' \in Seq(Hit)
<1> USE NumberAssumption
<1>0. hits \in Seq(Hit)
  BY DEF TypeOK
<1>1. PICK n \in 0..Len(hits) :
        /\ n < Len(hits) => hits[n + 1].age < Window
        /\ hits' = [i \in 1..(Len(hits) - n) |-> [hits[i + n] EXCEPT !.age = @ + 1]]
  BY DEF HitsAge
<1>2. \A i \in DOMAIN hits : hits[i] \in Hit
  BY <1>0, ElementOfSeq
<1>a. DOMAIN hits = 1..Len(hits) /\ Len(hits) \in Nat
  BY <1>0
<1>3. ASSUME NEW i \in 1..(Len(hits) - n)
      PROVE  [hits[i + n] EXCEPT !.age = @ + 1] \in Hit
  <2>1. i + n \in DOMAIN hits /\ n + 1 \in DOMAIN hits
    BY <1>a
  <2>2. hits[i + n].age <= hits[n + 1].age
    <3>0. hits[i + n].age \in 0..Window
      BY <1>2, <2>1 DEF Hit
    <3>1. CASE i = 1
      BY <3>0, <3>1
    <3>2. CASE i > 1
      <4>1. n + 1 < i + n
        BY <3>2
      <4> QED BY <2>1, <4>1 DEF HitsSound
    <3> QED BY <3>1, <3>2
  <2>3. hits[i + n].age + 1 \in 0..Window
    <3>1. hits[i + n].age \in 0..Window /\ hits[n + 1].age \in 0..Window
      BY <1>2, <2>1 DEF Hit
    <3>2. n < Len(hits) /\ hits[n + 1].age < Window
      BY <1>1, <1>a
    <3> DEFINE a == hits[i + n].age
               b == hits[n + 1].age
    <3>3. a \in 0..Window /\ b \in 0..Window /\ a <= b /\ b < Window
      BY <2>2, <3>1, <3>2
    <3> HIDE DEF a, b
    <3>4. a + 1 \in 0..Window
      BY <3>3
    <3> QED BY <3>4 DEF a
  <2> QED BY <1>2, <2>1, <2>3 DEF Hit
<1>4. Len(hits) - n \in Nat
  BY <1>a
<1>5. hits' \in [1..(Len(hits) - n) -> Hit]
  BY <1>1, <1>3
<1> QED BY <1>4, <1>5, SeqDef

ReqOK == req \in [Thread -> Request \cup {None}]
Place == {"resolve", "visit", "drop", "touch", "write", "refused", "fault"}

(* The updates of what threads are doing. *)
LEMMA DoneType ==
  ASSUME ReqOK, NEW t \in Thread, Done(t)
  PROVE  ReqOK'
BY DEF Done, ReqOK

(* GoTo moves a request to another step. *)
LEMMA GoToType ==
  ASSUME ReqOK, NEW t \in Thread, req[t] # None, NEW p \in Place, GoTo(t, p)
  PROVE  ReqOK'
<1>1. [req[t] EXCEPT !.at = p] \in Request
  BY DEF Request, ReqOK, Place
<1> QED BY <1>1 DEF GoTo, ReqOK

(* Begin starts one. *)
LEMMA BeginType ==
  ASSUME ReqOK, NEW t \in Thread, NEW op \in {"mint", "feed", "open", "xmla"}, NEW p \in Place,
         NEW k \in Token \cup {None}, NEW s \in Session \cup {None}, Begin(t, op, p, k, s)
  PROVE  ReqOK'
<1>1. [op |-> op, at |-> p, k |-> k, s |-> s, raced |-> FALSE] \in Request
  BY DEF Request, Place
<1> QED BY <1>1 DEF Begin, ReqOK

(* Touched moves one, and may mark others as raced. *)
LEMMA TouchedType ==
  ASSUME ReqOK, NEW t \in Thread, NEW q \in Request \cup {None}, Touched(t, q)
  PROVE  ReqOK'
<1>1. ASSUME NEW u \in Thread, At(u, "drop")
      PROVE  [req[u] EXCEPT !.raced = TRUE] \in Request
  BY <1>1 DEF Request, ReqOK, At
<1> QED BY <1>1 DEF Touched, ReqOK

(* Refuse ends or moves one. *)
LEMMA RefuseType ==
  ASSUME ReqOK, NEW t \in Thread, req[t] # None, Refuse(t)
  PROVE  ReqOK'
BY DoneType, GoToType DEF Refuse, Place

(* What a request that has begun has in its fields. *)
LEMMA Begun ==
  ASSUME TypeOK, NEW t \in Thread, NEW op, NEW p, NEW k, NEW s, Begin(t, op, p, k, s)
  PROVE  req'[t].op = op /\ req'[t].at = p /\ req'[t].k = k /\ req'[t].s = s
BY DEF Begin, TypeOK

(* What a request that has moved has in its fields. *)
LEMMA GoneTo ==
  ASSUME TypeOK, NEW t \in Thread, req[t] # None, NEW p \in Place, GoTo(t, p)
  PROVE  /\ req'[t].op = req[t].op /\ req'[t].at = p
         /\ req'[t].k = req[t].k /\ req'[t].s = req[t].s
BY DEF GoTo, TypeOK, Request

(* The same for one that has come to its session. *)
LEMMA ResolvedTo ==
  ASSUME TypeOK, NEW t \in Thread, req[t] # None, NEW p \in Place, NEW s,
         req' = [req EXCEPT ![t].s = s, ![t].at = p]
  PROVE  /\ req'[t].op = req[t].op /\ req'[t].at = p
         /\ req'[t].k = req[t].k /\ req'[t].s = s
<1>1. req[t] \in Request /\ req \in [Thread -> Request \cup {None}]
  BY DEF TypeOK
<1>2. req'[t] = [req[t] EXCEPT !.s = s, !.at = p]
  BY <1>1
<1> QED BY <1>1, <1>2 DEF Request

(* What the first section of open finds, removes and does. *)
Found(V, k) == Kept(byDigest, V)[k]
Gone(V, ends, k) == IF ends /\ Found(V, k) # None THEN V \cup {Found(V, k)} ELSE V

LEMMA AskedByToken ==
  ASSUME NEW k \in Token, AskByToken(k)
  PROVE  \E V \in Victims, ends \in BOOLEAN :
           /\ byId' = Swept(Gone(V, ends, k))
           /\ byDigest' = Kept(byDigest, Gone(V, ends, k))
           /\ \/ Found(V, k) = None /\ Begin(Loop, "open", "resolve", k, None)
              \/ Found(V, k) # None /\ ~ ends /\ Begin(Loop, "xmla", "visit", k, byId[Found(V, k)])
              \/ Found(V, k) # None /\ ends /\ UNCHANGED req
BY Zenon DEF AskByToken, Found, Gone

(* And all that a step does to them. *)
LEMMA RequestType ==
  ASSUME ReqOK, TypeOK, [Next]_vars
  PROVE  ReqOK'
<1>1. ASSUME NEW t \in Thread, Work(t) PROVE ReqOK'
  <2>1. CASE Visit(t)
    BY <2>1, RefuseType, GoToType DEF Visit, Place, At
  <2>2. CASE Drop(t) \/ Vanished(t)
    BY <2>2, RefuseType DEF Drop, Vanished, At
  <2>3. CASE Touch(t)
    <3>1. [req[t] EXCEPT !.at = "write"] \in Request
      BY <2>3 DEF Request, ReqOK, Touch, At
    <3> QED BY <2>3, <3>1, TouchedType DEF Touch
  <2>4. CASE Mint(t) \/ Fault(t)
    BY <2>4, DoneType DEF Mint, Fault
  <2>5. CASE Resolve(t)
    <3>1. ASSUME NEW s \in Holder(req[t].k), NEW p \in Place,
                 req' = [req EXCEPT ![t].s = s, ![t].at = p]
          PROVE  ReqOK'
      <4>1. s \in Session
        BY DEF Holder, TypeOK
      <4>2. [req[t] EXCEPT !.s = s, !.at = p] \in Request
        BY <2>5, <4>1 DEF Request, ReqOK, Resolve, At, Place
      <4>3. req' = [req EXCEPT ![t] = [req[t] EXCEPT !.s = s, !.at = p]]
        BY <3>1 DEF ReqOK
      <4> QED BY <4>2, <4>3 DEF ReqOK
    <3> QED BY <2>5, <3>1, RefuseType DEF Resolve, At, Place
  <2> QED BY <1>1, <2>1, <2>2, <2>3, <2>4, <2>5 DEF Work
<1>2. ASSUME NEW t \in Handler, NEW s \in Session, AskMint(t, s) PROVE ReqOK'
  BY <1>2, BeginType DEF AskMint, Thread, Place
<1>3. ASSUME NEW t \in Handler, NEW k \in Token, AskFeed(t, k) PROVE ReqOK'
  BY <1>3, BeginType DEF AskFeed, Thread, Place
<1>4. ASSUME NEW t \in Handler, FeedFailed(t) PROVE ReqOK'
  BY <1>4, DoneType DEF FeedFailed, Thread
<1>5. ASSUME NEW x \in XmlaId, AskById(x) PROVE ReqOK'
  <2>1. byId[x] \in Session
    BY <1>5 DEF AskById, Open, TypeOK
  <2> QED BY <1>5, <2>1, BeginType DEF AskById, Thread, Place
<1>6. ASSUME NEW k \in Token, AskByToken(k) PROVE ReqOK'
  <2>1. PICK V \in Victims, ends \in BOOLEAN :
          /\ \/ Found(V, k) = None /\ Begin(Loop, "open", "resolve", k, None)
             \/ Found(V, k) # None /\ ~ ends /\ Begin(Loop, "xmla", "visit", k, byId[Found(V, k)])
             \/ Found(V, k) # None /\ ends /\ UNCHANGED req
    BY <1>6, AskedByToken
  <2>2. Found(V, k) # None => byId[Found(V, k)] \in Session \cup {None}
    BY <2>1 DEF Found, Kept, TypeOK
  <2>3. CASE Begin(Loop, "open", "resolve", k, None)
    BY <2>3, BeginType DEF Thread, Place
  <2>4. CASE Found(V, k) # None /\ Begin(Loop, "xmla", "visit", k, byId[Found(V, k)])
    BY <2>2, <2>4, BeginType DEF Thread, Place
  <2>5. CASE UNCHANGED req
    BY <2>5 DEF ReqOK
  <2> QED BY <2>1, <2>3, <2>4, <2>5
<1>7. CASE OpenSession
  <2>1. [req[Loop] EXCEPT !.op = "xmla", !.at = "visit"] \in Request
    BY <1>7 DEF OpenSession, At, ReqOK, Request, Thread
  <2> QED BY <1>7, <2>1, TouchedType DEF OpenSession, Thread
<1>8. CASE OpenAndEnd \/ OpenFailed
  BY <1>8, TouchedType, DoneType DEF OpenAndEnd, OpenFailed, Thread
<1>9. CASE UNCHANGED req
  BY <1>9 DEF ReqOK
<1> QED BY <1>1, <1>2, <1>3, <1>4, <1>5, <1>6, <1>7, <1>8, <1>9
        DEF Next, vars, SignIn, Logout, Purge, EndSession, Throttled, Tick

(* The rows. *)
LEMMA RowsType ==
  ASSUME TypeOK, [Next]_vars
  PROVE  /\ live' \subseteq Session
         /\ seen' \in [Session -> Age(SessionTTL)]
         /\ hash' \in [Session -> Token \cup {None}]
         /\ minted' \in [Session -> Age(TokenTTL)]
         /\ owner' \in [Token -> Session \cup {None}]
<1> DEFINE R == /\ live' \subseteq Session
                /\ seen' \in [Session -> Age(SessionTTL)]
                /\ hash' \in [Session -> Token \cup {None}]
                /\ minted' \in [Session -> Age(TokenTTL)]
                /\ owner' \in [Token -> Session \cup {None}]
<1> SUFFICES R
  OBVIOUS
<1> USE NumberAssumption DEF TypeOK, Age
<1>0. ASSUME UNCHANGED <<rowVars, owner>> PROVE R
  BY <1>0 DEF rowVars
<1>1. ASSUME NEW S, DropRows(S), UNCHANGED owner PROVE R
  BY <1>1 DEF DropRows
<1>2. ASSUME NEW t \in Thread, NEW q, Touched(t, q) PROVE R
  BY <1>2 DEF Touched
<1>3. ASSUME NEW t \in Thread, Mint(t) PROVE R
  <2>1. req[t].s \in Session
    BY <1>3 DEF Mint
  <2> QED BY <1>3, <2>1 DEF Mint
<1>4. ASSUME NEW s \in Session, SignIn(s) PROVE R
  BY <1>4 DEF SignIn
<1>5. CASE Tick
  BY SMTT(60), <1>5 DEF Tick, Older
<1>6. ASSUME NEW t \in Thread, Work(t) PROVE R
  BY <1>6, <1>0, <1>1, <1>2, <1>3 DEF Work, Resolve, Visit, Drop, Vanished, Touch, Fault
<1>7. ASSUME NEW k \in Token, AskByToken(k) PROVE R
  BY <1>7, <1>0 DEF AskByToken
<1> HIDE DEF R
<1> QED
  BY <1>0, <1>1, <1>2, <1>4, <1>5, <1>6, <1>7
  DEF Next, vars, rowVars, Thread, Logout, Purge, AskMint, AskFeed, FeedFailed, AskById,
      EndSession, OpenSession, OpenAndEnd, OpenFailed, Throttled

(* The store. *)
LEMMA StoreType ==
  ASSUME TypeOK, [Next]_vars
  PROVE  /\ byId' \in [XmlaId -> Session \cup {None}]
         /\ idle' \in [XmlaId -> Age(IdleTTL)]
         /\ byDigest' \in [Token -> XmlaId \cup {None}]
<1> DEFINE R == /\ byId' \in [XmlaId -> Session \cup {None}]
                /\ idle' \in [XmlaId -> Age(IdleTTL)]
                /\ byDigest' \in [Token -> XmlaId \cup {None}]
<1> SUFFICES R
  OBVIOUS
<1> USE NumberAssumption DEF TypeOK, Age
<1>0. ASSUME UNCHANGED storeVars PROVE R
  BY <1>0 DEF storeVars
<1>1. ASSUME NEW x \in XmlaId, AskById(x) \/ EndSession(x) PROVE R
  BY <1>1 DEF AskById, EndSession, Swept, Kept
<1>2. ASSUME NEW k \in Token, AskByToken(k) PROVE R
  <2>1. PICK V \in Victims, ends \in BOOLEAN :
          /\ byId' = Swept(Gone(V, ends, k))
          /\ byDigest' = Kept(byDigest, Gone(V, ends, k))
    BY <1>2, AskedByToken
  <2>2. byId' \in [XmlaId -> Session \cup {None}] /\ byDigest' \in [Token -> XmlaId \cup {None}]
    BY <2>1 DEF Swept, Kept
  <2>3. idle' \in [XmlaId -> Age(IdleTTL)]
    BY <1>2 DEF AskByToken
  <2> QED BY <2>2, <2>3
<1>3. CASE OpenSession
  <2>1. PICK x \in XmlaId \ Open :
          /\ byId' = [byId EXCEPT ![x] = req[Loop].s]
          /\ idle' = [idle EXCEPT ![x] = 0]
          /\ byDigest' = [byDigest EXCEPT ![req[Loop].k] = x]
    BY <1>3 DEF OpenSession
  <2>2. req[Loop].s \in Session
    BY <1>3 DEF OpenSession, Touched
  <2>3. byId' \in [XmlaId -> Session \cup {None}] /\ idle' \in [XmlaId -> Age(IdleTTL)]
    BY <2>1, <2>2
  <2>4. byDigest' \in [Token -> XmlaId \cup {None}]
    BY <2>1
  <2> QED BY <2>3, <2>4
<1>4. CASE Tick
  BY <1>4 DEF Tick, Older
<1>5. ASSUME NEW t \in Thread, Work(t) PROVE R
  BY <1>5, <1>0 DEF Work, Resolve, Visit, Drop, Vanished, Touch, Mint, Fault
<1> HIDE DEF R
<1> QED
  BY <1>0, <1>1, <1>2, <1>3, <1>4, <1>5
  DEF Next, vars, storeVars, Thread, SignIn, Logout, Purge, AskMint, AskFeed, FeedFailed,
      OpenAndEnd, OpenFailed, Throttled

(* The window. *)
LEMMA WindowType ==
  ASSUME TypeOK, HitsSound, StepsSound, [Next]_vars
  PROVE  /\ hits' \in Seq(Hit)
         /\ counted' \in [Token -> 0..Window \cup {None}]
<1> DEFINE R == hits' \in Seq(Hit) /\ counted' \in [Token -> 0..Window \cup {None}]
<1> SUFFICES R
  OBVIOUS
<1> USE NumberAssumption
<1>0. ASSUME UNCHANGED windowVars PROVE R
  BY <1>0 DEF windowVars, TypeOK
<1>1. ASSUME NEW k \in Token \cup {None}, Failure(k) PROVE hits' \in Seq(Hit)
  BY <1>1 DEF Failure, TypeOK, Hit
<1>2. ASSUME NEW t \in Thread, FeedFailed(t) PROVE R
  BY <1>1, <1>2 DEF FeedFailed, TypeOK
<1>3. CASE OpenFailed
  <2>1. req[Loop].k \in Token
    BY <1>3 DEF OpenFailed, StepsSound, StepSound, At, Thread
  <2> QED BY <1>0, <1>1, <1>3, <2>1 DEF OpenFailed, TypeOK
<1>4. CASE Tick
  <2>1. hits' \in Seq(Hit)
    BY <1>4, HitsAgeType DEF Tick
  <2> QED BY <1>4, <2>1 DEF Tick, LaterCounted, TypeOK
<1>5. ASSUME NEW t \in Thread, Work(t) PROVE R
  BY <1>5, <1>0 DEF Work, Resolve, Visit, Drop, Vanished, Touch, Mint, Fault
<1>6. ASSUME NEW k \in Token, AskByToken(k) PROVE R
  BY <1>6, <1>0 DEF AskByToken
<1>7. CASE OpenSession \/ OpenAndEnd
  BY <1>7, <1>0 DEF OpenSession, OpenAndEnd
<1> HIDE DEF R
<1> QED
  BY <1>0, <1>2, <1>3, <1>4, <1>5, <1>6, <1>7
  DEF Next, vars, windowVars, Thread, SignIn, Logout, Purge, AskMint, AskFeed, AskById, EndSession,
      Throttled

(* All types together. *)
LEMMA TypeStep ==
  ASSUME TypeOK, HitsSound, StepsSound, [Next]_vars
  PROVE  TypeOK'
<1>1. ReqOK'
  BY RequestType DEF TypeOK, ReqOK
<1> QED BY <1>1, RowsType, StoreType, WindowType DEF TypeOK, ReqOK

-----------------------------------------------------------------------------
(* What a step does to one request: it ends, or it stays (it may be raced),  *)
(* or its thread acts.                                                       *)
Stays(u) ==
  \/ req'[u] = req[u]
  \/ At(u, "drop") /\ req'[u] = [req[u] EXCEPT !.raced = TRUE]

Asks(u) ==
  \/ u \in Handler /\ \E s \in Session : AskMint(u, s)
  \/ u \in Handler /\ \E k \in Token : AskFeed(u, k)
  \/ u = Loop /\ \E x \in XmlaId : AskById(x)
  \/ u = Loop /\ \E k \in Token : AskByToken(k)

GoesOn(u) ==
  \/ Resolve(u) \/ Visit(u) \/ Drop(u) \/ Vanished(u) \/ Touch(u)
  \/ u = Loop /\ OpenSession

(* There is nothing else a step can do to it. *)
LEMMA RequestSteps ==
  ASSUME TypeOK, [Next]_vars, NEW u \in Thread, req'[u] # None
  PROVE  Stays(u) \/ Asks(u) \/ GoesOn(u)
<1> DEFINE R == Stays(u) \/ Asks(u) \/ GoesOn(u)
<1> SUFFICES R
  OBVIOUS
<1>0. req \in [Thread -> Request \cup {None}]
  BY DEF TypeOK
<1>1. ASSUME UNCHANGED req PROVE R
  BY <1>1 DEF Stays
<1>2. ASSUME NEW t \in Thread, NEW q, req' = [req EXCEPT ![t] = q], u # t PROVE R
  BY <1>0, <1>2 DEF Stays
<1>3. ASSUME NEW t \in Thread, NEW q, Touched(t, q), u # t PROVE R
  BY <1>0, <1>3 DEF Stays, Touched
<1>4. ASSUME NEW t \in Thread, Done(t) PROVE R
  BY <1>0, <1>2, <1>4 DEF Done
<1>5. ASSUME NEW t \in Thread, NEW p, GoTo(t, p), u # t PROVE R
  BY <1>0, <1>5 DEF Stays, GoTo
<1>6. ASSUME NEW t \in Thread, Refuse(t), u # t PROVE R
  BY <1>4, <1>5, <1>6 DEF Refuse
<1>7. ASSUME NEW t \in Thread, Work(t) PROVE R
  <2>1. CASE Mint(t) \/ Fault(t)
    BY <2>1, <1>4 DEF Mint, Fault
  <2>2. CASE u = t /\ ~ (Mint(t) \/ Fault(t))
    BY <1>7, <2>2 DEF Work, GoesOn
  <2>3. CASE u # t /\ Resolve(t)
    BY <1>0, <1>6, <2>3 DEF Resolve, Stays
  <2>4. CASE u # t /\ (Visit(t) \/ Drop(t) \/ Vanished(t) \/ Touch(t))
    BY <1>3, <1>5, <1>6, <2>4 DEF Visit, Drop, Vanished, Touch
  <2> QED BY <1>7, <2>1, <2>2, <2>3, <2>4 DEF Work
<1>8. ASSUME NEW t \in Handler,
             \/ \E s \in Session : AskMint(t, s)
             \/ \E k \in Token : AskFeed(t, k)
      PROVE  R
  <2>1. CASE u = t
    BY <1>8, <2>1 DEF Asks
  <2>2. CASE u # t
    BY <1>2, <1>8, <2>2 DEF AskMint, AskFeed, Begin, Thread
  <2> QED BY <2>1, <2>2
<1>9. ASSUME NEW x \in XmlaId, AskById(x) PROVE R
  <2>1. CASE u = Loop
    BY <1>9, <2>1 DEF Asks
  <2>2. CASE u # Loop
    BY <1>2, <1>9, <2>2 DEF AskById, Begin, Thread
  <2> QED BY <2>1, <2>2
<1>10. ASSUME NEW k \in Token, AskByToken(k) PROVE R
  <2>1. CASE u = Loop
    BY <1>10, <2>1 DEF Asks
  <2>2. CASE u # Loop
    <3>1. \/ UNCHANGED req
          \/ \E q : req' = [req EXCEPT ![Loop] = q]
      BY <1>10, AskedByToken DEF Begin
    <3> QED BY <1>1, <1>2, <2>2, <3>1 DEF Thread
  <2> QED BY <2>1, <2>2
<1>11. CASE OpenSession
  <2>1. CASE u = Loop
    BY <1>11, <2>1 DEF GoesOn
  <2>2. CASE u # Loop
    BY <1>3, <1>11, <2>2 DEF OpenSession, Thread
  <2> QED BY <2>1, <2>2
<1>12. CASE OpenAndEnd
  <2>1. u # Loop
    BY <1>12 DEF OpenAndEnd, Touched
  <2> QED BY <1>3, <1>12, <2>1 DEF OpenAndEnd, Thread
<1>13. ASSUME NEW t \in Handler, FeedFailed(t) PROVE R
  BY <1>4, <1>13 DEF FeedFailed, Thread
<1>14. CASE OpenFailed
  BY <1>4, <1>14 DEF OpenFailed, Thread
<1> HIDE DEF R
<1> QED
  BY <1>1, <1>7, <1>8, <1>9, <1>10, <1>11, <1>12, <1>13, <1>14
  DEF Next, vars, SignIn, Logout, Purge, EndSession, Throttled, Tick

(* A request keeps its password; it changes only when it has opened an XMLA  *)
(* session.                                                                  *)
LEMMA OpKept ==
  ASSUME TypeOK, NEW u \in Thread, GoesOn(u), req'[u] # None
  PROVE  /\ req[u] # None /\ req'[u].k = req[u].k
         /\ \/ req'[u].op = req[u].op /\ UNCHANGED <<byId, byDigest>>
            \/ req'[u].op = "xmla" /\ u = Loop
<1>0. req[u] # None /\ req[u] \in Request
  BY DEF GoesOn, Resolve, Visit, Drop, Vanished, Touch, OpenSession, At, TypeOK
<1>1. ASSUME Refuse(u) PROVE req'[u].op = req[u].op /\ req'[u].k = req[u].k
  BY <1>0, <1>1, GoneTo DEF Refuse, Done, Place, TypeOK
<1>2. CASE Resolve(u)
  <2>1. ASSUME NEW s, NEW p \in {"drop", "touch"}, req' = [req EXCEPT ![u].s = s, ![u].at = p]
        PROVE  req'[u].op = req[u].op /\ req'[u].k = req[u].k
    BY <1>0, <2>1, ResolvedTo DEF Place
  <2>2. UNCHANGED <<byId, byDigest>>
    BY <1>2 DEF Resolve, storeVars
  <2>3. ASSUME ~ Refuse(u) PROVE req'[u].op = req[u].op /\ req'[u].k = req[u].k
    <3>1. PICK s \in Holder(req[u].k) :
            req' = [req EXCEPT ![u].s = s, ![u].at = IF Expired(s) THEN "drop" ELSE "touch"]
      BY <1>2, <2>3 DEF Resolve
    <3> QED BY <2>1, <3>1
  <2> QED BY <1>0, <1>1, <2>2, <2>3
<1>3. CASE Visit(u)
  <2>1. ASSUME NEW p \in {"drop", "touch"}, GoTo(u, p)
        PROVE  req'[u].op = req[u].op /\ req'[u].k = req[u].k
    BY <1>0, <2>1, GoneTo DEF Place
  <2>2. UNCHANGED <<byId, byDigest>>
    BY <1>3 DEF Visit, storeVars
  <2> QED BY <1>0, <1>1, <1>3, <2>1, <2>2 DEF Visit
<1>4. CASE Drop(u) \/ Vanished(u)
  BY <1>0, <1>1, <1>4 DEF Drop, Vanished, storeVars
<1>5. CASE Touch(u)
  <2>1. req'[u] = [req[u] EXCEPT !.at = "write"]
    BY <1>5 DEF Touch, Touched
  <2>2. req'[u].op = req[u].op /\ req'[u].k = req[u].k
    BY <1>0, <2>1 DEF Request
  <2> QED BY <1>0, <1>5, <2>2 DEF Touch, storeVars
<1>6. CASE u = Loop /\ OpenSession
  <2>1. req'[u] = [req[u] EXCEPT !.op = "xmla", !.at = "visit"]
    BY <1>6 DEF OpenSession, Touched
  <2>2. req'[u].op = "xmla" /\ req'[u].k = req[u].k
    BY <1>0, <2>1 DEF Request
  <2> QED BY <1>0, <1>6, <2>2
<1> QED BY <1>2, <1>3, <1>4, <1>5, <1>6 DEF GoesOn

(* A request whose thread acts goes on soundly, and so its steps stay sound. *)
LEMMA StepsStep ==
  ASSUME TypeOK, StepsSound, TablesAgree, [Next]_vars
  PROVE  StepsSound'
<1> SUFFICES ASSUME NEW u \in Thread, req'[u] # None
             PROVE  StepSound(req'[u])
  BY DEF StepsSound
<1>0. req \in [Thread -> Request \cup {None}] /\ (req[u] # None => StepSound(req[u]))
  BY DEF TypeOK, StepsSound
<1> HIDE DEF TypeOK
<1>1. CASE Stays(u)
  <2>1. req[u] # None => /\ req'[u].at = req[u].at /\ req'[u].op = req[u].op
                         /\ req'[u].k = req[u].k /\ req'[u].s = req[u].s
    BY <1>0, <1>1 DEF Stays, Request
  <2>2. req[u] # None
    BY <1>1 DEF Stays, At
  <2> QED BY <1>0, <2>1, <2>2 DEF StepSound
<1>2. CASE Asks(u)
  <2>1. ASSUME NEW s \in Session, AskMint(u, s) PROVE StepSound(req'[u])
    BY <2>1, Begun DEF AskMint, StepSound
  <2>2. ASSUME NEW k \in Token, AskFeed(u, k) PROVE StepSound(req'[u])
    BY <2>2, Begun DEF AskFeed, StepSound
  <2>3. ASSUME NEW x \in XmlaId, AskById(x), u = Loop PROVE StepSound(req'[u])
    <3>1. byId[x] \in Session
      BY <2>3 DEF AskById, Open, TypeOK
    <3> QED BY <2>3, <3>1, Begun DEF AskById, StepSound
  <2>4. ASSUME NEW k \in Token, AskByToken(k), u = Loop PROVE StepSound(req'[u])
    <3>1. PICK V \in Victims, ends \in BOOLEAN :
            /\ \/ Found(V, k) = None /\ Begin(Loop, "open", "resolve", k, None)
               \/ Found(V, k) # None /\ ~ ends /\ Begin(Loop, "xmla", "visit", k, byId[Found(V, k)])
               \/ Found(V, k) # None /\ ends /\ UNCHANGED req
      BY <2>4, AskedByToken
    <3>2. Found(V, k) # None => Found(V, k) \in Open /\ byId[Found(V, k)] \in Session
      BY <3>1 DEF Found, Kept, TablesAgree, Open, TypeOK
    <3>3. CASE Begin(Loop, "open", "resolve", k, None)
      BY <2>4, <3>3, Begun DEF StepSound
    <3>4. CASE Found(V, k) # None /\ Begin(Loop, "xmla", "visit", k, byId[Found(V, k)])
      BY <2>4, <3>2, <3>4, Begun DEF StepSound
    <3>5. CASE UNCHANGED req
      BY <1>0, <3>5
    <3> QED BY <3>1, <3>3, <3>4, <3>5
  <2> QED BY <1>2, <2>1, <2>2, <2>3, <2>4 DEF Asks
<1>3. CASE GoesOn(u)
  <2>0. StepSound(req[u])
    BY <1>0, <1>3 DEF GoesOn, Resolve, Visit, Drop, Vanished, Touch, OpenSession, At
  <2>1. req[u] # None
    BY <1>3 DEF GoesOn, Resolve, Visit, Drop, Vanished, Touch, OpenSession, At
  <2>2. ASSUME Refuse(u) PROVE StepSound(req'[u])
    BY <1>0, <2>0, <2>1, <2>2, GoneTo DEF Refuse, Done, Place, StepSound
  <2>3. CASE Resolve(u)
    <3>2. Holder(req[u].k) \subseteq Session
      BY DEF Holder, TypeOK
    <3>3. ASSUME NEW s \in Holder(req[u].k), NEW p \in {"drop", "touch"},
                 req' = [req EXCEPT ![u].s = s, ![u].at = p]
          PROVE  StepSound(req'[u])
      BY <2>0, <2>1, <2>3, <3>2, <3>3, ResolvedTo DEF StepSound, Place, Resolve, At
    <3> QED BY <2>2, <2>3, <3>3 DEF Resolve
  <2>4. CASE Visit(u)
    BY <2>0, <2>1, <2>2, <2>4, GoneTo DEF Visit, StepSound, Place, At
  <2>5. CASE Drop(u) \/ Vanished(u)
    BY <2>2, <2>5 DEF Drop, Vanished
  <2>6. CASE Touch(u)
    <3>1. /\ req'[u] = [req[u] EXCEPT !.at = "write"]
          /\ req[u].op = "mint" /\ req[u].at = "touch"
      BY <2>6 DEF Touch, Touched, At
    <3>2. /\ req'[u].at = "write" /\ req'[u].op = "mint"
          /\ req'[u].k = req[u].k /\ req'[u].s = req[u].s
      BY <1>0, <2>6, <3>1 DEF Request, Touch, At
    <3> QED BY <2>0, <3>1, <3>2 DEF StepSound
  <2>7. CASE u = Loop /\ OpenSession
    <3>1. req'[u] = [req[u] EXCEPT !.op = "xmla", !.at = "visit"]
      BY <2>7 DEF OpenSession, Touched
    <3>2. /\ req'[u].at = "visit" /\ req'[u].op = "xmla"
          /\ req'[u].k = req[u].k /\ req'[u].s = req[u].s
      BY <1>0, <2>7, <3>1 DEF Request, OpenSession, At
    <3> QED BY <2>0, <2>7, <3>2 DEF StepSound, OpenSession, At
  <2> QED BY <1>3, <2>3, <2>4, <2>5, <2>6, <2>7 DEF GoesOn
<1> QED BY <1>1, <1>2, <1>3, RequestSteps

-----------------------------------------------------------------------------
(* What a step does to a row's token, and to the owner of a token.           *)
RowMoves ==
  /\ \A s \in Session : \/ hash'[s] = None
                        \/ hash'[s] = hash[s] /\ minted'[s] >= minted[s]
                        \/ UnusedToken(hash'[s])
  /\ \A k \in Token : owner'[k] = owner[k] \/ UnusedToken(k)

(* Every step moves the rows so, and the rows stay sound. *)
LEMMA RowSteps ==
  ASSUME TypeOK, RowsSound, [Next]_vars
  PROVE  RowMoves /\ RowsSound'
<1> DEFINE R == RowMoves /\ RowsSound'
<1> SUFFICES R
  OBVIOUS
<1> USE NumberAssumption DEF TypeOK, Age, RowsSound, RowMoves
<1>0. ASSUME UNCHANGED <<rowVars, owner>> PROVE R
  BY <1>0 DEF rowVars
<1>1. ASSUME NEW S, DropRows(S), UNCHANGED owner PROVE R
  BY <1>1 DEF DropRows
<1>2. ASSUME NEW t \in Thread, NEW q, Touched(t, q) PROVE R
  BY <1>2 DEF Touched
<1>3. ASSUME NEW t \in Thread, Mint(t) PROVE R
  <2>1. req[t].s \in Session /\ req[t].s \in live
    BY <1>3 DEF Mint
  <2>2. PICK k \in Token : /\ UnusedToken(k)
                          /\ hash' = [hash EXCEPT ![req[t].s] = k]
                          /\ owner' = [owner EXCEPT ![k] = req[t].s]
    BY <1>3 DEF Mint
  <2>3. live' = live /\ minted' = [minted EXCEPT ![req[t].s] = 0]
    BY <1>3 DEF Mint
  <2>4. \A s \in Session : hash[s] # k
    BY <2>2 DEF UnusedToken
  <2>5. RowMoves
    BY <2>1, <2>2, <2>3
  <2>6. RowsSound'
    BY <2>1, <2>2, <2>3, <2>4
  <2> QED BY <2>5, <2>6
<1>4. ASSUME NEW s \in Session, SignIn(s) PROVE R
  <2>1. \A k \in Token : owner[k] = s => UnusedToken(k)
    BY <1>4 DEF SignIn, UnusedSession
  <2>2. \A k \in Token, u \in Session : owner[k] = s => hash[u] # k
    BY <2>1 DEF UnusedToken
  <2>3. /\ live' = live \cup {s} /\ UNCHANGED <<hash, minted>>
        /\ owner' = [k \in Token |-> IF owner[k] = s THEN None ELSE owner[k]]
    BY <1>4 DEF SignIn
  <2> QED BY <2>1, <2>2, <2>3
<1>5. CASE Tick
  BY <1>5 DEF Tick, Older
<1>6. ASSUME NEW t \in Thread, Work(t) PROVE R
  BY <1>6, <1>0, <1>1, <1>2, <1>3 DEF Work, Resolve, Visit, Drop, Vanished, Touch, Fault
<1>7. ASSUME NEW k \in Token, AskByToken(k) PROVE R
  BY <1>7, <1>0 DEF AskByToken
<1> HIDE DEF R
<1> QED
  BY <1>0, <1>1, <1>2, <1>4, <1>5, <1>6, <1>7
  DEF Next, vars, rowVars, Thread, Logout, Purge, AskMint, AskFeed, FeedFailed, AskById,
      EndSession, OpenSession, OpenAndEnd, OpenFailed, Throttled

(* A password in somebody's hands that no row lets in stays so: its hash is  *)
(* never used again, and the clock of a token only goes on.                  *)
LEMMA DeadStays ==
  ASSUME TypeOK, RowMoves, TypeOK', NEW k \in Token, ~ UnusedToken(k), Dead(k)
  PROVE  Dead(k)'
<1> SUFFICES ASSUME NEW s \in Session, hash'[s] = k
             PROVE  minted'[s] >= TokenTTL
  BY DEF Dead, TokenExpired
<1>1. k # None
  BY SetAssumption
<1>2. hash[s] = k /\ minted'[s] >= minted[s]
  BY <1>1 DEF RowMoves
<1>3. minted[s] >= TokenTTL
  BY <1>2 DEF Dead, TokenExpired
<1> QED BY <1>2, <1>3, NumberAssumption DEF TypeOK, Age

(* A session whose row is not there, or goes, lets none of its tokens in.    *)
LEMMA NoRowDead ==
  ASSUME RowsSound, NEW s \in Session \ live, NEW k \in Token, owner[k] = s
  PROVE  Dead(k)
BY SetAssumption DEF RowsSound, Dead

(* What a step does to the clock of a row.                                   *)
LEMMA SeenSteps ==
  ASSUME TypeOK, [Next]_vars, NEW s \in Session, s \in live'
  PROVE  \/ UnusedSession(s)
         \/ s \in live /\ seen'[s] >= seen[s]
         \/ \A u \in Thread : At(u, "drop") /\ req[u].s = s => req'[u].raced
<1> DEFINE R == \/ UnusedSession(s)
                \/ s \in live /\ seen'[s] >= seen[s]
                \/ \A u \in Thread : At(u, "drop") /\ req[u].s = s => req'[u].raced
<1> SUFFICES R
  OBVIOUS
<1>0. ASSUME UNCHANGED rowVars PROVE R
  BY <1>0 DEF rowVars, TypeOK, Age
<1>1. ASSUME NEW S, DropRows(S) PROVE R
  BY <1>1 DEF DropRows, TypeOK, Age
<1>2. ASSUME NEW t \in Thread, NEW q, At(t, "touch"), Touched(t, q) PROVE R
  <2>1. CASE s = req[t].s
    <3>1. ASSUME NEW u \in Thread, At(u, "drop"), req[u].s = s
          PROVE  req'[u].raced
      <4>1. u # t
        BY <1>2, <3>1 DEF At
      <4>2. req'[u] = [req[u] EXCEPT !.raced = TRUE]
        BY <1>2, <2>1, <3>1, <4>1 DEF Touched
      <4>3. req[u] \in Request
        BY <3>1 DEF At, TypeOK
      <4> QED BY <4>2, <4>3 DEF Request
    <3> QED BY <3>1
  <2>2. CASE s # req[t].s
    BY <1>2, <2>2 DEF Touched, TypeOK, Age
  <2> QED BY <2>1, <2>2
<1>3. ASSUME NEW t \in Thread, Mint(t) PROVE R
  BY <1>3 DEF Mint, TypeOK, Age
<1>4. ASSUME NEW v \in Session, SignIn(v) PROVE R
  BY <1>4 DEF SignIn, TypeOK, Age
<1>5. CASE Tick
  BY <1>5, NumberAssumption DEF Tick, Older, TypeOK, Age
<1>6. ASSUME NEW t \in Thread, Work(t) PROVE R
  BY <1>6, <1>0, <1>1, <1>2, <1>3 DEF Work, Resolve, Visit, Drop, Vanished, Touch, Fault
<1>7. ASSUME NEW k \in Token, AskByToken(k) PROVE R
  BY <1>7, <1>0 DEF AskByToken
<1> HIDE DEF R
<1> QED
  BY <1>0, <1>1, <1>2, <1>4, <1>5, <1>6, <1>7
  DEF Next, vars, rowVars, Thread, Logout, Purge, AskMint, AskFeed, FeedFailed, AskById,
      EndSession, OpenSession, OpenAndEnd, OpenFailed, Throttled

(* So the requests in progress know their sessions, and who is rejected      *)
(* deserves it.                                                              *)
LEMMA SessionsStep ==
  ASSUME TypeOK, TypeOK', RowsSound, RowsSound', RowMoves, StepsSound, SessionsSound, TablesAgree,
         [Next]_vars
  PROVE  SessionsSound'
<1> SUFFICES ASSUME NEW u \in Thread, req'[u] # None
             PROVE  SessionSound(req[u])'
  BY DEF SessionsSound
<1>a. PICK k, s : k = req[u].k /\ s = req[u].s
  OBVIOUS
<1>0. req[u] # None => StepSound(req[u]) /\ SessionSound(req[u]) /\ req[u] \in Request
  BY DEF TypeOK, StepsSound, SessionsSound
<1>1. CASE Stays(u)
  <2>0. req[u] # None
    BY <1>1 DEF Stays, At
  <2>1. /\ req'[u].at = req[u].at /\ req'[u].k = k /\ req'[u].s = s
        /\ ~ req'[u].raced => ~ req[u].raced
    BY <1>0, <1>a, <1>1, <2>0 DEF Stays, Request
  <2>2. ASSUME k # None PROVE k \in Token /\ ~ UnusedToken(k)
    BY <1>0, <1>a, <2>0, <2>2 DEF Request, UnusedToken
  <2>3. k # None /\ s # None => owner'[k] = s
    BY <1>0, <1>a, <2>0, <2>2 DEF RowMoves, SessionSound
  <2>4. req[u].at \in {"refused", "fault"} /\ k # None => Dead(k)'
    BY <1>0, <1>a, <2>0, <2>2, DeadStays DEF SessionSound
  <2>5. ASSUME req[u].at = "drop", ~ req'[u].raced, s \in live'
        PROVE  seen'[s] > SessionTTL
    <3>1. s \in Session /\ ~ UnusedSession(s)
      BY <1>0, <1>a, <2>0, <2>5 DEF StepSound, UnusedSession
    <3>2. s \in live /\ seen'[s] >= seen[s]
      BY <1>a, <2>0, <2>5, <3>1, SeenSteps DEF At
    <3>3. seen[s] > SessionTTL
      BY <1>0, <1>a, <2>0, <2>1, <2>5, <3>2 DEF SessionSound, Expired
    <3> QED BY <3>1, <3>2, <3>3, NumberAssumption DEF TypeOK, Age
  <2> QED BY <2>0, <2>1, <2>3, <2>4, <2>5 DEF SessionSound, Expired, Dead, TokenExpired
<1>2. CASE Asks(u)
  <2>1. ASSUME NEW q \in Session, AskMint(u, q) PROVE SessionSound(req[u])'
    BY <2>1, Begun DEF AskMint, SessionSound
  <2>2. ASSUME NEW l \in Token, AskFeed(u, l) PROVE SessionSound(req[u])'
    BY <2>2, Begun DEF AskFeed, SessionSound
  <2>3. ASSUME NEW x \in XmlaId, AskById(x), u = Loop PROVE SessionSound(req[u])'
    BY <2>3, Begun DEF AskById, SessionSound
  <2>4. ASSUME NEW l \in Token, AskByToken(l), u = Loop PROVE SessionSound(req[u])'
    <3>1. PICK V \in Victims, ends \in BOOLEAN :
            /\ \/ Found(V, l) = None /\ Begin(Loop, "open", "resolve", l, None)
               \/ Found(V, l) # None /\ ~ ends /\ Begin(Loop, "xmla", "visit", l, byId[Found(V, l)])
               \/ Found(V, l) # None /\ ends /\ UNCHANGED req
      BY <2>4, AskedByToken
    <3>2. Found(V, l) # None => byDigest[l] = Found(V, l)
      BY <3>1 DEF Found, Kept
    <3>3. Found(V, l) # None => owner[l] = byId[Found(V, l)]
      BY <3>2 DEF TablesAgree
    <3>4. UNCHANGED owner
      BY <2>4 DEF AskByToken
    <3>5. CASE Begin(Loop, "open", "resolve", l, None)
      BY <2>4, <3>5, Begun DEF SessionSound
    <3>6. CASE Found(V, l) # None /\ Begin(Loop, "xmla", "visit", l, byId[Found(V, l)])
      BY <2>4, <3>3, <3>4, <3>6, Begun DEF SessionSound
    <3>7. CASE UNCHANGED req
      BY <1>1, <3>7 DEF Stays
    <3> QED BY <3>1, <3>5, <3>6, <3>7
  <2> QED BY <1>2, <2>1, <2>2, <2>3, <2>4 DEF Asks
<1>3. CASE GoesOn(u)
  <2>0. req[u] # None
    BY <1>3 DEF GoesOn, Resolve, Visit, Drop, Vanished, Touch, OpenSession, At
  <2>1. StepSound(req[u]) /\ SessionSound(req[u]) /\ req[u] \in Request /\ k \in Token \cup {None}
    BY <1>0, <1>a, <2>0 DEF Request
  <2>2. k # None /\ s # None => owner[k] = s
    BY <1>a, <2>1 DEF SessionSound
  <2>3. ASSUME Refuse(u), owner' = owner, k # None => Dead(k)' PROVE SessionSound(req[u])'
    <3>1. /\ req'[u].k = k /\ req'[u].s = s
          /\ req'[u].at \in {"refused", "fault"}
      BY <1>a, <2>0, <2>3, GoneTo DEF Refuse, Done, Place, TypeOK
    <3> QED BY <2>2, <2>3, <3>1 DEF SessionSound
  <2>4. ASSUME rowVars' = rowVars, owner' = owner, s \in Session \ live, k # None
        PROVE  Dead(k)'
    <3>1. s # None
      BY <2>4, SetAssumption
    <3>2. Dead(k)
      BY <2>1, <2>2, <2>4, <3>1, NoRowDead
    <3> QED BY <2>4, <3>2 DEF rowVars, Dead, TokenExpired
  <2>5. CASE Resolve(u)
    <3>1. rowVars' = rowVars /\ owner' = owner /\ k \in Token
      BY <1>a, <2>1, <2>5 DEF Resolve, At, StepSound
    <3>2. ASSUME \A r \in Holder(k) : TokenExpired(r) PROVE Dead(k)'
      <4>1. Dead(k)
        BY <3>1, <3>2, SetAssumption DEF Dead, Holder, RowsSound
      <4> QED BY <3>1, <4>1 DEF rowVars, Dead, TokenExpired
    <3>3. ASSUME NEW r \in Holder(k), NEW p \in {"drop", "touch"}, p = "drop" => Expired(r),
                 req' = [req EXCEPT ![u].s = r, ![u].at = p]
          PROVE  SessionSound(req[u])'
      <4>1. owner[k] = r
        BY <3>1, <3>3, SetAssumption DEF Holder, RowsSound, TypeOK
      <4>2. req'[u].at = p /\ req'[u].k = k /\ req'[u].s = r
        BY <1>a, <2>0, <3>3, ResolvedTo DEF Place
      <4>3. p = "drop" => Expired(r)'
        BY <3>1, <3>3 DEF rowVars, Expired
      <4> QED BY <3>1, <3>3, <4>1, <4>2, <4>3 DEF SessionSound, Expired
    <3> QED BY <1>a, <2>3, <2>5, <3>1, <3>2, <3>3 DEF Resolve
  <2>6. CASE Visit(u)
    <3>1. rowVars' = rowVars /\ owner' = owner /\ s \in Session
      BY <1>a, <2>1, <2>6 DEF Visit, At, StepSound
    <3>2. ASSUME NEW p \in {"drop", "touch"}, p = "drop" => Expired(s), GoTo(u, p)
          PROVE  SessionSound(req[u])'
      <4>1. req'[u].at = p /\ req'[u].k = k /\ req'[u].s = s
        BY <1>a, <2>0, <3>2, GoneTo DEF Place
      <4>2. p = "drop" => Expired(s)'
        BY <3>1, <3>2 DEF rowVars, Expired
      <4> QED BY <2>2, <3>1, <3>2, <4>1, <4>2 DEF SessionSound, Expired
    <3> QED BY <1>a, <2>3, <2>4, <2>6, <3>1, <3>2 DEF Visit
  <2>7. CASE Drop(u)
    <3>1. s \in Session \ live' /\ owner' = owner /\ Refuse(u)
      BY <1>a, <2>1, <2>7 DEF Drop, DropRows, At, StepSound
    <3>2. k # None => Dead(k)'
      <4>1. \A r \in Session : r # s /\ k # None => hash'[r] # k
        BY <2>1, <2>2, <3>1, SetAssumption DEF RowsSound
      <4>2. hash'[s] = None
        BY <3>1 DEF RowsSound
      <4> QED BY <4>1, <4>2 DEF Dead
    <3> QED BY <2>3, <3>1, <3>2
  <2>8. CASE Vanished(u)
    <3>1. s \in Session \ live
      BY <1>a, <2>1, <2>8 DEF Vanished, StepSound, At
    <3> QED BY <2>3, <2>4, <2>8, <3>1 DEF Vanished
  <2>9. CASE Touch(u)
    <3>1. req'[u] = [req[u] EXCEPT !.at = "write"] /\ req[u].op = "mint"
      BY <2>9 DEF Touch, Touched
    <3>2. req'[u].at = "write" /\ req'[u].k = None
      BY <2>1, <3>1 DEF Request, StepSound
    <3> QED BY <3>2 DEF SessionSound
  <2>10. CASE u = Loop /\ OpenSession
    <3>1. req'[u] = [req[u] EXCEPT !.op = "xmla", !.at = "visit"] /\ req[u].at = "touch" /\ owner' = owner
      BY <2>10 DEF OpenSession, Touched, At
    <3>2. req'[u].at = "visit" /\ req'[u].k = k /\ req'[u].s = s
      BY <1>a, <2>1, <3>1 DEF Request
    <3> QED BY <2>2, <3>1, <3>2 DEF SessionSound
  <2> QED BY <1>3, <2>5, <2>6, <2>7, <2>8, <2>9, <2>10 DEF GoesOn
<1> QED BY <1>1, <1>2, <1>3, RequestSteps

-----------------------------------------------------------------------------
(* The store.  What is removed from one table is removed from the other.     *)
LEMMA Removed ==
  ASSUME TypeOK, TypeOK', TablesAgree, NEW V, byId' = Swept(V), byDigest' = Kept(byDigest, V),
         UNCHANGED owner
  PROVE  TablesAgree' /\ Open' = Open \ V
<1>1. \A x \in XmlaId : byId'[x] = IF x \in V THEN None ELSE byId[x]
  BY DEF Swept
<1>2. \A k \in Token : byDigest'[k] = IF byDigest[k] \in V THEN None ELSE byDigest[k]
  BY DEF Kept
<1>3. Open' = Open \ V
  BY <1>1 DEF Open
<1>4. \A x \in Open' : \E k \in Token : byDigest'[k] = x /\ owner'[k] = byId'[x]
  <2> SUFFICES ASSUME NEW x \in Open \ V
               PROVE  \E k \in Token : byDigest'[k] = x /\ owner'[k] = byId'[x]
    BY <1>3
  <2>1. PICK k \in Token : byDigest[k] = x /\ owner[k] = byId[x]
    BY DEF TablesAgree
  <2> QED BY <1>1, <1>2, <2>1 DEF Open
<1>5. \A k \in Token : byDigest'[k] # None => byDigest'[k] \in Open'
  BY <1>2, <1>3 DEF TablesAgree
<1>6. \A k, l \in Token : byDigest'[k] = byDigest'[l] /\ byDigest'[k] # None => k = l
  BY <1>2 DEF TablesAgree
<1> QED BY <1>3, <1>4, <1>5, <1>6 DEF TablesAgree

(* Sets of XMLA sessions can be counted. *)
LEMMA OpenFinite ==
  \A S \in SUBSET XmlaId : IsFiniteSet(S) /\ Cardinality(S) \in Nat
BY SetAssumption, FS_Subset, FS_CardinalityType

(* The first section of open leaves room for one more, and the token without *)
(* an XMLA session when it is to get one.                                    *)
LEMMA AskTables ==
  ASSUME TypeOK, TypeOK', TablesAgree, NEW k \in Token, AskByToken(k)
  PROVE  /\ TablesAgree' /\ Cardinality(Open') <= MaxSessions
         /\ req'[Loop] # None /\ req'[Loop].op = "open" => byDigest'[k] = None /\ req'[Loop].k = k
<1>1. PICK V \in Victims, ends \in BOOLEAN :
        /\ byId' = Swept(Gone(V, ends, k))
        /\ byDigest' = Kept(byDigest, Gone(V, ends, k))
        /\ \/ Found(V, k) = None /\ Begin(Loop, "open", "resolve", k, None)
           \/ Found(V, k) # None /\ ~ ends /\ Begin(Loop, "xmla", "visit", k, byId[Found(V, k)])
           \/ Found(V, k) # None /\ ends /\ UNCHANGED req
  BY AskedByToken
<1>2. TablesAgree' /\ Open' = Open \ Gone(V, ends, k)
  <2>1. UNCHANGED owner
    BY DEF AskByToken
  <2> QED BY <1>1, <2>1, Removed
<1>3. Cardinality(Open') <= MaxSessions
  <2>1. Open' \subseteq Open \ V /\ Open \ V \subseteq XmlaId
    BY <1>1, <1>2 DEF Open, Gone
  <2>2. Cardinality(Open \ V) <= MaxSessions
    BY DEF Victims
  <2>3. Cardinality(Open') <= Cardinality(Open \ V)
    BY <2>1, OpenFinite, FS_Subset
  <2> QED BY <2>1, <2>2, <2>3, OpenFinite, NumberAssumption
<1>4. ASSUME req'[Loop] # None, req'[Loop].op = "open" PROVE byDigest'[k] = None /\ req'[Loop].k = k
  <2>1. Begin(Loop, "open", "resolve", k, None) /\ Found(V, k) = None
    <3>1. ~ Begin(Loop, "xmla", "visit", k, byId[Found(V, k)])
      BY <1>4, Begun DEF Thread
    <3>2. req[Loop] = None
      BY DEF AskByToken
    <3> QED BY <1>1, <1>4, <3>1, <3>2
  <2>2. req'[Loop].k = k
    BY <2>1, Begun DEF Thread
  <2> QED BY <1>1, <2>1, <2>2 DEF Kept, Found, Gone
<1> QED BY <1>2, <1>3, <1>4

(* The second section uses that room. *)
LEMMA OpenTables ==
  ASSUME TypeOK, TypeOK', TablesAgree, StepsSound, SessionsSound, StoresSound, OpenSession
  PROVE  TablesAgree' /\ Cardinality(Open') <= MaxSessions + 1
<1> DEFINE k == req[Loop].k
<1>1. PICK x \in XmlaId \ Open :
        /\ byId' = [byId EXCEPT ![x] = req[Loop].s]
        /\ byDigest' = [byDigest EXCEPT ![k] = x]
  BY DEF OpenSession
<1>2. UNCHANGED owner /\ req[Loop] # None /\ req[Loop].op = "open" /\ req[Loop].s \in Session
  BY DEF OpenSession, Touched, At, TypeOK
<1>3. k \in Token /\ byDigest[k] = None /\ Cardinality(Open) <= MaxSessions
  BY <1>2 DEF StepsSound, StepSound, StoresSound, StoreSound, Thread
<1>4. owner[k] = req[Loop].s
  BY <1>2, <1>3, SetAssumption DEF SessionsSound, SessionSound, Thread
<1>5. Open' = Open \cup {x}
  BY <1>1, <1>2, SetAssumption DEF Open, TypeOK
<1>6. TablesAgree'
  <2>1. /\ \A y \in XmlaId : byId'[y] = IF y = x THEN req[Loop].s ELSE byId[y]
        /\ \A l \in Token : byDigest'[l] = IF l = k THEN x ELSE byDigest[l]
    BY <1>1 DEF TypeOK
  <2> HIDE DEF k
  <2>2. \A l \in Token : byDigest[l] # x
    BY <1>1, SetAssumption DEF TablesAgree
  <2>3. \A y \in Open' : \E l \in Token : byDigest'[l] = y /\ owner'[l] = byId'[y]
    <3> SUFFICES ASSUME NEW y \in Open'
                 PROVE  \E l \in Token : byDigest'[l] = y /\ owner'[l] = byId'[y]
      OBVIOUS
    <3>1. CASE y = x
      BY <1>2, <1>3, <1>4, <2>1, <3>1
    <3>2. CASE y # x
      <4>1. PICK l \in Token : byDigest[l] = y /\ owner[l] = byId[y]
        BY <1>5, <3>2 DEF TablesAgree
      <4>2. l # k /\ y \in XmlaId
        BY <1>3, <1>5, <3>2, <4>1, SetAssumption DEF Open
      <4> QED BY <1>2, <2>1, <3>2, <4>1, <4>2
    <3> QED BY <3>1, <3>2
  <2>4. \A l \in Token : byDigest'[l] # None => byDigest'[l] \in Open'
    BY <1>5, <2>1 DEF TablesAgree
  <2>5. \A l, m \in Token : byDigest'[l] = byDigest'[m] /\ byDigest'[l] # None => l = m
    BY <2>1, <2>2 DEF TablesAgree
  <2> QED BY <2>3, <2>4, <2>5 DEF TablesAgree
<1>7. Cardinality(Open') <= MaxSessions + 1
  <2>1. IsFiniteSet(Open) /\ Cardinality(Open) \in Nat
    BY OpenFinite DEF Open
  <2>2. Cardinality(Open \cup {x}) = Cardinality(Open) + 1
    BY <2>1, FS_AddElement
  <2> QED BY <1>3, <1>5, <2>1, <2>2, NumberAssumption
<1> QED BY <1>6, <1>7

(* Nobody else touches the tables.  The owner of a token may be forgotten    *)
(* once nothing refers to the token.                                         *)
LEMMA TablesStep ==
  ASSUME TypeOK, TypeOK', TablesAgree, StoreBounded, StepsSound, SessionsSound, StoresSound, RowMoves,
         [Next]_vars
  PROVE  /\ TablesAgree' /\ StoreBounded'
         /\ \/ UNCHANGED <<byId, byDigest>>
            \/ \E x \in XmlaId : EndSession(x)
            \/ \E k \in Token : AskByToken(k)
            \/ OpenSession
<1> DEFINE S == UNCHANGED <<byId, byDigest>>
<1>1. ASSUME S PROVE TablesAgree' /\ StoreBounded'
  <2>1. Open' = Open
    BY <1>1 DEF Open
  <2>2. ASSUME NEW k \in Token, byDigest[k] # None PROVE owner'[k] = owner[k]
    BY <2>2 DEF RowMoves, UnusedToken
  <2>3. \A x \in Open : \E k \in Token : byDigest[k] = x /\ owner'[k] = byId[x]
    <3> SUFFICES ASSUME NEW x \in Open PROVE \E k \in Token : byDigest[k] = x /\ owner'[k] = byId[x]
      OBVIOUS
    <3>1. PICK k \in Token : byDigest[k] = x /\ owner[k] = byId[x]
      BY DEF TablesAgree
    <3>2. x # None
      BY SetAssumption DEF Open
    <3> QED BY <2>2, <3>1, <3>2
  <2> QED BY <1>1, <2>1, <2>3 DEF TablesAgree, StoreBounded
<1>2. ASSUME NEW x \in XmlaId, EndSession(x) PROVE TablesAgree' /\ StoreBounded'
  <2>1. TablesAgree' /\ Open' = Open \ {x}
    BY <1>2, Removed DEF EndSession
  <2>2. Cardinality(Open') <= Cardinality(Open) /\ Cardinality(Open') \in Nat /\ Cardinality(Open) \in Nat
    BY <2>1, OpenFinite, FS_Subset DEF Open
  <2> QED BY <2>1, <2>2, NumberAssumption DEF StoreBounded
<1>3. ASSUME NEW k \in Token, AskByToken(k) PROVE TablesAgree' /\ StoreBounded'
  <2>1. TablesAgree' /\ Cardinality(Open') <= MaxSessions
    BY <1>3, AskTables
  <2>2. Cardinality(Open') \in Nat
    BY OpenFinite DEF Open
  <2> QED BY <2>1, <2>2, NumberAssumption DEF StoreBounded
<1>4. ASSUME OpenSession PROVE TablesAgree' /\ StoreBounded'
  BY <1>4, OpenTables DEF StoreBounded
<1>5. ASSUME NEW t \in Thread, Work(t) PROVE S
  BY <1>5 DEF Work, Resolve, Visit, Drop, Vanished, Touch, Mint, Fault, storeVars
<1>6. \/ S
      \/ \E x \in XmlaId : EndSession(x)
      \/ \E k \in Token : AskByToken(k)
      \/ OpenSession
  BY <1>5
  DEF Next, vars, storeVars, SignIn, Logout, Purge, AskMint, AskFeed, FeedFailed, AskById,
      OpenAndEnd, OpenFailed, Throttled, Tick
<1> QED BY <1>1, <1>2, <1>3, <1>4, <1>6

(* So while a token's XMLA session is being opened nothing takes its place.  *)
LEMMA StoresStep ==
  ASSUME TypeOK, TypeOK', TablesAgree, StoreBounded, StepsSound, SessionsSound, StoresSound, RowMoves,
         [Next]_vars
  PROVE  StoresSound'
<1> SUFFICES ASSUME NEW u \in Thread, req'[u] # None
             PROVE  StoreSound(u, req[u])'
  BY DEF StoresSound
<1>0. req[u] # None => StoreSound(u, req[u]) /\ req[u] \in Request
  BY DEF TypeOK, StoresSound
<1>1. UNCHANGED <<byId, byDigest>> => Open' = Open
  BY DEF Open
<1>2. CASE Stays(u)
  <2>1. /\ req[u] # None
        /\ req'[u].at = req[u].at /\ req'[u].op = req[u].op /\ req'[u].k = req[u].k
    BY <1>0, <1>2 DEF Stays, At, Request
  <2>2. ASSUME req[u].op = "open" PROVE UNCHANGED <<byId, byDigest>>
    <3>1. u = Loop
      BY <1>0, <2>1, <2>2 DEF StoreSound
    <3>2. \A x \in XmlaId : ~ EndSession(x)
      BY <2>1, <3>1 DEF EndSession
    <3>3. \A k \in Token : ~ AskByToken(k)
      BY <2>1, <3>1 DEF AskByToken
    <3>4. ASSUME OpenSession PROVE FALSE
      <4>1. req'[u] = [req[u] EXCEPT !.op = "xmla", !.at = "visit"]
        BY <3>1, <3>4 DEF OpenSession, Touched
      <4>2. req'[u].op = "xmla"
        BY <1>0, <2>1, <4>1 DEF Request
      <4> QED BY <2>1, <2>2, <4>2
    <3> QED BY <3>2, <3>3, <3>4, TablesStep
  <2> QED BY <1>0, <1>1, <2>1, <2>2 DEF StoreSound
<1>3. CASE Asks(u)
  <2>1. ASSUME NEW s \in Session, AskMint(u, s) PROVE StoreSound(u, req[u])'
    BY <2>1, Begun DEF AskMint, StoreSound
  <2>2. ASSUME NEW k \in Token, AskFeed(u, k) PROVE StoreSound(u, req[u])'
    BY <2>2, Begun DEF AskFeed, StoreSound
  <2>3. ASSUME NEW x \in XmlaId, AskById(x), u = Loop PROVE StoreSound(u, req[u])'
    BY <2>3, Begun DEF AskById, StoreSound
  <2>4. ASSUME NEW k \in Token, AskByToken(k), u = Loop PROVE StoreSound(u, req[u])'
    <3>1. Cardinality(Open') <= MaxSessions
      BY <2>4, AskTables
    <3>2. req'[u].op = "open" => byDigest'[req'[u].k] = None
      BY <2>4, AskTables
    <3> QED BY <2>4, <3>1, <3>2 DEF StoreSound
  <2> QED BY <1>3, <2>1, <2>2, <2>3, <2>4 DEF Asks
<1>4. CASE GoesOn(u)
  <2>1. /\ req[u] # None /\ req'[u].k = req[u].k
        /\ req'[u].op = "open" => req[u].op = "open" /\ UNCHANGED <<byId, byDigest>>
        /\ req'[u].op = "xmla" => req[u].op = "xmla" \/ u = Loop
    BY <1>4, OpKept
  <2>2. req'[u].op \in {"open", "xmla"} => u = Loop
    BY <1>0, <2>1 DEF StoreSound
  <2> QED BY <1>0, <1>1, <2>1, <2>2 DEF StoreSound
<1> QED BY <1>2, <1>3, <1>4, RequestSteps

-----------------------------------------------------------------------------
(* The window.  A failure that is appended is the youngest, and counted once *)
(* if it is told from the others.                                            *)
LEMMA Appended ==
  ASSUME TypeOK, HitsSound, CountedOnce, NEW k \in Token \cup {None}, Failure(k),
         \/ k = None /\ counted' = counted
         \/ k # None /\ counted[k] = None /\ counted' = [counted EXCEPT ![k] = 0]
  PROVE  HitsSound' /\ CountedOnce'
<1> DEFINE n == Len(hits)
<1>1. /\ n \in Nat /\ DOMAIN hits = 1..n
      /\ \A i \in 1..n : hits[i] \in Hit
  BY ElementOfSeq, LenProperties DEF TypeOK
<1>2. [age |-> 0, by |-> k] \in Hit
  BY NumberAssumption DEF Hit
<1>3. /\ hits' \in Seq(Hit) /\ Len(hits') = n + 1
      /\ \A i \in 1..n : hits'[i] = hits[i]
      /\ hits'[n + 1] = [age |-> 0, by |-> k]
  BY <1>2, AppendProperties DEF Failure, TypeOK
<1>4. DOMAIN hits' = 1..(n + 1)
  BY <1>3, LenProperties
<1>5. \A i \in 1..n : hits[i].age \in 0..Window /\ hits[i].by \in Token \cup {None}
  BY <1>1 DEF Hit
<1>6. \A i \in 1..n : hits[i].by = k => k = None
  <2>1. \A i \in 1..n : hits[i].by # None => counted[hits[i].by] # None
    BY <1>1, <1>5, SetAssumption, NumberAssumption DEF HitsSound
  <2> QED BY <2>1
<1>7. \A i \in 1..(n + 1) : i \in 1..n \/ i = n + 1
  BY <1>1
<1>8. HitsSound'
  <2>1. ASSUME NEW i \in 1..(n + 1), NEW j \in 1..(n + 1), i < j
        PROVE  hits'[i].age >= hits'[j].age
    <3>1. i \in 1..n
      BY <1>1, <2>1
    <3>2. CASE j = n + 1
      BY <1>3, <1>5, <3>1, <3>2
    <3>3. CASE j \in 1..n
      BY <1>1, <1>3, <2>1, <3>1, <3>3 DEF HitsSound
    <3> QED BY <1>7, <3>2, <3>3
  <2>2. ASSUME NEW i \in 1..(n + 1), hits'[i].by # None
        PROVE  counted'[hits'[i].by] = hits'[i].age
    <3>1. CASE i = n + 1
      BY <1>3, <2>2, <3>1 DEF TypeOK
    <3>2. CASE i \in 1..n
      BY <1>1, <1>3, <1>5, <1>6, <2>2, <3>2 DEF HitsSound, TypeOK
    <3> QED BY <1>7, <3>1, <3>2
  <2> QED BY <1>4, <2>1, <2>2 DEF HitsSound
<1>9. CountedOnce'
  <2>1. ASSUME NEW i \in 1..(n + 1), NEW j \in 1..(n + 1),
               hits'[i].by = hits'[j].by, hits'[i].by # None
        PROVE  i = j
    <3>1. CASE i \in 1..n /\ j \in 1..n
      BY <1>1, <1>3, <2>1, <3>1 DEF CountedOnce
    <3>2. CASE i \in 1..n /\ j = n + 1
      BY <1>3, <1>6, <2>1, <3>2
    <3>3. CASE i = n + 1 /\ j \in 1..n
      BY <1>3, <1>6, <2>1, <3>3
    <3> QED BY <1>7, <3>1, <3>2, <3>3
  <2> QED BY <1>4, <2>1 DEF CountedOnce
<1> QED BY <1>8, <1>9

(* A tick of the clock: what leaves the window is the oldest of it, and the  *)
(* fingerprints age with their failures.                                     *)
LEMMA Aged ==
  ASSUME TypeOK, HitsSound, CountedOnce, Tick
  PROVE  HitsSound' /\ CountedOnce' /\ Len(hits') <= Len(hits)
<1> DEFINE n == Len(hits)
<1>0. hits \in Seq(Hit) /\ counted \in [Token -> 0..Window \cup {None}]
  BY DEF TypeOK
<1>1. n \in Nat /\ DOMAIN hits = 1..n /\ \A i \in 1..n : hits[i] \in Hit
  BY <1>0, ElementOfSeq, LenProperties
<1>2. PICK m \in 0..n :
        /\ m < n => hits[m + 1].age < Window
        /\ hits' = [i \in 1..(n - m) |-> [hits[i + m] EXCEPT !.age = @ + 1]]
  BY DEF Tick, HitsAge
<1>3. ASSUME NEW i \in 1..(n - m)
      PROVE  /\ i + m \in 1..n
             /\ hits'[i].age = hits[i + m].age + 1 /\ hits'[i].by = hits[i + m].by
             /\ hits[i + m].age \in 0..Window /\ hits[i + m].age < Window
             /\ hits[i + m].by \in Token \cup {None}
  <2>1. i + m \in 1..n /\ m + 1 \in 1..n /\ m < n /\ (i = 1 \/ m + 1 < i + m)
    BY <1>1
  <2>2. hits[i + m] \in Hit /\ hits[m + 1] \in Hit
    BY <1>1, <2>1
  <2>3. hits'[i] = [hits[i + m] EXCEPT !.age = @ + 1]
    BY <1>2
  <2>4. hits'[i].age = hits[i + m].age + 1 /\ hits'[i].by = hits[i + m].by
    BY <2>2, <2>3 DEF Hit
  <2>5. /\ hits[i + m].age \in 0..Window /\ hits[m + 1].age \in 0..Window
        /\ hits[i + m].by \in Token \cup {None}
    BY <2>2 DEF Hit
  <2>6. hits[i + m].age <= hits[m + 1].age
    <3>1. CASE i = 1
      BY <2>5, <3>1, NumberAssumption
    <3>2. CASE m + 1 < i + m
      BY <1>1, <2>1, <3>2 DEF HitsSound
    <3> QED BY <2>1, <3>1, <3>2
  <2>7. hits[m + 1].age < Window
    BY <1>2, <2>1
  <2>8. hits[i + m].age < Window
    <3> DEFINE a == hits[i + m].age
               b == hits[m + 1].age
    <3>1. a \in 0..Window /\ b \in 0..Window /\ a <= b /\ b < Window
      BY <2>5, <2>6, <2>7
    <3> HIDE DEF a, b
    <3>2. a < Window
      BY <3>1, NumberAssumption
    <3> QED BY <3>2 DEF a
  <2> QED BY <2>1, <2>4, <2>5, <2>8
<1>4. DOMAIN hits' = 1..(n - m)
  BY <1>2
<1>5. HitsSound'
  <2>1. ASSUME NEW i \in 1..(n - m), NEW j \in 1..(n - m), i < j
        PROVE  hits'[i].age >= hits'[j].age
    <3>1. hits[i + m].age >= hits[j + m].age
      <4>1. i + m < j + m
        BY <2>1
      <4> QED BY <1>1, <1>3, <4>1 DEF HitsSound
    <3> DEFINE a == hits[i + m].age
               b == hits[j + m].age
    <3>2. a \in 0..Window /\ b \in 0..Window /\ a >= b
      BY <1>3, <3>1
    <3>3. hits'[i].age = a + 1 /\ hits'[j].age = b + 1
      BY <1>3
    <3> HIDE DEF a, b
    <3> QED BY <3>2, <3>3
  <2>2. ASSUME NEW i \in 1..(n - m), hits'[i].by # None
        PROVE  counted'[hits'[i].by] = hits'[i].age
    <3> DEFINE k == hits[i + m].by
               a == hits[i + m].age
    <3>1. k \in Token /\ a \in 0..Window /\ a < Window /\ counted[k] = a
      BY <1>1, <1>3, <2>2 DEF HitsSound
    <3>2. hits'[i].by = k /\ hits'[i].age = a + 1
      BY <1>3
    <3> HIDE DEF k, a
    <3>3. counted[k] # None /\ counted[k] # Window
      BY <3>1, SetAssumption, NumberAssumption
    <3>4. counted'[k] = a + 1
      BY <3>1, <3>3 DEF Tick, LaterCounted
    <3> QED BY <3>2, <3>4
  <2> QED BY <1>4, <2>1, <2>2 DEF HitsSound
<1>6. CountedOnce'
  <2>1. ASSUME NEW i \in 1..(n - m), NEW j \in 1..(n - m),
               hits'[i].by = hits'[j].by, hits'[i].by # None
        PROVE  i = j
    <3>1. i + m = j + m
      BY <1>1, <1>3, <2>1 DEF CountedOnce
    <3> QED BY <3>1
  <2> QED BY <1>4, <2>1 DEF CountedOnce
<1>7. Len(hits') <= n
  <2>1. n - m \in Nat /\ hits' \in Seq(Hit)
    BY <1>1, HitsAgeType DEF Tick
  <2>2. Len(hits') = n - m
    BY <1>2, <2>1
  <2> QED BY <1>1, <2>2
<1> QED BY <1>5, <1>6, <1>7

(* Only failures and time change the window. *)
LEMMA WindowSteps ==
  [Next]_vars => \/ UNCHANGED windowVars
                 \/ \E t \in Handler : FeedFailed(t)
                 \/ OpenFailed
                 \/ Tick
<1> DEFINE S == UNCHANGED windowVars
<1>1. ASSUME NEW t \in Thread, Work(t) PROVE S
  BY <1>1 DEF Work, Resolve, Visit, Drop, Vanished, Touch, Mint, Fault
<1>2. ASSUME NEW k \in Token, AskByToken(k) PROVE S
  BY <1>2 DEF AskByToken
<1>3. ASSUME OpenSession PROVE S
  BY <1>3 DEF OpenSession
<1> QED BY <1>1, <1>2, <1>3
        DEF Next, vars, windowVars, SignIn, Logout, Purge, AskMint, AskFeed, AskById, EndSession,
            OpenAndEnd, Throttled

(* So the window stays sound. *)
LEMMA WindowStep ==
  ASSUME TypeOK, StepsSound, HitsSound, CountedOnce, [Next]_vars
  PROVE  HitsSound' /\ CountedOnce'
<1>1. CASE UNCHANGED windowVars
  BY <1>1 DEF windowVars, HitsSound, CountedOnce
<1>2. ASSUME NEW t \in Handler, FeedFailed(t) PROVE HitsSound' /\ CountedOnce'
  BY <1>2, Appended DEF FeedFailed
<1>3. CASE OpenFailed
  <2>1. req[Loop].k \in Token
    BY <1>3 DEF OpenFailed, StepsSound, StepSound, At, Thread
  <2> QED BY <1>1, <1>3, <2>1, SetAssumption, Appended DEF OpenFailed, First
<1>4. CASE Tick
  BY <1>4, Aged
<1> QED BY <1>1, <1>2, <1>3, <1>4, WindowSteps

-----------------------------------------------------------------------------
(* The budget.  `allowed` leaves room for a failure of every thread, and a   *)
(* failure takes the room of the thread that registers it.                   *)
LEMMA ThreadFinite ==
  /\ IsFiniteSet(Thread) /\ Cardinality(Thread) \in Nat
  /\ \A S \in SUBSET Thread : /\ IsFiniteSet(S) /\ Cardinality(S) \in Nat
                              /\ Cardinality(S) <= Cardinality(Thread)
<1>1. IsFiniteSet(Thread)
  BY SetAssumption, FS_AddElement DEF Thread
<1> QED BY <1>1, FS_Subset, FS_CardinalityType

(* So the budget is kept by every step. *)
LEMMA BudgetStep ==
  ASSUME TypeOK, TypeOK', BudgetKept, StepsSound, HitsSound, CountedOnce, [Next]_vars
  PROVE  BudgetKept'
<1>0. /\ PastGate \in SUBSET Thread /\ PastGate' \in SUBSET Thread
      /\ Len(hits) \in Nat /\ Len(hits') \in Nat
  BY LenProperties DEF PastGate, TypeOK
<1>1. ASSUME Allowed, UNCHANGED windowVars PROVE BudgetKept'
  <2>1. Len(hits) < Limit /\ Len(hits') = Len(hits)
    BY <1>1 DEF Allowed, windowVars
  <2> QED BY <1>0, <2>1, ThreadFinite, NumberAssumption DEF BudgetKept
<1>2. ASSUME PastGate' \subseteq PastGate, Len(hits') <= Len(hits) PROVE BudgetKept'
  <2>1. Cardinality(PastGate') <= Cardinality(PastGate)
    BY <1>0, <1>2, ThreadFinite, FS_Subset
  <2> QED BY <1>0, <1>2, <2>1, ThreadFinite, NumberAssumption DEF BudgetKept
<1>3. ASSUME NEW t \in PastGate, Done(t), Len(hits') <= Len(hits) + 1 PROVE BudgetKept'
  <2>1. PastGate' = PastGate \ {t}
    BY <1>3 DEF PastGate, Done, TypeOK
  <2>2. Cardinality(PastGate') = Cardinality(PastGate) - 1
    BY <1>0, <2>1, ThreadFinite, FS_RemoveElement
  <2> QED BY <1>0, <1>3, <2>2, ThreadFinite, NumberAssumption DEF BudgetKept
<1>4. ASSUME NEW k, Failure(k) PROVE Len(hits') <= Len(hits) + 1
  BY <1>0, <1>4 DEF Failure, TypeOK
<1>5. ASSUME NEW t \in Handler, FeedFailed(t) PROVE BudgetKept'
  <2>1. t \in PastGate
    BY <1>5 DEF FeedFailed, At, PastGate, Thread
  <2> QED BY <1>3, <1>4, <1>5, <2>1 DEF FeedFailed
<1>6. CASE OpenFailed
  <2>1. Loop \in PastGate
    BY <1>6 DEF OpenFailed, At, PastGate, Thread, StepsSound, StepSound
  <2>2. Len(hits') <= Len(hits) + 1
    BY <1>0, <1>4, <1>6 DEF OpenFailed, windowVars
  <2> QED BY <1>3, <1>6, <2>1, <2>2 DEF OpenFailed
<1>7. CASE Tick
  <2>1. PastGate' = PastGate
    BY <1>7 DEF Tick, PastGate
  <2> QED BY <1>2, <1>7, <2>1, Aged
<1>8. CASE UNCHANGED windowVars
  <2>1. \/ Allowed
        \/ PastGate' \subseteq PastGate
    <3> SUFFICES ASSUME ~ Allowed, NEW u \in Thread, req'[u] # None, req'[u].op \in {"feed", "open"}
                 PROVE  req[u] # None /\ req[u].op \in {"feed", "open"}
      BY DEF PastGate
    <3>1. CASE Stays(u)
      <4>1. req[u] \in Request
        BY <3>1 DEF Stays, At, TypeOK
      <4>2. req[u] # None /\ req'[u].op = req[u].op
        BY <3>1, <4>1 DEF Stays, At, Request
      <4> QED BY <4>2
    <3>2. CASE Asks(u)
      <4>1. ~ \E k \in Token : AskFeed(u, k) \/ AskByToken(k)
        BY DEF AskFeed, AskByToken
      <4> QED BY <3>2, <4>1, Begun DEF Asks, AskMint, AskById
    <3>3. CASE GoesOn(u)
      BY <3>3, OpKept
    <3> QED BY <3>1, <3>2, <3>3, RequestSteps
  <2>2. Len(hits') = Len(hits)
    BY <1>8 DEF windowVars
  <2> QED BY <1>0, <1>1, <1>2, <1>8, <2>1, <2>2
<1> QED BY <1>5, <1>6, <1>7, <1>8, WindowSteps

-----------------------------------------------------------------------------
(* The invariant, and the theorems. *)
LEMMA InvStep == IInv /\ [Next]_vars => IInv'
<1> SUFFICES ASSUME IInv, [Next]_vars PROVE IInv'
  OBVIOUS
<1> USE DEF IInv
<1>1. TypeOK'
  BY TypeStep
<1>2. RowMoves /\ RowsSound'
  BY RowSteps
<1>3. StepsSound'
  BY StepsStep
<1>4. SessionsSound'
  BY <1>1, <1>2, SessionsStep
<1>5. StoresSound'
  BY <1>1, <1>2, StoresStep
<1>6. TablesAgree' /\ StoreBounded'
  BY <1>1, <1>2, TablesStep
<1>7. HitsSound' /\ CountedOnce'
  BY WindowStep
<1>8. BudgetKept'
  BY <1>1, BudgetStep
<1> QED BY <1>1, <1>2, <1>3, <1>4, <1>5, <1>6, <1>7, <1>8

(* IInv is an invariant of the specification. *)
LEMMA Invariant == Spec => []IInv
BY InitInv, InvStep, PTL DEF Spec

(* The variables have their types. *)
THEOREM TypeCorrect == Spec => []TypeOK
<1>1. IInv => TypeOK
  BY DEF IInv
<1> QED BY <1>1, Invariant, PTL

(* The two tables of the XMLA session store (xmla/state.py) agree, and an    *)
(* XMLA session rides on the app session its token was minted for.           *)
THEOREM TablesCorrect == Spec => []TablesAgree
<1>1. IInv => TablesAgree
  BY DEF IInv
<1> QED BY <1>1, Invariant, PTL

(* The store of XMLA sessions is never larger than MAX_SESSIONS and the one  *)
(* inserted last.                                                            *)
THEOREM StoreBoundedCorrect == Spec => []StoreBounded
<1>1. IInv => StoreBounded
  BY DEF IInv
<1> QED BY <1>1, Invariant, PTL

(* The window (auth/throttle.py) never has more failures than the limit and  *)
(* the attempts that may have passed `allowed` at the same time.             *)
THEOREM BudgetCorrect == Spec => []BudgetHolds
<1>1. IInv => BudgetHolds
  <2> SUFFICES ASSUME IInv PROVE BudgetHolds
    OBVIOUS
  <2>1. PastGate \in SUBSET Thread /\ Len(hits) \in Nat
    BY LenProperties DEF PastGate, IInv, TypeOK
  <2> QED BY <2>1, ThreadFinite, NumberAssumption DEF IInv, BudgetKept, BudgetHolds
<1> QED BY <1>1, Invariant, PTL

(* A rejected password is counted once per window by the XMLA endpoint.      *)
THEOREM CountedOnceCorrect == Spec => []CountedOnce
<1>1. IInv => CountedOnce
  BY DEF IInv
<1> QED BY <1>1, Invariant, PTL

(* Who is rejected has no valid password, whatever else goes on.             *)
THEOREM RejectionsCorrect == Spec => []RejectionsDeserved
<1>1. IInv => RejectionsDeserved
  <2> SUFFICES ASSUME IInv, NEW t \in Thread, Rejected(t), NEW s \in live,
                      req[t].k \in Token, hash[s] = req[t].k, minted[s] < TokenTTL
               PROVE  FALSE
    BY DEF RejectionsDeserved, Valid
  <2>1. SessionSound(req[t]) /\ req[t].at \in {"refused", "fault"} /\ req[t].k # None
    BY SetAssumption DEF IInv, SessionsSound, Rejected, At
  <2>2. s \in Session /\ minted[s] \in Int
    BY DEF IInv, TypeOK, Age
  <2>3. minted[s] >= TokenTTL
    BY <2>1, <2>2 DEF SessionSound, Dead, TokenExpired
  <2> QED BY <2>2, <2>3, NumberAssumption
<1> QED BY <1>1, Invariant, PTL

(* A row of an app session is dropped (auth/sessions.py) by a logout, because*)
(* it has not been used for the whole TTL, or by a request that found it so  *)
(* before another one touched it.                                            *)
THEOREM UsedIsKeptCorrect == Spec => UsedIsKept
<1> DEFINE Kept1(s) == s \in live /\ s \notin live' =>
         \/ Logout(s)
         \/ seen[s] > SessionTTL
         \/ \E t \in Thread : At(t, "drop") /\ req[t].s = s /\ req[t].raced
           A == \A s \in Session : Kept1(s)
<1>1. IInv /\ [Next]_vars => [A]_vars
  <2> SUFFICES ASSUME IInv, Next, NEW s \in Session, s \in live, s \notin live'
               PROVE  Kept1(s)
    OBVIOUS
  <2>1. ASSUME NEW u \in Session, Logout(u) PROVE Kept1(s)
    BY <2>1 DEF Logout, DropRows
  <2>2. CASE Purge
    BY <2>2 DEF Purge, DropRows, Expired
  <2>3. ASSUME NEW t \in Thread, Drop(t) PROVE Kept1(s)
    <3>1. req[t].s = s /\ At(t, "drop") /\ SessionSound(req[t])
      BY <2>3 DEF Drop, DropRows, At, IInv, SessionsSound
    <3> QED BY <3>1 DEF SessionSound, At, Expired
  <2>4. ASSUME NEW t \in Thread, Work(t), ~ Drop(t) PROVE UNCHANGED live
    BY <2>4 DEF Work, Resolve, Visit, Vanished, Touch, Touched, Mint, Fault, rowVars
  <2>5. ASSUME NEW k \in Token, AskByToken(k) PROVE UNCHANGED live
    BY <2>5 DEF AskByToken, rowVars
  <2>6. CASE OpenSession \/ OpenAndEnd
    BY <2>6 DEF OpenSession, OpenAndEnd, Touched
  <2> HIDE DEF Kept1
  <2> QED
    BY <2>1, <2>2, <2>3, <2>4, <2>5, <2>6
    DEF Next, vars, rowVars, Thread, SignIn, AskMint, AskFeed, FeedFailed, AskById, EndSession,
        OpenFailed, Throttled, Tick
<1>2. Spec => [][A]_vars
  BY <1>1, Invariant, PTL DEF Spec
<1> QED BY <1>2 DEF UsedIsKept

-------------------------------------------------------------------------------
(* From here on, module Pivot.  First: numbers and finite sets.              *)

(* Every nonempty set of numbers has a least one.                            *)
LEMMA LeastNat ==
  ASSUME NEW S \in SUBSET Nat, S # {}
  PROVE  \E n \in S : \A m \in S : n <= m
<1> DEFINE F == {0..n : n \in S}
<1>1. F \in SUBSET FiniteSubsetsOf(Nat)
  <2> SUFFICES ASSUME NEW n \in S PROVE 0..n \in FiniteSubsetsOf(Nat)
    OBVIOUS
  <2> QED BY FS_Interval DEF FiniteSubsetsOf
<1>2. F # {}
  OBVIOUS
<1> HIDE DEF F
<1>3. PICK I \in F : \A J \in F : ~ (<<J, I>> \in StrictSubsetOrdering(Nat))
  BY <1>1, <1>2, WFMin, FS_StrictSubsetOrderingWellFounded
<1>4. PICK n \in S : I = 0..n
  BY <1>3 DEF F
<1>5. ASSUME NEW m \in S, ~ (n <= m) PROVE FALSE
  <2>1. 0..m \subseteq 0..n /\ 0..m # 0..n
    BY <1>5
  <2>2. 0..m \in F /\ 0..m \in SUBSET Nat /\ 0..n \in SUBSET Nat
    BY DEF F
  <2> QED BY <1>3, <1>4, <2>1, <2>2 DEF StrictSubsetOrdering
<1> QED BY <1>5

(* Induction, over a set of numbers.                                         *)
LEMMA Induction ==
  ASSUME NEW T, 0 \in T, \A n \in Nat : n \in T => n + 1 \in T
  PROVE  Nat \subseteq T
<1> SUFFICES ASSUME Nat \ T # {} PROVE FALSE
  OBVIOUS
<1>1. PICK n \in Nat \ T : \A m \in Nat \ T : n <= m
  BY LeastNat
<1>2. n # 0 /\ n - 1 \in Nat /\ n - 1 \notin Nat \ T
  BY <1>1
<1> QED BY <1>1, <1>2

-----------------------------------------------------------------------------

(* The loops of the engine: each starts with something and goes on step by   *)
(* step.                                                                     *)

(* A recursive function of rounds makes them one after the other.            *)
LEMMA LoopSteps ==
  ASSUME NEW how, NEW a, NEW b, NEW c, NEW n \in Nat, NEW g, Repeat(how, a, b, c, n, g)
  PROVE  Steps(how, a, b, c, n, g)
<1>1. g = [k \in 0..n |-> IF k = 0 THEN Start(how, a, b, c) ELSE Put(how, a, b, g[k - 1], k)]
  BY DEF Repeat
<1>2. \A k \in 0..n : g[k] = IF k = 0 THEN Start(how, a, b, c) ELSE Put(how, a, b, g[k - 1], k)
  BY <1>1, Zenon
<1>3. 0 \in 0..n /\ \A k \in 1..n : k \in 0..n /\ k # 0
  OBVIOUS
<1> QED BY <1>2, <1>3 DEF Steps

(* There is such a function.                                                 *)
LEMMA LoopExists ==
  ASSUME NEW how, NEW a, NEW b, NEW c, NEW n \in Nat
  PROVE  \E g : Repeat(how, a, b, c, n, g)
<1> DEFINE T == {m \in Nat : \E g : Repeat(how, a, b, c, m, g)}
<1>1. 0 \in T
  <2>1. Repeat(how, a, b, c, 0, [k \in 0..0 |-> Start(how, a, b, c)])
    BY DEF Repeat
  <2> QED BY <2>1
<1>2. ASSUME NEW m \in Nat, m \in T PROVE m + 1 \in T
  <2>1. PICK g : Repeat(how, a, b, c, m, g)
    BY <1>2
  <2> DEFINE last == Put(how, a, b, g[m], m + 1)
             more == [k \in 0..(m + 1) |-> IF k = m + 1 THEN last ELSE g[k]]
             then == [k \in 0..(m + 1) |-> IF k = 0 THEN Start(how, a, b, c) ELSE Put(how, a, b, more[k - 1], k)]
  <2>2. \A k \in 0..m : g[k] = IF k = 0 THEN Start(how, a, b, c) ELSE Put(how, a, b, g[k - 1], k)
    BY <2>1, Zenon DEF Repeat
  <2>3. ASSUME NEW k \in 0..(m + 1)
        PROVE  more[k] = IF k = 0 THEN Start(how, a, b, c) ELSE Put(how, a, b, more[k - 1], k)
    <3>1. CASE k = m + 1
      <4>1. k # 0 /\ k - 1 = m /\ m \in 0..(m + 1) /\ m # m + 1
        BY <3>1
      <4>2. more[k] = last /\ more[k - 1] = g[m]
        <5> HIDE DEF last
        <5> QED BY <3>1, <4>1
      <4> HIDE DEF more
      <4> QED BY <3>1, <4>1, <4>2
    <3>2. CASE k # m + 1
      <4>1. k \in 0..m /\ (k # 0 => k - 1 \in 0..(m + 1) /\ k - 1 # m + 1)
        BY <3>2
      <4>2. more[k] = g[k] /\ (k # 0 => more[k - 1] = g[k - 1])
        <5> HIDE DEF last
        <5> QED BY <3>2, <4>1
      <4> HIDE DEF more
      <4> QED BY <2>2, <4>1, <4>2
    <3> QED BY <3>1, <3>2
  <2>4. more = then
    <3>1. more = [k \in 0..(m + 1) |-> more[k]]
      OBVIOUS
    <3> HIDE DEF more
    <3> QED BY <2>3, <3>1, Zenon
  <2>5. Repeat(how, a, b, c, m + 1, more)
    <3> HIDE DEF more
    <3> QED BY <2>4 DEF Repeat
  <2> HIDE DEF more
  <2> QED BY <2>5
<1> HIDE DEF T
<1>3. Nat \subseteq T
  BY <1>1, <1>2, Induction
<1> QED BY <1>3 DEF T

(* The loops of the model end where their rounds lead.                       *)
LEMMA LoopRuns ==
  ASSUME NEW how, NEW a, NEW b, NEW c, NEW n \in Nat
  PROVE  \E g : Steps(how, a, b, c, n, g) /\ LoopEnd(how, a, b, c, n) = g[n]
<1>1. PICK g : Repeat(how, a, b, c, n, g) /\ g = CHOOSE h : Repeat(how, a, b, c, n, h)
  BY LoopExists, Zenon
<1>2. Steps(how, a, b, c, n, g)
  BY <1>1, LoopSteps
<1>3. LoopEnd(how, a, b, c, n) = g[n]
  BY <1>1, Zenon DEF LoopEnd
<1> QED BY <1>2, <1>3

(* walk opens the containers of its sets Depth times.                        *)
LEMMA WalkLoop ==
  ASSUME NEW entries
  PROVE  \E g : /\ g[0] = entries /\ walk(entries) = g[Depth]
                /\ \A n \in 1..Depth : g[n] = Opened(g[n - 1])
<1>1. walk(entries) = LoopEnd("walk", entries, 0, 0, Depth)
  BY DEF walk, LoopEnd, Repeat, Start, Put
<1>2. PICK g : Steps("walk", entries, 0, 0, Depth, g) /\ LoopEnd("walk", entries, 0, 0, Depth) = g[Depth]
  BY LoopRuns, DepthInNat
<1> QED BY <1>1, <1>2 DEF Steps, Start, Put

(* What is classified is made by applying the moves in their order.          *)
LEMMA MadeLoop ==
  ASSUME NEW moves, Len(moves) \in Nat
  PROVE  \E g : /\ g[0] = Unspecified /\ Made(moves) = g[Len(moves)]
                /\ \A n \in 1..Len(moves) : g[n] = Apply(g[n - 1], moves[n])
<1>1. Made(moves) = LoopEnd("made", moves, 0, 0, Len(moves))
  BY DEF Made, LoopEnd, Repeat, Start, Put
<1>2. PICK g : Steps("made", moves, 0, 0, Len(moves), g) /\ LoopEnd("made", moves, 0, 0, Len(moves)) = g[Len(moves)]
  BY LoopRuns
<1> QED BY <1>1, <1>2 DEF Steps, Start, Put

(* A descent goes one level deeper per round, as often as the hierarchy has  *)
(* levels.                                                                   *)
LEMMA DescendLoop ==
  ASSUME NEW rows, NEW spec, NEW prefix, Len(spec.hier) \in Nat
  PROVE  \E g : Descends(rows, spec, prefix, g)
<1>1. Descend(rows, spec, prefix) =
        LET found == LoopEnd("deeper", rows, spec, prefix, Len(spec.hier)) IN
        [i \in 1..(Len(found) - 1) |-> found[i + 1].key]
  BY DEF Descend, LoopEnd, Repeat, Start, Put
<1>2. PICK g : Steps("deeper", rows, spec, prefix, Len(spec.hier), g) /\ LoopEnd("deeper", rows, spec, prefix, Len(spec.hier)) = g[Len(spec.hier)]
  BY LoopRuns
<1> QED BY SMTT(60), <1>1, <1>2 DEF Steps, Start, Put, Descends

(* The drilled paths that no shown key leads to are added one after the      *)
(* other, shortest first.                                                    *)
LEMMA HiddenLoop ==
  ASSUME NEW rows, NEW spec, Len(ByLength(spec)) \in Nat
  PROVE  \E g : /\ g[0] = ShownKeys(rows, spec)
                /\ \A n \in 1..Len(ByLength(spec)) :
                     g[n] = WithHidden(rows, spec, g[n - 1], ByLength(spec)[n])
                /\ AllKeys(rows, spec) = g[Len(ByLength(spec))]
<1>1. AllKeys(rows, spec) = LoopEnd("hidden", rows, spec, 0, Len(ByLength(spec)))
  BY DEF AllKeys, LoopEnd, Repeat, Start, Put
<1>2. PICK g : /\ Steps("hidden", rows, spec, 0, Len(ByLength(spec)), g)
               /\ LoopEnd("hidden", rows, spec, 0, Len(ByLength(spec))) = g[Len(ByLength(spec))]
  BY LoopRuns
<1> QED BY <1>1, <1>2 DEF Steps, Start, Put

(* Sequences.                                                                *)

(* Such a function is a sequence.                                            *)
LEMMA ListIs ==
  ASSUME NEW S, NEW n \in Nat, NEW f, Lists(f, n, S)
  PROVE  f \in Seq(S) /\ Len(f) = n /\ DOMAIN f = 1..n
<1>1. f \in [1..n -> S]
  BY DEF Lists
<1>2. f \in Seq(S)
  BY <1>1
<1> QED BY <1>1, <1>2

(* What a sequence is as a function.                                         *)
LEMMA InSeq ==
  ASSUME NEW S, NEW s \in Seq(S)
  PROVE  /\ DOMAIN s = 1..Len(s) /\ Len(s) \in Nat
         /\ ToSet(s) = {s[i] : i \in 1..Len(s)} /\ ToSet(s) \subseteq S
         /\ s \in [1..Len(s) -> S]
  BY DEF ToSet

(* Sequences of one length with the same elements are the same.              *)
LEMMA SameSeq ==
  ASSUME NEW S, NEW s \in Seq(S), NEW t \in Seq(S), Len(s) = Len(t)
  PROVE  s = t <=> \A i \in 1..Len(s) : s[i] = t[i]
  OBVIOUS

(* The elements of two sequences put together.                               *)
LEMMA ConcatSet ==
  ASSUME NEW S, NEW a \in Seq(S), NEW b \in Seq(S)
  PROVE  a \o b \in Seq(S) /\ ToSet(a \o b) = ToSet(a) \cup ToSet(b)
<1> DEFINE c == a \o b
<1>1. /\ c \in Seq(S) /\ Len(c) = Len(a) + Len(b)
      /\ \A i \in 1..Len(c) : c[i] = IF i <= Len(a) THEN a[i] ELSE b[i - Len(a)]
  BY ConcatProperties
<1>2. Len(a) \in Nat /\ Len(b) \in Nat
  OBVIOUS
<1> HIDE DEF c
<1>3. ASSUME NEW i \in 1..Len(c) PROVE c[i] \in ToSet(a) \cup ToSet(b)
  <2>1. CASE i <= Len(a)
    BY <1>1, <1>2, <2>1, InSeq
  <2>2. CASE ~ (i <= Len(a))
    BY <1>1, <1>2, <2>2, InSeq
  <2> QED BY <2>1, <2>2
<1>4. ASSUME NEW i \in 1..Len(a) PROVE a[i] \in ToSet(c)
  BY SMTT(60), <1>1, <1>2, InSeq
<1>5. ASSUME NEW i \in 1..Len(b) PROVE b[i] \in ToSet(c)
  <2>1. Len(a) + i \in 1..Len(c) /\ ~ (Len(a) + i <= Len(a)) /\ (Len(a) + i) - Len(a) = i
    BY <1>1, <1>2
  <2>2. c[Len(a) + i] = b[i]
    BY <1>1, <2>1
  <2>3. c[Len(a) + i] \in ToSet(c)
    BY <1>1, <2>1, InSeq
  <2> QED BY <2>2, <2>3
<1>6. ToSet(c) = {c[i] : i \in 1..Len(c)} /\ ToSet(a) = {a[i] : i \in 1..Len(a)} /\ ToSet(b) = {b[i] : i \in 1..Len(b)}
  BY <1>1, InSeq
<1>7. c \in Seq(S)
  BY <1>1
<1> HIDE DEF c
<1>8. ToSet(c) \subseteq ToSet(a) \cup ToSet(b)
  BY <1>3, <1>6
<1>9. ToSet(a) \subseteq ToSet(c)
  BY <1>4, <1>6
<1>10. ToSet(b) \subseteq ToSet(c)
  BY <1>5, <1>6
<1>11. ToSet(c) = ToSet(a) \cup ToSet(b)
  BY <1>8, <1>9, <1>10, Zenon
<1> QED BY <1>7, <1>11 DEF c

(* Sequences of one element and of none.                                     *)
LEMMA OneSet ==
  /\ \A x : ToSet(<<x>>) = {x}
  /\ ToSet(<<>>) = {}
  /\ \A S : \A x \in S : <<x>> \in Seq(S)
  /\ \A S : <<>> \in Seq(S)
  BY DEF ToSet

(* There is a function that does.                                            *)
LEMMA FlatExists ==
  ASSUME NEW rows, Len(rows) \in Nat
  PROVE  \E g : IsFlat(rows, g)
<1> DEFINE Good(m, g) == g = [i \in 1..m |-> IF i = 1 THEN rows[i] ELSE g[i - 1] \o rows[i]]
           T == {m \in Nat : \E g : Good(m, g)}
<1>1. 0 \in T
  <2> DEFINE g == [i \in 1..0 |-> rows[i]]
             then == [i \in 1..0 |-> IF i = 1 THEN rows[i] ELSE g[i - 1] \o rows[i]]
  <2>1. 1..0 = {}
    OBVIOUS
  <2>2. g = then
    BY <2>1
  <2> HIDE DEF g
  <2>3. Good(0, g)
    BY <2>2
  <2> QED BY <2>3
<1>2. ASSUME NEW m \in Nat, m \in T PROVE m + 1 \in T
  <2>1. PICK g : Good(m, g)
    BY <1>2
  <2> DEFINE last == IF m = 0 THEN rows[1] ELSE g[m] \o rows[m + 1]
             more == [k \in 1..(m + 1) |-> IF k = m + 1 THEN last ELSE g[k]]
             then == [k \in 1..(m + 1) |-> IF k = 1 THEN rows[k] ELSE more[k - 1] \o rows[k]]
  <2>2. \A k \in 1..m : g[k] = IF k = 1 THEN rows[k] ELSE g[k - 1] \o rows[k]
    BY <2>1, Zenon
  <2>3. ASSUME NEW k \in 1..(m + 1)
        PROVE  more[k] = IF k = 1 THEN rows[k] ELSE more[k - 1] \o rows[k]
    <3>1. CASE k = m + 1
      <4>1. k = 1 <=> m = 0
        BY <3>1
      <4>2. more[k] = last
        <5> HIDE DEF last
        <5> QED BY <3>1
      <4>3. m # 0 => more[k - 1] = g[m]
        <5>1. m # 0 => k - 1 = m /\ m \in 1..(m + 1) /\ m # m + 1
          BY <3>1
        <5> HIDE DEF last
        <5> QED BY <3>1, <5>1
      <4> HIDE DEF more
      <4> QED BY <3>1, <4>1, <4>2, <4>3
    <3>2. CASE k # m + 1
      <4>1. k \in 1..m /\ (k # 1 => k - 1 \in 1..(m + 1) /\ k - 1 # m + 1)
        BY <3>2
      <4>2. more[k] = g[k] /\ (k # 1 => more[k - 1] = g[k - 1])
        <5> HIDE DEF last
        <5> QED BY <3>2, <4>1
      <4> HIDE DEF more
      <4> QED BY <2>2, <4>1, <4>2
    <3> QED BY <3>1, <3>2
  <2>4. more = then
    <3>1. more = [k \in 1..(m + 1) |-> more[k]]
      OBVIOUS
    <3> HIDE DEF more
    <3> QED BY <2>3, <3>1, Zenon
  <2>5. Good(m + 1, more)
    <3> HIDE DEF more
    <3> QED BY <2>4
  <2> HIDE DEF more, Good
  <2> QED BY <2>5
<1> HIDE DEF T
<1>3. Nat \subseteq T
  BY <1>1, <1>2, Induction
<1> QED BY <1>3 DEF T, IsFlat

(* Flattening adds one row per round.                                        *)
LEMMA FlatSteps ==
  ASSUME NEW rows, NEW n \in Nat, n # 0, Len(rows) = n
  PROVE  \E g : FlatBy(rows, n, g)
<1>1. PICK g : IsFlat(rows, g) /\ g = CHOOSE h : IsFlat(rows, h)
  BY FlatExists, Zenon
<1>2. FlattenSeq(rows) = g[n]
  BY <1>1 DEF FlattenSeq, IsFlat
<1>3. \A k \in 1..Len(rows) : g[k] = IF k = 1 THEN rows[k] ELSE g[k - 1] \o rows[k]
  BY <1>1, Zenon DEF IsFlat
<1> QED BY <1>2, <1>3 DEF FlatBy

(* A flattened sequence of sequences has the elements of all of them.        *)
LEMMA FlatIs ==
  ASSUME NEW S, NEW n \in Nat, NEW rows, Lists(rows, n, Seq(S))
  PROVE  FlattenSeq(rows) \in Seq(S) /\ ToSet(FlattenSeq(rows)) = Joined(rows, n)
<1>1. rows \in Seq(Seq(S)) /\ Len(rows) = n /\ rows \in [1..n -> Seq(S)]
  BY ListIs DEF Lists
<1>2. CASE n = 0
  BY <1>1, <1>2, OneSet DEF FlattenSeq, Joined
<1>3. CASE n # 0
  <2>0. PICK g : FlatBy(rows, n, g)
    BY <1>1, <1>3, FlatSteps
  <2>1. /\ FlattenSeq(rows) = g[n]
        /\ \A k \in 1..n : g[k] = IF k = 1 THEN rows[k] ELSE g[k - 1] \o rows[k]
    BY <2>0 DEF FlatBy
  <2> DEFINE So(j) == g[j] \in Seq(S) /\ ToSet(g[j]) = Joined(rows, j)
             T == {j \in Nat : j + 1 <= n => So(j + 1)}
  <2>2. 0 \in T
    BY <1>3, <1>1, <2>1 DEF Joined
  <2>3. ASSUME NEW j \in Nat, j \in T PROVE j + 1 \in T
    <3> SUFFICES ASSUME (j + 1) + 1 <= n PROVE So((j + 1) + 1)
      OBVIOUS
    <3> DEFINE k == j + 1
    <3>1. k \in Nat /\ k <= n /\ k + 1 \in 1..n /\ k + 1 # 1 /\ (k + 1) - 1 = k
      OBVIOUS
    <3>2. So(k)
      BY <2>3, <3>1
    <3> HIDE DEF k
    <3>3. g[k + 1] = g[k] \o rows[k + 1]
      BY <2>1, <3>1
    <3>4. rows[k + 1] \in Seq(S)
      BY <1>1, <3>1
    <3>5. g[k + 1] \in Seq(S) /\ ToSet(g[k + 1]) = ToSet(g[k]) \cup ToSet(rows[k + 1])
      BY <3>2, <3>3, <3>4, ConcatSet
    <3>6. \A i \in 1..(k + 1) : i \in 1..k \/ i = k + 1
      BY <3>1
    <3>7. k + 1 \in 1..(k + 1) /\ 1..k \subseteq 1..(k + 1)
      BY <3>1
    <3>8. Joined(rows, k + 1) = Joined(rows, k) \cup ToSet(rows[k + 1])
      BY <3>6, <3>7 DEF Joined
    <3> QED BY <3>2, <3>5, <3>8 DEF k
  <2> HIDE DEF T
  <2>4. Nat \subseteq T
    BY <2>2, <2>3, Induction
  <2> HIDE DEF So
  <2>5. So(n)
    BY <1>3, <2>4 DEF T
  <2> QED BY <2>1, <2>5 DEF So
<1> QED BY <1>2, <1>3

(* One by one: nothing changes.                                              *)
LEMMA FlatSame ==
  ASSUME NEW S, NEW s \in Seq(S), NEW rows, rows = [i \in DOMAIN s |-> <<s[i]>>]
  PROVE  FlattenSeq(rows) = s
<1> DEFINE n == Len(s)
<1>0. n \in Nat /\ DOMAIN s = 1..n
  OBVIOUS
<1>1. Lists(rows, n, Seq(S))
  BY <1>0 DEF Lists
<1>a. \A k \in 1..n : rows[k] = <<s[k]>>
  BY <1>0
<1> HIDE DEF n
<1>2. rows \in Seq(Seq(S)) /\ Len(rows) = n
  BY <1>0, <1>1, ListIs
<1>3. CASE n = 0
  BY <1>0, <1>2, <1>3 DEF n, FlattenSeq
<1>4. CASE n # 0
  <2>0. PICK g : FlatBy(rows, n, g)
    BY <1>0, <1>2, <1>4, FlatSteps
  <2>1. /\ FlattenSeq(rows) = g[n]
        /\ \A k \in 1..n : g[k] = IF k = 1 THEN rows[k] ELSE g[k - 1] \o rows[k]
    BY <2>0 DEF FlatBy
  <2> DEFINE So(j) == g[j] \in Seq(S) /\ Len(g[j]) = j /\ \A i \in 1..j : g[j][i] = s[i]
             T == {j \in Nat : j + 1 <= n => So(j + 1)}
  <2>2. 0 \in T
    <3> SUFFICES So(1)
      OBVIOUS
    <3>1. 1 \in 1..n /\ 1..1 = {1}
      BY <1>0, <1>4
    <3>2. g[1] = <<s[1]>>
      BY <1>a, <2>1, <3>1
    <3>3. s[1] \in S
      BY <1>0, <3>1
    <3> QED BY <3>1, <3>2, <3>3
  <2>3. ASSUME NEW j \in Nat, j \in T PROVE j + 1 \in T
    <3> SUFFICES ASSUME (j + 1) + 1 <= n PROVE So((j + 1) + 1)
      OBVIOUS
    <3> DEFINE k == j + 1
    <3>1. k \in Nat /\ k <= n /\ k + 1 \in 1..n /\ k + 1 # 1 /\ (k + 1) - 1 = k
      BY <1>0
    <3>2. So(k)
      BY <2>3, <3>1
    <3> HIDE DEF k
    <3>3. g[k + 1] = g[k] \o <<s[k + 1]>>
      BY <1>a, <2>1, <3>1
    <3>4. s[k + 1] \in S
      BY <1>0, <3>1
    <3> DEFINE a == g[k]
               b == <<s[k + 1]>>
    <3>5. a \in Seq(S) /\ b \in Seq(S) /\ Len(a) = k /\ Len(b) = 1 /\ b[1] = s[k + 1]
      BY <3>2, <3>4
    <3> HIDE DEF a, b
    <3>a. Append(a, s[k + 1]) = a \o b
      BY <3>4, <3>5, AppendIsConcat DEF b
    <3>6. /\ a \o b \in Seq(S) /\ Len(a \o b) = k + 1
          /\ \A i \in 1..(k + 1) : (a \o b)[i] = IF i <= k THEN a[i] ELSE b[i - k]
      BY <3>1, <3>4, <3>5, <3>a, AppendProperties
    <3>7. ASSUME NEW i \in 1..(k + 1) PROVE (a \o b)[i] = s[i]
      <4>1. CASE i <= k
        BY <3>1, <3>2, <3>6, <4>1 DEF a
      <4>2. CASE ~ (i <= k)
        BY <3>1, <4>2, <3>5, <3>6
      <4> QED BY <4>1, <4>2
    <3>8. So(k + 1)
      BY <3>3, <3>6, <3>7 DEF a, b
    <3> QED BY <3>8 DEF k
  <2> HIDE DEF T
  <2>4. Nat \subseteq T
    BY <2>2, <2>3, Induction
  <2> HIDE DEF So
  <2>5. So(n)
    <3>1. n - 1 \in Nat /\ (n - 1) + 1 = n /\ n <= n
      BY <1>0, <1>4
    <3>2. n - 1 \in T
      BY <2>4, <3>1
    <3>3. (n - 1) + 1 <= n => So((n - 1) + 1)
      BY <3>2 DEF T
    <3> QED BY <3>1, <3>3
  <2> DEFINE w == g[n]
  <2>6. w \in Seq(S) /\ Len(w) = n /\ \A i \in 1..n : w[i] = s[i]
    BY <2>5 DEF So
  <2> HIDE DEF w
  <2>7. w = s
    BY <1>0, <2>6, SeqEqual DEF n
  <2> QED BY <2>1, <2>7 DEF w
<1> QED BY <1>3, <1>4

(* The order of keys, and what is put in order.                              *)

(* Values are in a strict total order, NULL last.                            *)
LEMMA LessOrder ==
  /\ \A v \in Int : ~ Less(v, v)
  /\ \A u, v, w \in Int : Less(u, v) /\ Less(v, w) => Less(u, w)
  /\ \A v, w \in Int : v # w => Less(v, w) \/ Less(w, v)
  BY DEF Less, Null

(* A key comes before another by the first level at which they differ.       *)
LEMMA BeforeIs ==
  ASSUME NEW n \in Nat, NEW a \in Keys(n), NEW b
  PROVE  Before(a, b) <=> \E i \in 1..n : FirstAt(a, b, i)
<1>1. DOMAIN a = 1..n
  BY DEF Keys
<1> QED BY <1>1 DEF Before, FirstAt

(* The levels of a key are values.                                           *)
LEMMA KeyIn == \A n : \A a \in Keys(n) : \A i \in 1..n : a[i] \in Int
  BY DEF Keys

(* No key comes before itself.                                               *)
LEMMA BeforeIrreflexive ==
  ASSUME NEW n \in Nat, NEW a \in Keys(n)
  PROVE  ~ Before(a, a)
<1> SUFFICES ASSUME NEW i \in 1..n, FirstAt(a, a, i) PROVE FALSE
  BY BeforeIs
<1> QED BY LessOrder, KeyIn DEF FirstAt

(* The order of keys is transitive.                                          *)
LEMMA BeforeTransitive ==
  ASSUME NEW n \in Nat, NEW a \in Keys(n), NEW b \in Keys(n), NEW c \in Keys(n),
         Before(a, b), Before(b, c)
  PROVE  Before(a, c)
<1>1. PICK k \in 1..n : FirstAt(a, b, k)
  BY BeforeIs
<1>2. PICK l \in 1..n : FirstAt(b, c, l)
  BY BeforeIs
<1>3. /\ a[k] \in Int /\ b[k] \in Int /\ c[k] \in Int
      /\ a[l] \in Int /\ b[l] \in Int /\ c[l] \in Int
  BY KeyIn
<1>4. CASE k = l
  BY <1>1, <1>2, <1>3, <1>4, LessOrder, BeforeIs DEF FirstAt
<1>5. CASE k < l
  BY <1>2, <1>5, <1>1, BeforeIs DEF FirstAt
<1>6. CASE l < k
  BY <1>1, <1>6, <1>2, BeforeIs DEF FirstAt
<1> QED BY <1>4, <1>5, <1>6

(* Of two keys of one length one comes first.                                *)
LEMMA BeforeTotal ==
  ASSUME NEW n \in Nat, NEW a \in Keys(n), NEW b \in Keys(n), a # b
  PROVE  Before(a, b) \/ Before(b, a)
<1> DEFINE K == {k \in 1..n : a[k] # b[k]}
<1>1. K # {}
  BY DEF Keys
<1>2. PICK k \in K : \A l \in K : k <= l
  <2>1. K \in SUBSET Nat
    OBVIOUS
  <2> HIDE DEF K
  <2> QED BY <1>1, <2>1, LeastNat
<1>3. \A j \in 1..(k - 1) : a[j] = b[j]
  BY <1>2
<1>4. Less(a[k], b[k]) \/ Less(b[k], a[k])
  BY <1>2, LessOrder, KeyIn
<1>5. FirstAt(a, b, k) \/ FirstAt(b, a, k)
  BY <1>3, <1>4 DEF FirstAt
<1>6. k \in 1..n
  BY <1>2
<1> QED BY <1>5, <1>6, BeforeIs

(* A later key has a greater rank.                                           *)
LEMMA RankGrows ==
  ASSUME NEW n \in Nat, NEW keys \in SUBSET Keys(n), IsFiniteSet(keys),
         NEW x \in keys, NEW y \in keys, Before(x, y)
  PROVE  Rank(keys, x) < Rank(keys, y)
<1> DEFINE X == {z \in keys : Before(z, x)}
           Y == {z \in keys : Before(z, y)}
<1>1. X \subseteq Y
  BY BeforeTransitive
<1>2. x \in Y /\ x \notin X
  BY BeforeIrreflexive
<1>3. IsFiniteSet(X) /\ IsFiniteSet(Y)
  BY FS_Subset
<1> HIDE DEF X, Y
<1>4. /\ Cardinality(X) \in Nat /\ Cardinality(Y) \in Nat
      /\ Cardinality(X) <= Cardinality(Y) /\ Cardinality(X) # Cardinality(Y)
  BY <1>1, <1>2, <1>3, FS_Subset, FS_CardinalityType
<1> QED BY <1>4 DEF Rank, X, Y

(* Ranks are below the number of keys.                                       *)
LEMMA RankType ==
  ASSUME NEW n \in Nat, NEW keys \in SUBSET Keys(n), IsFiniteSet(keys), NEW x \in keys
  PROVE  Rank(keys, x) \in 0..(Cardinality(keys) - 1)
<1> DEFINE X == {z \in keys : Before(z, x)}
<1>1. X \subseteq keys /\ X # keys
  BY BeforeIrreflexive
<1> HIDE DEF X
<1>2. Cardinality(X) <= Cardinality(keys) /\ Cardinality(X) # Cardinality(keys)
  BY <1>1, FS_Subset
<1>3. Cardinality(X) \in Nat /\ Cardinality(keys) \in Nat
  BY <1>1, FS_Subset, FS_CardinalityType
<1> QED BY <1>2, <1>3 DEF Rank, X

(* Every number below is the rank of one key.                                *)
LEMMA RankOnto ==
  ASSUME NEW n \in Nat, NEW keys \in SUBSET Keys(n), IsFiniteSet(keys),
         NEW i \in 1..Cardinality(keys)
  PROVE  \E k \in keys : Rank(keys, k) = i - 1
<1> DEFINE m == Cardinality(keys)
           B == 0..(m - 1)
           f == [k \in keys |-> Rank(keys, k)]
           img == {f[k] : k \in keys}
<1>1. m \in Nat /\ IsFiniteSet(B) /\ Cardinality(B) = m
  <2>1. m \in Nat
    BY FS_CardinalityType
  <2> HIDE DEF m
  <2>2. 0 \in Int /\ m - 1 \in Int
    BY <2>1
  <2>3. IsFiniteSet(0..(m - 1)) /\ Cardinality(0..(m - 1)) = IF 0 > m - 1 THEN 0 ELSE (m - 1) - 0 + 1
    BY <2>2, FS_Interval
  <2> QED BY <2>1, <2>3
<1>2. \A k \in keys : f[k] \in B /\ f[k] = Rank(keys, k)
  BY RankType
<1>3. \A k, l \in keys : f[k] = f[l] => k = l
  <2> SUFFICES ASSUME NEW k \in keys, NEW l \in keys, Rank(keys, k) = Rank(keys, l), k # l PROVE FALSE
    BY <1>2
  <2>1. Before(k, l) \/ Before(l, k)
    BY BeforeTotal
  <2>2. Rank(keys, k) \in Int /\ Rank(keys, l) \in Int
    BY RankType
  <2> QED BY <2>1, <2>2, RankGrows
<1> HIDE DEF B
<1>4. f \in [keys -> B]
  BY <1>2
<1>5. f \in Injection(keys, B)
  BY <1>3, <1>4 DEF Injection, IsInjective
<1>6. img \subseteq B
  BY <1>2
<1>7. f \in Bijection(keys, img)
  <2>1. f \in [keys -> img]
    BY <1>4
  <2>2. \A t \in img : \E k \in keys : f[k] = t
    OBVIOUS
  <2> HIDE DEF f, img
  <2> QED BY <1>3, <2>1, <2>2 DEF Bijection, Injection, Surjection, IsInjective
<1>8. IsFiniteSet(img) /\ Cardinality(img) = m
  <2> HIDE DEF f, img
  <2> QED BY <1>7, FS_Bijection DEF m, ExistsBijection
<1> HIDE DEF img
<1>9. img = B
  BY <1>1, <1>6, <1>8, FS_Subset
<1>10. i - 1 \in img
  BY <1>1, <1>9 DEF B, m
<1> QED BY <1>2, <1>10 DEF img

(* Sorting a finite set of keys lists each of them once.                     *)
LEMMA SortedIs ==
  ASSUME NEW n \in Nat, NEW keys \in SUBSET Keys(n), IsFiniteSet(keys)
  PROVE  /\ Sorted(keys) \in Seq(keys) /\ Len(Sorted(keys)) = Cardinality(keys)
         /\ ToSet(Sorted(keys)) = keys
         /\ \A i, j \in DOMAIN Sorted(keys) : Sorted(keys)[i] = Sorted(keys)[j] => i = j
<1> DEFINE s == [i \in 1..Cardinality(keys) |-> CHOOSE k \in keys : Rank(keys, k) = i - 1]
<1>1. Sorted(keys) = s
  <2> DEFINE rank == [k \in keys |-> Rank(keys, k)]
  <2>1. Sorted(keys) = [i \in 1..Cardinality(keys) |-> CHOOSE k \in keys : rank[k] = i - 1]
    BY DEF Sorted, Rank
  <2>2. ASSUME NEW i \in 1..Cardinality(keys)
        PROVE  (CHOOSE k \in keys : rank[k] = i - 1) = (CHOOSE k \in keys : Rank(keys, k) = i - 1)
    <3>1. \A k \in keys : rank[k] = i - 1 <=> Rank(keys, k) = i - 1
      OBVIOUS
    <3> HIDE DEF rank
    <3> QED BY <3>1
  <2> QED BY <2>1, <2>2
<1>2. Cardinality(keys) \in Nat
  BY FS_CardinalityType
<1>3. \A i \in 1..Cardinality(keys) : s[i] \in keys /\ Rank(keys, s[i]) = i - 1
  <2> SUFFICES ASSUME NEW i \in 1..Cardinality(keys)
               PROVE  s[i] \in keys /\ Rank(keys, s[i]) = i - 1
    OBVIOUS
  <2>1. \E k \in keys : Rank(keys, k) = i - 1
    BY RankOnto
  <2>2. s[i] = CHOOSE k \in keys : Rank(keys, k) = i - 1
    OBVIOUS
  <2> HIDE DEF s
  <2> QED BY <2>1, <2>2
<1>4. DOMAIN s = 1..Cardinality(keys) /\ s = [i \in 1..Cardinality(keys) |-> s[i]]
  OBVIOUS
<1> HIDE DEF s
<1>5. Lists(s, Cardinality(keys), keys)
  BY <1>3, <1>4 DEF Lists
<1>6. s \in Seq(keys) /\ Len(s) = Cardinality(keys)
  BY <1>2, <1>5, ListIs
<1>7. ASSUME NEW k \in keys PROVE k \in ToSet(s)
  <2> DEFINE i == Rank(keys, k) + 1
  <2>1. Rank(keys, k) \in 0..(Cardinality(keys) - 1)
    BY RankType
  <2>2. i \in 1..Cardinality(keys) /\ i - 1 = Rank(keys, k)
    BY <1>2, <2>1
  <2> HIDE DEF i
  <2>3. s[i] \in keys /\ Rank(keys, s[i]) = Rank(keys, k)
    BY <1>3, <2>2
  <2>4. s[i] = k
    <3> SUFFICES ASSUME s[i] # k PROVE FALSE
      OBVIOUS
    <3>1. Before(s[i], k) \/ Before(k, s[i])
      BY <2>3, BeforeTotal
    <3>2. Rank(keys, k) \in Int
      BY <2>1
    <3>3. Rank(keys, s[i]) < Rank(keys, k) \/ Rank(keys, k) < Rank(keys, s[i])
      BY <2>3, <3>1, RankGrows
    <3> QED BY <2>3, <3>2, <3>3
  <2> QED BY <1>4, <2>2, <2>4 DEF ToSet
<1>8. ToSet(s) \subseteq keys
  BY <1>6, InSeq
<1>9. \A i, j \in DOMAIN s : s[i] = s[j] => i = j
  <2> SUFFICES ASSUME NEW i \in 1..Cardinality(keys), NEW j \in 1..Cardinality(keys), s[i] = s[j]
               PROVE  i = j
    BY <1>4
  <2>1. i - 1 = j - 1
    BY <1>3
  <2> QED BY <2>1
<1> QED BY <1>1, <1>6, <1>7, <1>8, <1>9

(* What the entries of a statement and their moves are.                      *)

(* The kinds of entries a set has.                                           *)
LEMMA EntryIs ==
  ASSUME NEW e \in Entry
  PROVE  /\ e.kind = "measure" => e \in [kind : {"measure"}, name : Nat \ {0}]
         /\ e.kind \in {"cross", "tuple", "except"} =>
              e \in [kind : {"cross", "tuple", "except"}, args : Seq(Entry)]
         /\ e.kind = "exists" => e \in [kind : {"exists"}, args : Seq(Entry), among : Seq(Entry)]
         /\ e.kind = "drillmember" =>
              e \in [kind : {"drillmember"}, args : Seq(Entry), drill : Seq(Entry),
                     target : Hierarchy \cup {<<>>}]
         /\ e.kind = "member" => e \in Refs
         /\ e.kind \in {"measure", "cross", "tuple", "except", "exists", "drillmember", "member"}
<1>1. EntryTyped(e)
  BY EntryAssumption
<1>2. e.kind = "member" /\ RefTyped(e) => e \in Refs
  BY DEF Refs, RefTyped
<1> QED BY <1>1, <1>2 DEF EntryTyped

(* A hierarchy is a sequence of different fields.                            *)
LEMMA HierIs ==
  ASSUME NEW h \in Hierarchy
  PROVE  /\ h \in Seq(Field) /\ Len(h) \in Nat \ {0} /\ DOMAIN h = 1..Len(h)
         /\ \A i \in 1..Len(h) : h[i] \in Field
         /\ \A i, j \in 1..Len(h) : h[i] = h[j] => i = j
<1>1. h \in Seq(Field) /\ h # <<>>
  BY HierarchyAssumption
<1>2. \A i, j \in DOMAIN h : h[i] = h[j] => i = j
  BY HierarchyAssumption DEF IsInjective
<1> QED BY <1>1, <1>2

(* A path that is named is a key.                                            *)
LEMMA PathIsKey == \A h \in Hierarchy : PathsIn(h) \subseteq KeysIn(h)
<1> SUFFICES ASSUME NEW h \in Hierarchy, NEW p \in PathsIn(h) PROVE p \in KeysIn(h)
  OBVIOUS
<1>1. p \in Seq(Value) /\ Len(p) \in 1..Len(h) /\ Len(h) \in Nat
  BY HierIs DEF PathsIn
<1>2. p \in Seq(Int)
  <2>1. Value \subseteq Int
    BY ValueAssumption
  <2>2. Seq(Value) \subseteq Seq(Int)
    BY <2>1, SeqMonotonic
  <2> QED BY <1>1, <2>2
<1> QED BY <1>1, <1>2 DEF KeysIn

(* What a reference holds.                                                   *)
LEMMA RefIs ==
  ASSUME NEW m \in Refs
  PROVE  /\ m.hier \in Hierarchy /\ m.rest \in KeysIn(m.hier) /\ m.kind = "member"
         /\ m.drilled \in BOOLEAN /\ m.suffix \in {"", "CHILDREN", "MEMBERS"}
         /\ ~ IsAll(m) /\ m.suffix # "MEMBERS" => m.rest \in PathsIn(m.hier)
         /\ m.rest # <<>> => Len(m.rest) # 0 /\ m.rest[1] \in Int
         /\ m \in MemberRef
<1>1. /\ m \in MemberRef
      /\ IsAll(m) \/ IF m.suffix = "MEMBERS" THEN \E i \in DOMAIN m.hier : m.rest = <<Level(i)>>
                     ELSE m.rest \in PathsIn(m.hier)
  BY DEF Refs, RefTyped
<1>2. /\ m.hier \in Hierarchy /\ m.rest \in Seq(Int) /\ m.kind = "member"
      /\ m.drilled \in BOOLEAN /\ m.suffix \in {"", "CHILDREN", "MEMBERS"}
  BY <1>1 DEF MemberRef
<1>3. Len(m.hier) \in Nat \ {0}
  BY <1>2, HierIs
<1> DEFINE r == m.rest
<1>a. Len(<<>>) = 0 /\ \A x : Len(<<x>>) = 1
  OBVIOUS
<1>4. IsAll(m) => Len(r) <= 1
  <2>1. IsAll(m) => r = <<>> \/ r = <<All>>
    BY DEF IsAll
  <2> HIDE DEF r
  <2>2. IsAll(m) => Len(r) = 0 \/ Len(r) = 1
    BY <1>a, <2>1, Zenon
  <2>3. \A x : x = 0 \/ x = 1 => x <= 1
    OBVIOUS
  <2> QED BY <2>2, <2>3
<1>5. ~ IsAll(m) => Len(r) \in 1..Len(m.hier)
  <2>1. CASE m.suffix = "MEMBERS" /\ ~ IsAll(m)
    <3>1. \E i \in DOMAIN m.hier : r = <<Level(i)>>
      BY <1>1, <2>1
    <3> HIDE DEF r
    <3>2. Len(r) = 1
      BY <1>a, <3>1
    <3> QED BY <1>3, <3>2
  <2>2. CASE m.suffix # "MEMBERS" /\ ~ IsAll(m)
    BY <1>1, <2>2 DEF PathsIn
  <2> QED BY <2>1, <2>2
<1>b. r \in Seq(Int) /\ Len(r) \in Nat
  <2>1. r \in Seq(Int)
    BY <1>2
  <2> HIDE DEF r
  <2> QED BY <2>1, LenProperties
<1> HIDE DEF r
<1>6. r \in KeysIn(m.hier)
  BY <1>3, <1>4, <1>5, <1>b DEF KeysIn
<1>7. r # <<>> => Len(r) # 0 /\ r[1] \in Int
  BY <1>b
<1> USE DEF r
<1> QED BY <1>1, <1>2, <1>6, <1>7

(* No named path holds NULL.                                                 *)
LEMMA NoNull ==
  ASSUME NEW m \in Refs, ~ IsAll(m)
  PROVE  Null \notin ToSet(m.rest)
<1>1. CASE m.suffix = "MEMBERS"
  <2>1. PICK i \in DOMAIN m.hier : m.rest = <<Level(i)>>
    BY <1>1 DEF Refs, RefTyped
  <2>2. i \in Nat
    <3>1. m.hier \in Hierarchy
      BY RefIs
    <3>2. DOMAIN m.hier = 1..Len(m.hier)
      BY <3>1, HierIs
    <3> QED BY <3>2
  <2>3. Level(i) # Null
    BY <2>2 DEF Level, Null
  <2>4. ToSet(m.rest) = {Level(i)}
    BY <2>1, OneSet
  <2> QED BY <2>3, <2>4
<1>2. CASE m.suffix # "MEMBERS"
  <2>1. m.rest \in Seq(Value)
    BY <1>2, RefIs DEF PathsIn
  <2>2. ToSet(m.rest) \subseteq Value
    BY <2>1, InSeq
  <2>3. Null \notin Value
    BY ValueAssumption DEF Null
  <2> QED BY <2>2, <2>3
<1> QED BY <1>1, <1>2

(* What a member is spelled is a key without NULL.                           *)
LEMMA SpelledIs ==
  ASSUME NEW m \in Refs
  PROVE  Spelled(m) \in Seq(Int) /\ Len(Spelled(m)) <= Len(m.hier) /\ Null \notin ToSet(Spelled(m))
<1>1. m.rest \in Seq(Int) /\ Len(m.rest) <= Len(m.hier) /\ Len(m.hier) \in Nat \ {0}
  BY RefIs, HierIs DEF KeysIn
<1>2. CASE m.rest = <<All>>
  <2>1. Spelled(m) = <<AllText>> /\ AllText \in Nat
    BY <1>2, ValueAssumption DEF Spelled
  <2> QED BY <1>1, <2>1, OneSet DEF Null
<1>3. CASE m.rest # <<All>>
  <2>1. Spelled(m) = m.rest
    BY <1>3 DEF Spelled
  <2>2. m.rest = <<>> => Null \notin ToSet(m.rest)
    BY OneSet
  <2>3. m.rest # <<>> => Null \notin ToSet(m.rest)
    BY <1>3, NoNull DEF IsAll
  <2> QED BY <1>1, <2>1, <2>2, <2>3
<1> QED BY <1>2, <1>3

(* Filters on sequences.                                                     *)

(* The named members of a drill set are references, and not to All.          *)
LEMMA NamedIs ==
  ASSUME NEW drill \in Seq(Entry)
  PROVE  /\ Named(drill) \in Seq({m \in Refs : m.rest # <<>>})
         /\ ToSet(Named(drill)) = {m \in ToSet(drill) : IsRef(m) /\ m.rest # <<>>}
<1> DEFINE S == {m \in Refs : m.rest # <<>>}
           n == Len(drill)
           rows == [i \in DOMAIN drill |->
                      IF IsRef(drill[i]) /\ drill[i].rest # <<>> THEN <<drill[i]>> ELSE <<>>]
<1>1. n \in Nat /\ DOMAIN drill = 1..n /\ \A i \in 1..n : drill[i] \in Entry
  OBVIOUS
<1>2. ASSUME NEW i \in 1..n
      PROVE  /\ rows[i] \in Seq(S)
             /\ ToSet(rows[i]) = IF IsRef(drill[i]) /\ drill[i].rest # <<>> THEN {drill[i]} ELSE {}
  <2>1. IsRef(drill[i]) => drill[i] \in Refs
    BY <1>1, EntryIs DEF IsRef
  <2>2. rows[i] = IF IsRef(drill[i]) /\ drill[i].rest # <<>> THEN <<drill[i]>> ELSE <<>>
    BY <1>1
  <2>3. IsRef(drill[i]) /\ drill[i].rest # <<>> => drill[i] \in S
    BY <2>1
  <2> HIDE DEF rows, S
  <2> QED BY <2>2, <2>3, OneSet
<1>3. Lists(rows, n, Seq(S))
  BY <1>1, <1>2 DEF Lists
<1>4. Named(drill) = FlattenSeq(rows)
  BY DEF Named
<1> HIDE DEF rows, S, n
<1>5. FlattenSeq(rows) \in Seq(S) /\ ToSet(FlattenSeq(rows)) = Joined(rows, n)
  BY <1>1, <1>3, FlatIs
<1>6. Joined(rows, n) = {m \in ToSet(drill) : IsRef(m) /\ m.rest # <<>>}
  <2>1. ToSet(drill) = {drill[i] : i \in 1..n}
    BY <1>1 DEF ToSet
  <2> QED BY ZenonT(60), <1>2, <2>1 DEF Joined
<1> QED BY <1>4, <1>5, <1>6 DEF S

(* References to user hierarchies and to attributes, apart.                  *)
LEMMA SplitIs ==
  ASSUME NEW S, NEW ms \in Seq(S)
  PROVE  /\ OfUser(ms) \in Seq(S) /\ OfAttribute(ms) \in Seq(S)
         /\ ToSet(OfUser(ms)) = {m \in ToSet(ms) : IsUser(m.hier)}
         /\ ToSet(OfAttribute(ms)) = {m \in ToSet(ms) : ~ IsUser(m.hier)}
<1> DEFINE n == Len(ms)
           us == [i \in DOMAIN ms |-> IF IsUser(ms[i].hier) THEN <<ms[i]>> ELSE <<>>]
           as == [i \in DOMAIN ms |-> IF IsUser(ms[i].hier) THEN <<>> ELSE <<ms[i]>>]
<1>1. n \in Nat /\ DOMAIN ms = 1..n /\ \A i \in 1..n : ms[i] \in S
  OBVIOUS
<1>2. ASSUME NEW i \in 1..n
      PROVE  /\ us[i] \in Seq(S) /\ as[i] \in Seq(S)
             /\ ToSet(us[i]) = IF IsUser(ms[i].hier) THEN {ms[i]} ELSE {}
             /\ ToSet(as[i]) = IF IsUser(ms[i].hier) THEN {} ELSE {ms[i]}
  <2>1. /\ us[i] = IF IsUser(ms[i].hier) THEN <<ms[i]>> ELSE <<>>
        /\ as[i] = IF IsUser(ms[i].hier) THEN <<>> ELSE <<ms[i]>>
    BY <1>1
  <2> HIDE DEF us, as
  <2> QED BY <1>1, <2>1, OneSet
<1>3. Lists(us, n, Seq(S)) /\ Lists(as, n, Seq(S))
  BY <1>1, <1>2 DEF Lists
<1>4. OfUser(ms) = FlattenSeq(us) /\ OfAttribute(ms) = FlattenSeq(as)
  BY DEF OfUser, OfAttribute
<1>6. ToSet(ms) = {ms[i] : i \in 1..n}
  BY <1>1 DEF ToSet
<1> HIDE DEF us, as, n
<1>5. /\ FlattenSeq(us) \in Seq(S) /\ ToSet(FlattenSeq(us)) = Joined(us, n)
      /\ FlattenSeq(as) \in Seq(S) /\ ToSet(FlattenSeq(as)) = Joined(as, n)
  BY <1>1, <1>3, FlatIs
<1>a. /\ \A i \in 1..n : ToSet(us[i]) = IF IsUser(ms[i].hier) THEN {ms[i]} ELSE {}
      /\ \A i \in 1..n : ToSet(as[i]) = IF IsUser(ms[i].hier) THEN {} ELSE {ms[i]}
  BY <1>2
<1>7. Joined(us, n) = {m \in ToSet(ms) : IsUser(m.hier)}
  <2>1. \A x : x \in Joined(us, n) <=> \E i \in 1..n : x \in ToSet(us[i])
    BY DEF Joined
  <2>2. \A x : \A i \in 1..n : x \in ToSet(us[i]) <=> x = ms[i] /\ IsUser(ms[i].hier)
    BY <1>a
  <2>3. \A x : x \in ToSet(ms) <=> \E i \in 1..n : x = ms[i]
    BY <1>6
  <2> QED BY <2>1, <2>2, <2>3, Zenon
<1>8. Joined(as, n) = {m \in ToSet(ms) : ~ IsUser(m.hier)}
  <2>1. \A x : x \in Joined(as, n) <=> \E i \in 1..n : x \in ToSet(as[i])
    BY DEF Joined
  <2>2. \A x : \A i \in 1..n : x \in ToSet(as[i]) <=> x = ms[i] /\ ~ IsUser(ms[i].hier)
    BY <1>a
  <2>3. \A x : x \in ToSet(ms) <=> \E i \in 1..n : x = ms[i]
    BY <1>6
  <2> QED BY <2>1, <2>2, <2>3, Zenon
<1> QED BY <1>4, <1>5, <1>7, <1>8

(* What an Except of a drill set leaves out are references, and not to All.  *)
LEMMA ExceptedIs ==
  ASSUME NEW drill \in Seq(Entry)
  PROVE  Excepted(drill) \in Seq({m \in Refs : m.rest # <<>>})
<1> DEFINE S == {m \in Refs : m.rest # <<>>}
           n == Len(drill)
           rows == [i \in DOMAIN drill |-> IF drill[i].kind = "except" THEN Named(drill[i].args) ELSE <<>>]
<1>1. n \in Nat /\ DOMAIN drill = 1..n /\ \A i \in 1..n : drill[i] \in Entry
  OBVIOUS
<1>2. ASSUME NEW i \in 1..n PROVE rows[i] \in Seq(S)
  <2>1. rows[i] = IF drill[i].kind = "except" THEN Named(drill[i].args) ELSE <<>>
    BY <1>1
  <2>2. drill[i].kind = "except" => drill[i].args \in Seq(Entry)
    BY <1>1, EntryIs
  <2>3. drill[i].kind = "except" => Named(drill[i].args) \in Seq(S)
    BY <2>2, NamedIs
  <2> HIDE DEF rows, S
  <2> QED BY <2>1, <2>3, OneSet
<1>3. Lists(rows, n, Seq(S))
  BY <1>1, <1>2 DEF Lists
<1>4. Excepted(drill) = FlattenSeq(rows)
  BY DEF Excepted
<1> HIDE DEF rows, S, n
<1>5. FlattenSeq(rows) \in Seq(S)
  BY <1>1, <1>3, FlatIs
<1> QED BY <1>4, <1>5 DEF S

(* They are references, and not to All.                                      *)
LEMMA EntryNamedIs ==
  ASSUME NEW e \in Entry
  PROVE  EntryNamed(e) \in Seq({m \in Refs : m.rest # <<>>})
<1>1. e.kind = "except" => e.args \in Seq(Entry)
  BY EntryIs
<1>2. <<e>> \in Seq(Entry)
  BY OneSet
<1> QED BY <1>1, <1>2, NamedIs DEF EntryNamed

(* What a drill names as parents are references, and not to All.             *)
LEMMA ParentsAre ==
  ASSUME NEW drill \in Seq(Entry)
  PROVE  Parents(drill) \in Seq({m \in Refs : m.rest # <<>> /\ ~ IsUser(m.hier)})
<1> DEFINE A == {m \in Refs : m.rest # <<>>}
           S == {m \in Refs : m.rest # <<>> /\ ~ IsUser(m.hier)}
           n == Len(drill)
           rows == [i \in DOMAIN drill |-> OfAttribute(EntryNamed(drill[i]))]
<1>1. n \in Nat /\ DOMAIN drill = 1..n /\ \A i \in 1..n : drill[i] \in Entry
  OBVIOUS
<1>2. ASSUME NEW i \in 1..n PROVE rows[i] \in Seq(S)
  <2> DEFINE named == EntryNamed(drill[i])
  <2>1. named \in Seq(A)
    BY <1>1, EntryNamedIs
  <2>2. rows[i] = OfAttribute(named)
    BY <1>1
  <2>3. \A m \in A : ~ IsUser(m.hier) => m \in S
    OBVIOUS
  <2> HIDE DEF rows, S, A, named
  <2>4. OfAttribute(named) \in Seq(A) /\ ToSet(OfAttribute(named)) = {m \in ToSet(named) : ~ IsUser(m.hier)}
    BY <2>1, SplitIs
  <2>5. ToSet(named) \subseteq A
    BY <2>1, InSeq
  <2>6. ToSet(OfAttribute(named)) \subseteq S
    BY <2>3, <2>4, <2>5
  <2> DEFINE k == Len(OfAttribute(named))
  <2>7. k \in Nat /\ Lists(OfAttribute(named), k, S)
    BY <2>4, <2>6, InSeq DEF Lists
  <2> HIDE DEF k
  <2> QED BY <2>2, <2>7, ListIs
<1>3. Lists(rows, n, Seq(S))
  BY <1>1, <1>2 DEF Lists
<1>4. Parents(drill) = FlattenSeq(rows)
  BY DEF Parents, EntryNamed
<1> HIDE DEF rows, S, A, n
<1>5. FlattenSeq(rows) \in Seq(S)
  BY <1>1, <1>3, FlatIs
<1> QED BY <1>4, <1>5 DEF S

(* The leaves of references are values.                                      *)
LEMMA LeavesAre ==
  ASSUME NEW ms \in Seq({m \in Refs : m.rest # <<>>})
  PROVE  Leaves(ms) \subseteq Int
<1> DEFINE S == {m \in Refs : m.rest # <<>>}
<1>1. ms \in Seq(S)
  OBVIOUS
<1>2. ASSUME NEW m \in S PROVE Spelled(m)[1] \in Int
  <2>0. m \in Refs /\ m.rest # <<>>
    OBVIOUS
  <2>1. m.rest[1] \in Int
    BY <2>0, RefIs
  <2>2. AllText \in Int
    BY ValueAssumption
  <2> QED BY <2>1, <2>2 DEF Spelled
<1> HIDE DEF S
<1>3. ToSet(OfAttribute(ms)) \subseteq S
  BY <1>1, SplitIs, InSeq
<1> QED BY <1>2, <1>3 DEF Leaves

(* References as marks keep everything but their kind.                       *)
LEMMA AsAre ==
  ASSUME NEW ms \in Seq({m \in Refs : m.rest # <<>>}), NEW kind \in {"open", "close"}
  PROVE  As(ms, kind) \in Seq(Marks)
<1> DEFINE n == Len(ms)
<1>1. n \in Nat /\ DOMAIN ms = 1..n /\ \A i \in 1..n : ms[i] \in Refs
  OBVIOUS
<1>2. \A i \in 1..n : [ms[i] EXCEPT !.kind = kind, !.rest = Spelled(ms[i])] \in Marks
  <2> SUFFICES ASSUME NEW m \in Refs PROVE [m EXCEPT !.kind = kind, !.rest = Spelled(m)] \in Marks
    BY <1>1
  <2> DEFINE r == Spelled(m)
  <2>1. m \in MemberRef
    BY RefIs
  <2>2. r \in Seq(Int) /\ Len(r) <= Len(m.hier) /\ Null \notin ToSet(r)
    BY SpelledIs
  <2> DEFINE t == [m EXCEPT !.kind = kind, !.rest = r]
  <2> HIDE DEF r
  <2>3. t \in Mark /\ t.rest = r /\ t.hier = m.hier
    BY <2>1, <2>2 DEF MemberRef, Mark
  <2> HIDE DEF t
  <2>4. t \in Marks
    BY <2>2, <2>3 DEF Marks
  <2> QED BY <2>4 DEF t, r
<1>3. Lists(As(ms, kind), n, Marks)
  BY <1>1, <1>2 DEF As, Lists
<1> QED BY <1>1, <1>3, ListIs

(* The paths a drill opens or closes are marks.                              *)
LEMMA OpenedOrClosedIs ==
  ASSUME NEW drill \in Seq(Entry)
  PROVE  OpenedOrClosed(drill) \in Seq(Marks)
<1> DEFINE n == Len(drill)
           kind(i) == IF drill[i].kind = "except" THEN "close" ELSE "open"
           rows == [i \in DOMAIN drill |-> As(OfUser(EntryNamed(drill[i])), kind(i))]
           other == [i \in DOMAIN drill |->
                       IF drill[i].kind = "except" THEN As(OfUser(Named(drill[i].args)), "close")
                       ELSE As(OfUser(Named(<<drill[i]>>)), "open")]
<1>1. n \in Nat /\ DOMAIN drill = 1..n /\ \A i \in 1..n : drill[i] \in Entry
  OBVIOUS
<1>2. ASSUME NEW i \in 1..n PROVE rows[i] \in Seq(Marks)
  <2> DEFINE S == {m \in Refs : m.rest # <<>>}
  <2>1. EntryNamed(drill[i]) \in Seq(S)
    BY <1>1, EntryNamedIs
  <2>2. rows[i] = As(OfUser(EntryNamed(drill[i])), kind(i)) /\ kind(i) \in {"open", "close"}
    BY <1>1
  <2>3. OfUser(EntryNamed(drill[i])) \in Seq(S)
    <3> HIDE DEF S
    <3> QED BY <2>1, SplitIs
  <2> HIDE DEF rows, kind
  <2> QED BY <2>2, <2>3, AsAre
<1>3. Lists(rows, n, Seq(Marks))
  BY <1>1, <1>2 DEF Lists
<1>4. OpenedOrClosed(drill) = FlattenSeq(rows)
  <2>1. \A i \in 1..n : rows[i] = other[i]
    BY <1>1 DEF EntryNamed
  <2>2. rows = other
    BY <1>1, <2>1
  <2>3. OpenedOrClosed(drill) = FlattenSeq(other)
    BY DEF OpenedOrClosed
  <2> HIDE DEF rows, other
  <2> QED BY <2>2, <2>3
<1> HIDE DEF rows, n
<1>5. FlattenSeq(rows) \in Seq(Marks)
  BY <1>1, <1>3, FlatIs
<1> QED BY <1>4, <1>5

(* What a drill comes to is a sequence of moves.                             *)
LEMMA DrillMoves ==
  ASSUME NEW e \in Entry, e.kind = "drillmember"
  PROVE  on_drillmember(e) \in Seq(DrillMove)
<1> DEFINE S == {m \in Refs : m.rest # <<>> /\ ~ IsUser(m.hier)}
<1>1. e.drill \in Seq(Entry) /\ e.target \in Hierarchy \cup {<<>>}
  BY EntryIs
<1>2. Parents(e.drill) \in Seq(S)
  BY <1>1, ParentsAre
<1>a. Seq(S) \subseteq Seq(Refs)
  OBVIOUS
<1> HIDE DEF S
<1>5. Marks \subseteq DrillMove /\ Refs \subseteq DrillMove /\ Targets \subseteq DrillMove /\ Limits \subseteq DrillMove
  BY DEF DrillMove
<1>6. \A T : T \subseteq DrillMove => Seq(T) \subseteq Seq(DrillMove)
  OBVIOUS
<1>7. OpenedOrClosed(e.drill) \in Seq(DrillMove)
  BY <1>1, <1>5, <1>6, OpenedOrClosedIs
<1>8. Targeted(e) \in Seq(DrillMove)
  <2>1. CASE e.target = <<>>
    BY <2>1, OneSet DEF Targeted
  <2>2. CASE e.target # <<>>
    <3> DEFINE one == [kind |-> "children", hier |-> e.target, drill |-> e.drill]
               two == [kind |-> "limit", hier |-> e.target, drill |-> e.drill]
    <3>1. one \in Targets
      BY <1>1, <2>2 DEF Targets
    <3>2. Parents(e.drill) # <<>> => two \in Limits
      BY <1>1, <2>2 DEF Limits
    <3>3. Targeted(e) = <<one>> \o Parents(e.drill) \o (IF Parents(e.drill) = <<>> THEN <<>> ELSE <<two>>)
      BY <2>2 DEF Targeted, OnTarget
    <3> HIDE DEF one, two
    <3>4. <<one>> \in Seq(DrillMove) /\ Parents(e.drill) \in Seq(DrillMove)
      BY <1>2, <1>5, <1>6, <1>a, <3>1, OneSet
    <3>5. (IF Parents(e.drill) = <<>> THEN <<>> ELSE <<two>>) \in Seq(DrillMove)
      BY <1>5, <3>2, OneSet
    <3> DEFINE c == IF Parents(e.drill) = <<>> THEN <<>> ELSE <<two>>
    <3> HIDE DEF c
    <3>6. <<one>> \o Parents(e.drill) \in Seq(DrillMove)
      BY <3>4, ConcatSet
    <3>7. <<one>> \o Parents(e.drill) \o c \in Seq(DrillMove)
      BY <3>5, <3>6, ConcatSet DEF c
    <3> QED BY <3>3, <3>7 DEF c
  <2> QED BY <2>1, <2>2
<1> QED BY <1>7, <1>8, ConcatSet DEF on_drillmember

(* So is what any entry comes to.                                            *)
LEMMA MovesAre ==
  ASSUME NEW e \in Entry
  PROVE  Moves(e) \in Seq(Move)
<1>1. CASE e.kind \in {"measure", "member", "exists"}
  BY <1>1, OneSet DEF Move, Moves
<1>2. CASE e.kind = "drillmember"
  <2>1. Moves(e) = on_drillmember(e)
    BY <1>2 DEF Moves
  <2>2. Seq(DrillMove) \subseteq Seq(Move)
    <3>1. DrillMove \subseteq Move
      BY DEF DrillMove, Move
    <3> HIDE DEF DrillMove
    <3> QED BY <3>1
  <2> QED BY <1>2, <2>1, <2>2, DrillMoves
<1>3. CASE e.kind \notin {"measure", "member", "exists", "drillmember"}
  BY <1>3, OneSet DEF Moves
<1> QED BY <1>1, <1>2, <1>3

(* Opening containers leaves entries.                                        *)
LEMMA OpenedIs ==
  ASSUME NEW entries \in Seq(Entry)
  PROVE  Opened(entries) \in Seq(Entry)
<1> DEFINE n == Len(entries)
           rows == [i \in DOMAIN entries |->
             IF Nests(entries[i]) THEN entries[i].args \o <<[entries[i] EXCEPT !.args = <<>>]>>
             ELSE <<entries[i]>>]
<1>1. n \in Nat /\ DOMAIN entries = 1..n /\ \A i \in 1..n : entries[i] \in Entry
  OBVIOUS
<1>2. ASSUME NEW i \in 1..n PROVE rows[i] \in Seq(Entry)
  <2> DEFINE e == entries[i]
             left == [e EXCEPT !.args = <<>>]
  <2>1. e \in Entry
    BY <1>1
  <2>2. rows[i] = IF Nests(e) THEN e.args \o <<left>> ELSE <<e>>
    BY <1>1
  <2> HIDE DEF rows
  <2>3. CASE Nests(e)
    <3>1. e.args \in Seq(Entry)
      BY <2>1, <2>3, EntryIs DEF Nests
    <3>2. left \in Entry
      BY <2>1, <2>3, ClosedAssumption
    <3> HIDE DEF left, e
    <3> QED BY <2>2, <2>3, <3>1, <3>2, ConcatSet, OneSet
  <2>4. CASE ~ Nests(e)
    BY <2>1, <2>2, <2>4, OneSet
  <2> QED BY <2>3, <2>4
<1>3. Lists(rows, n, Seq(Entry))
  BY <1>1, <1>2 DEF Lists
<1>4. Opened(entries) = FlattenSeq(rows)
  BY DEF Opened
<1> HIDE DEF rows, n
<1> QED BY <1>1, <1>3, <1>4, FlatIs

(* So does a walk.                                                           *)
LEMMA WalkIs ==
  ASSUME NEW entries \in Seq(Entry)
  PROVE  walk(entries) \in Seq(Entry)
<1>1. PICK g : /\ g[0] = entries /\ walk(entries) = g[Depth]
               /\ \A n \in 1..Depth : g[n] = Opened(g[n - 1])
  BY WalkLoop
<1> DEFINE T == {n \in Nat : n <= Depth => g[n] \in Seq(Entry)}
<1>2. 0 \in T
  BY <1>1
<1>3. ASSUME NEW n \in Nat, n \in T PROVE n + 1 \in T
  <2> SUFFICES ASSUME n + 1 <= Depth PROVE g[n + 1] \in Seq(Entry)
    OBVIOUS
  <2>1. n <= Depth /\ n + 1 \in 1..Depth /\ (n + 1) - 1 = n
    BY DepthInNat
  <2>2. g[n + 1] = Opened(g[n])
    BY <1>1, <2>1
  <2> QED BY <1>3, <2>1, <2>2, OpenedIs
<1> HIDE DEF T
<1>4. Nat \subseteq T
  BY <1>2, <1>3, Induction
<1>5. Depth \in T /\ Depth <= Depth
  BY <1>4, DepthInNat
<1> QED BY <1>1, <1>5 DEF T

(* The moves of an axis are those of its entries.                            *)
LEMMA AllMovesAre ==
  ASSUME NEW walked \in Seq(Entry)
  PROVE  /\ AllMoves(walked) \in Seq(Move)
         /\ ToSet(AllMoves(walked)) = UNION {ToSet(Moves(e)) : e \in ToSet(walked)}
<1> DEFINE n == Len(walked)
           rows == [i \in DOMAIN walked |-> Moves(walked[i])]
<1>1. n \in Nat /\ DOMAIN walked = 1..n /\ \A i \in 1..n : walked[i] \in Entry
  OBVIOUS
<1>2. Lists(rows, n, Seq(Move))
  BY <1>1, MovesAre DEF Lists
<1>3. \A i \in 1..n : rows[i] = Moves(walked[i])
  BY <1>1
<1>4. AllMoves(walked) = FlattenSeq(rows)
  BY DEF AllMoves
<1>5. ToSet(walked) = {walked[i] : i \in 1..n}
  BY <1>1 DEF ToSet
<1> HIDE DEF rows, n
<1>6. FlattenSeq(rows) \in Seq(Move) /\ ToSet(FlattenSeq(rows)) = Joined(rows, n)
  BY <1>1, <1>2, FlatIs
<1>7. Joined(rows, n) = UNION {ToSet(Moves(e)) : e \in ToSet(walked)}
  BY <1>3, <1>5 DEF Joined
<1> QED BY <1>4, <1>6, <1>7

(* What is classified.                                                       *)

(* A fresh HierSpec is one.                                                  *)
LEMMA HierSpecIn ==
  ASSUME NEW h \in Hierarchy
  PROVE  HierSpec(h) \in SpecIn(h)
<1>1. \A S : <<>> \in Seq(S)
  OBVIOUS
<1> QED BY <1>1, FS_EmptySet DEF HierSpec, SpecIn, SpecSet, NoneNull

(* What appending an element if it is new does to the elements.              *)
LEMMA AddNewIs ==
  ASSUME NEW S, NEW s \in Seq(S), NEW x \in S
  PROVE  AddNew(s, x) \in Seq(S) /\ ToSet(AddNew(s, x)) = ToSet(s) \cup {x}
<1>1. CASE x \in ToSet(s)
  BY <1>1 DEF AddNew, Contains, ToSet
<1>2. CASE x \notin ToSet(s)
  <2>1. AddNew(s, x) = Append(s, x)
    BY <1>2 DEF AddNew, Contains, ToSet
  <2>2. Append(s, x) = s \o <<x>>
    BY AppendIsConcat
  <2>3. <<x>> \in Seq(S) /\ ToSet(<<x>>) = {x}
    BY OneSet
  <2> DEFINE one == <<x>>
  <2>a. one \in Seq(S)
    BY <2>3
  <2> HIDE DEF one
  <2>4. s \o one \in Seq(S) /\ ToSet(s \o one) = ToSet(s) \cup ToSet(one)
    BY <2>a, ConcatSet
  <2> QED BY <2>1, <2>2, <2>3, <2>4 DEF one
<1> QED BY <1>1, <1>2

(* The path of a reference is a key.                                         *)
LEMMA PathKey ==
  ASSUME NEW m \in Refs
  PROVE  Path(m) \in KeysIn(m.hier) /\ Null \notin ToSet(Path(m))
<1>1. <<>> \in KeysIn(m.hier)
  <2>1. Len(m.hier) \in Nat
    BY RefIs, HierIs
  <2>2. <<>> \in Seq(Int) /\ Len(<<>>) = 0
    OBVIOUS
  <2> QED BY <2>1, <2>2 DEF KeysIn
<1>2. Null \notin ToSet(<<>>)
  BY OneSet
<1>3. CASE IsAll(m)
  BY <1>1, <1>2, <1>3 DEF Path
<1>4. CASE ~ IsAll(m)
  BY <1>4, RefIs, NoNull DEF Path
<1> QED BY <1>3, <1>4

(* A member of a user hierarchy keeps what is gathered in its type.          *)
LEMMA UserMemberIs ==
  ASSUME NEW m \in Refs, NEW s \in SpecIn(m.hier)
  PROVE  UserMember(s, m) \in SpecIn(m.hier)
<1> DEFINE h == m.hier
           d == s.drilled
<1>a. h \in Hierarchy
  BY RefIs
<1>b. DOMAIN h \subseteq Nat
  <2> HIDE DEF h
  <2> QED BY <1>a, HierIs
<1>1. Path(m) \in KeysIn(h) /\ Null \notin ToSet(Path(m)) /\ h \in Hierarchy /\ DOMAIN h \subseteq Nat
  BY <1>a, <1>b, PathKey
<1>2. s \in SpecSet(h) /\ d \in SUBSET KeysIn(h) /\ IsFiniteSet(d) /\ NoneNull(d)
  BY DEF SpecIn, SpecSet
<1>3. IsAll(m) \in BOOLEAN
  BY DEF IsAll
<1>4. ASSUME NEW x \in KeysIn(h), Null \notin ToSet(x)
      PROVE  d \cup {x} \in SUBSET KeysIn(h) /\ IsFiniteSet(d \cup {x}) /\ NoneNull(d \cup {x})
  BY <1>2, <1>4, FS_AddElement DEF NoneNull
<1>5. d \cup {} = d
  OBVIOUS
<1>6. CASE m.suffix = "CHILDREN"
  <2> DEFINE e == d \cup {Path(m)}
  <2>1. e \in SUBSET KeysIn(h) /\ IsFiniteSet(e) /\ NoneNull(e)
    BY <1>1, <1>4
  <2>2. UserMember(s, m) = [s EXCEPT !.drilled = e, !.all = @ \/ IsAll(m)]
    BY <1>6 DEF UserMember
  <2> HIDE DEF e, h
  <2> QED BY <1>2, <1>3, <2>1, <2>2 DEF SpecIn, SpecSet, h
<1>7. CASE m.suffix = "MEMBERS" /\ IsAll(m)
  <2> DEFINE e == d \cup (IF m.rest = <<>> THEN {<<>>} ELSE {})
  <2>1. e \in SUBSET KeysIn(h) /\ IsFiniteSet(e) /\ NoneNull(e)
    <3>1. CASE m.rest = <<>>
      BY <3>1, RefIs, OneSet, <1>4
    <3>2. CASE m.rest # <<>>
      BY <1>2, <1>5, <3>2
    <3> QED BY <3>1, <3>2
  <2>2. UserMember(s, m) = [s EXCEPT !.all = TRUE, !.drilled = e]
    BY <1>7 DEF UserMember
  <2> HIDE DEF e, h
  <2> QED BY <1>2, <2>1, <2>2 DEF SpecIn, SpecSet, h
<1>8. CASE m.suffix = "MEMBERS" /\ ~ IsAll(m)
  <2> DEFINE e == s.flat \cup {i \in DOMAIN m.hier : m.rest = <<Level(i)>>}
  <2>1. e \in SUBSET Nat
    BY <1>1, <1>2 DEF SpecSet
  <2>2. UserMember(s, m) = [s EXCEPT !.flat = e]
    BY <1>8 DEF UserMember
  <2> HIDE DEF e, h
  <2> QED BY <1>2, <2>1, <2>2 DEF SpecIn, SpecSet, h
<1>9. CASE m.suffix = ""
  <2> DEFINE e == d \cup (IF m.drilled THEN {Path(m)} ELSE {})
             ps == IF IsAll(m) THEN s.paths ELSE AddNew(s.paths, m.rest)
  <2>1. e \in SUBSET KeysIn(h) /\ IsFiniteSet(e) /\ NoneNull(e)
    BY <1>1, <1>2, <1>4, <1>5, RefIs
  <2>2. ps \in Seq(PathsIn(h))
    BY <1>2, <1>9, RefIs, AddNewIs DEF SpecSet
  <2>3. UserMember(s, m) = [s EXCEPT !.all = @ \/ IsAll(m), !.paths = ps, !.drilled = e]
    BY <1>9 DEF UserMember
  <2> HIDE DEF e, ps, h
  <2> QED BY <1>2, <1>3, <2>1, <2>2, <2>3 DEF SpecIn, SpecSet, h
<1> QED BY <1>6, <1>7, <1>8, <1>9, RefIs

(* So does a member of an attribute hierarchy.                               *)
LEMMA AttributeMemberIs ==
  ASSUME NEW m \in Refs, NEW s \in SpecIn(m.hier)
  PROVE  AttributeMember(s, m) \in SpecIn(m.hier)
<1> DEFINE h == m.hier
<1>2. s \in SpecSet(h) /\ IsFiniteSet(s.drilled) /\ NoneNull(s.drilled)
  BY DEF SpecIn
<1>3. TakenForAll(m) \in BOOLEAN /\ (m.rest \in {<<>>, <<Level(1)>>}) \in BOOLEAN /\ m.drilled \in BOOLEAN
  <2>1. m.drilled \in BOOLEAN
    BY RefIs
  <2>2. TakenForAll(m) \in BOOLEAN
    BY DEF TakenForAll, IsAll
  <2> QED BY <2>1, <2>2
<1> DEFINE r == m.rest \in {<<>>, <<Level(1)>>}
           x == m.rest[1]
<1>6. CASE m.suffix = "CHILDREN"
  <2>2. AttributeMember(s, m) = [s EXCEPT !.children = @ \/ TakenForAll(m)]
    BY <1>6 DEF AttributeMember
  <2> HIDE DEF h
  <2> QED BY <1>2, <1>3, <2>2 DEF SpecIn, SpecSet, h
<1>7. CASE m.suffix = "MEMBERS"
  <2>2. AttributeMember(s, m) = [s EXCEPT !.all = @ \/ TakenForAll(m), !.children = @ \/ r]
    BY <1>7 DEF AttributeMember
  <2>3. r \in BOOLEAN
    BY <1>3
  <2> HIDE DEF h, r
  <2> QED BY <1>2, <1>3, <2>2, <2>3 DEF SpecIn, SpecSet, h
<1>8. CASE m.suffix = "" /\ TakenForAll(m)
  <2>2. AttributeMember(s, m) = [s EXCEPT !.all = TRUE, !.children = @ \/ m.drilled]
    BY <1>8 DEF AttributeMember
  <2> HIDE DEF h
  <2> QED BY <1>2, <1>3, <2>2 DEF SpecIn, SpecSet, h
<1>9. CASE m.suffix = "" /\ ~ TakenForAll(m)
  <2> DEFINE ms == AddNew(s.members, x)
  <2>1. m.rest \in PathsIn(h) /\ Len(h) \in Nat
    BY <1>9, RefIs, HierIs DEF TakenForAll
  <2>2. x \in Value
    BY <2>1 DEF PathsIn
  <2>3. ms \in Seq(Value)
    BY <1>2, <2>2, AddNewIs DEF SpecSet
  <2>4. AttributeMember(s, m) = [s EXCEPT !.members = ms]
    BY <1>9 DEF AttributeMember
  <2> HIDE DEF h, ms
  <2> QED BY <1>2, <2>3, <2>4 DEF SpecIn, SpecSet, h
<1> QED BY <1>6, <1>7, <1>8, <1>9, RefIs

(* So does any member.                                                       *)
LEMMA on_memberIs ==
  ASSUME NEW m \in Refs, NEW s \in SpecIn(m.hier)
  PROVE  on_member(s, m) \in SpecIn(m.hier)
  BY UserMemberIs, AttributeMemberIs DEF on_member

(* So does any move that is about a hierarchy.                               *)
LEMMA SpecifiedIs ==
  ASSUME NEW m \in Move, m.kind \notin {"measure", "exists"}, NEW s \in SpecIn(m.hier)
  PROVE  m.hier \in Hierarchy /\ Specified(s, m) \in SpecIn(m.hier)
<1>1. \/ m \in Refs \/ m \in Marks \/ m \in Targets \/ m \in Limits
  BY EntryIs DEF Move
<1> DEFINE h == m.hier
<1>2. s \in SpecSet(h) /\ IsFiniteSet(s.drilled) /\ NoneNull(s.drilled)
  BY DEF SpecIn
<1>3. CASE m \in Refs
  BY <1>3, RefIs, on_memberIs DEF Specified
<1>4. CASE m \in Marks
  <2>0. m \in Mark /\ Len(m.rest) <= Len(h) /\ Null \notin ToSet(m.rest)
    BY <1>4 DEF Marks
  <2>a. m.rest \in Seq(Int) /\ h \in Hierarchy /\ m.kind \in {"open", "close"}
    BY <2>0 DEF Mark
  <2>b. Len(m.rest) \in Nat
    BY <2>a, LenProperties
  <2>1. m.rest \in KeysIn(h) /\ h \in Hierarchy /\ m.kind \in {"open", "close"} /\ Len(m.rest) \in Nat
    BY <2>0, <2>a, <2>b DEF KeysIn
  <2>2. CASE m.kind = "open"
    <3> DEFINE e == s.drilled \cup {m.rest}
    <3>1. Specified(s, m) = [s EXCEPT !.drilled = e]
      BY <2>2 DEF Specified
    <3>2. e \in SUBSET KeysIn(h)
      BY <1>2, <2>1 DEF SpecSet
    <3>3. IsFiniteSet(e)
      BY <1>2, FS_AddElement
    <3>4. NoneNull(e)
      BY <1>2, <2>0 DEF NoneNull
    <3> HIDE DEF e, h
    <3> QED BY <1>2, <2>1, <3>1, <3>2, <3>3, <3>4 DEF SpecIn, SpecSet, h
  <2>3. CASE m.kind = "close"
    <3> DEFINE e == s.undrilled \cup {m.rest}
               f == s.depths \cup {Len(m.rest)}
    <3>1. Specified(s, m) = [s EXCEPT !.undrilled = e, !.depths = f]
      BY <2>3 DEF Specified
    <3>2. e \in SUBSET KeysIn(h) /\ f \in SUBSET Nat
      BY <1>2, <2>1 DEF SpecSet
    <3> HIDE DEF e, f, h
    <3> QED BY <1>2, <2>1, <3>1, <3>2 DEF SpecIn, SpecSet, h
  <2> QED BY <2>1, <2>2, <2>3
<1>5. CASE m \in Targets
  <2>1. h \in Hierarchy /\ m.kind = "children"
    BY <1>5 DEF Targets
  <2>2. Specified(s, m) = [s EXCEPT !.children = TRUE]
    BY <2>1 DEF Specified
  <2> HIDE DEF h
  <2> QED BY <1>2, <2>1, <2>2 DEF SpecIn, SpecSet, h
<1>6. CASE m \in Limits
  <2>1. h \in Hierarchy /\ m.kind = "limit" /\ m.drill \in Seq(Entry) /\ Parents(m.drill) # <<>>
    BY <1>6 DEF Limits
  <2> DEFINE a == Last(Parents(m.drill)).hier
             b == \E e \in ToSet(m.drill) : IsRef(e)
             c == Leaves(Named(m.drill))
             d == Leaves(Excepted(m.drill))
  <2>2. Specified(s, m) = [s EXCEPT !.parent = a, !.limited = b, !.include = c, !.exclude = d]
    BY <2>1 DEF Specified, Limited
  <2>3. a \in {g \in Hierarchy : ~ IsUser(g)}
    <3> DEFINE S == {x \in Refs : x.rest # <<>> /\ ~ IsUser(x.hier)}
               p == Parents(m.drill)
    <3>1. p \in Seq(S) /\ p # <<>>
      BY <2>1, ParentsAre
    <3>2. \A x \in S : x.hier \in {g \in Hierarchy : ~ IsUser(g)}
      BY RefIs
    <3> HIDE DEF S, p
    <3>3. Last(p) \in S
      BY <3>1 DEF Last
    <3> QED BY <3>2, <3>3 DEF p
  <2>4. b \in BOOLEAN
    OBVIOUS
  <2>5. c \subseteq Int /\ d \subseteq Int
    BY <2>1, NamedIs, ExceptedIs, LeavesAre
  <2> HIDE DEF a, b, c, d, h
  <2> DEFINE r == [s EXCEPT !.parent = a, !.limited = b, !.include = c, !.exclude = d]
  <2>6. r \in SpecSet(h)
    BY <1>2, <2>3, <2>4, <2>5 DEF SpecSet
  <2>7. r.drilled = s.drilled
    BY <1>2 DEF SpecSet
  <2> HIDE DEF r
  <2>8. r \in SpecIn(h)
    BY <1>2, <2>6, <2>7 DEF SpecIn
  <2> QED BY <2>1, <2>2, <2>8 DEF h, r
<1> QED BY <1>1, <1>3, <1>4, <1>5, <1>6

(* Appending an element if it is new repeats none.                           *)
LEMMA AddNewApart ==
  ASSUME NEW S, NEW s \in Seq(S), NEW x \in S, \A i, j \in DOMAIN s : s[i] = s[j] => i = j
  PROVE  \A i, j \in DOMAIN AddNew(s, x) : AddNew(s, x)[i] = AddNew(s, x)[j] => i = j
<1>1. CASE x \in ToSet(s)
  BY <1>1 DEF AddNew, Contains, ToSet
<1>2. CASE x \notin ToSet(s)
  <2> DEFINE t == Append(s, x)
  <2>1. AddNew(s, x) = t
    BY <1>2 DEF AddNew, Contains, ToSet
  <2>2. /\ t \in Seq(S) /\ Len(t) = Len(s) + 1 /\ t[Len(s) + 1] = x
        /\ \A i \in 1..Len(s) : t[i] = s[i]
    BY AppendProperties
  <2>3. Len(s) \in Nat /\ DOMAIN s = 1..Len(s) /\ \A i \in 1..Len(s) : s[i] # x
    BY <1>2 DEF ToSet
  <2> HIDE DEF t
  <2>4. DOMAIN t = 1..(Len(s) + 1)
    BY <2>2
  <2> SUFFICES ASSUME NEW i \in 1..(Len(s) + 1), NEW j \in 1..(Len(s) + 1), t[i] = t[j] PROVE i = j
    BY <2>1, <2>4
  <2>5. \A k \in 1..(Len(s) + 1) : k \in 1..Len(s) \/ k = Len(s) + 1
    BY <2>3
  <2> QED BY <2>2, <2>3, <2>5
<1> QED BY <1>1, <1>2

(* Each move keeps the state of a classification sound.                      *)
LEMMA ApplyOK ==
  ASSUME NEW st, StateOK(st), NEW m \in Move
  PROVE  StateOK(Apply(st, m))
<1> DEFINE a == Apply(st, m)
<1>1. CASE m.kind = "measure"
  <2>1. m.name \in Nat \ {0}
    BY <1>1, EntryIs DEF Move, Refs, MemberRef, Marks, Mark, Targets, Limits
  <2>2. a = [st EXCEPT !.measures = Append(@, m.name)]
    BY <1>1 DEF Apply
  <2>3. /\ a = [measures |-> Append(st.measures, m.name), order |-> st.order, spec |-> st.spec,
                filters |-> st.filters, sink |-> st.sink]
    BY <2>2 DEF StateOK
  <2>4. Append(st.measures, m.name) \in Seq(Nat \ {0})
    BY <2>1, AppendProperties DEF StateOK
  <2> HIDE DEF a
  <2>5. /\ a.measures = Append(st.measures, m.name) /\ a.order = st.order /\ a.spec = st.spec
        /\ a.filters = st.filters /\ a.sink = st.sink
    BY <2>3
  <2> QED BY <2>3, <2>4, <2>5 DEF StateOK, a
<1>2. CASE m.kind = "exists"
  <2> DEFINE f == st.filters \cup FiltersOf(m.among)
             p == st.sink \cup PathsOf(m.among)
  <2>2. a = [st EXCEPT !.filters = f, !.sink = p]
    BY <1>2 DEF Apply
  <2> HIDE DEF f, p, a
  <2>3. a = [measures |-> st.measures, order |-> st.order, spec |-> st.spec, filters |-> f, sink |-> p]
    BY <2>2 DEF StateOK
  <2>4. /\ a.measures = st.measures /\ a.order = st.order /\ a.spec = st.spec
        /\ a.filters = f /\ a.sink = p
    BY <2>3
  <2> QED BY <2>3, <2>4 DEF StateOK, a
<1>3. CASE m.kind \notin {"measure", "exists"}
  <2> DEFINE h == m.hier
             o == AddNew(st.order, h)
             v == Specified(st.spec[h], m)
             sp == [st.spec EXCEPT ![h] = v]
  <2>1. h \in Hierarchy
    BY <1>3, EntryIs, RefIs DEF Move, Marks, Mark, Targets, Limits
  <2>2. st.spec[h] \in SpecIn(h)
    BY <2>1 DEF StateOK
  <2>3. v \in SpecIn(h)
    BY <1>3, <2>2, SpecifiedIs
  <2>4. a = [st EXCEPT !.order = AddNew(@, h), !.spec[h] = Specified(@, m)]
    BY <1>3 DEF Apply
  <2>5. a = [measures |-> st.measures, order |-> o, spec |-> sp, filters |-> st.filters, sink |-> st.sink]
    <3>1. a = [st EXCEPT !.order = o, !.spec[h] = v]
      BY <2>4
    <3> HIDE DEF o, v, h, a
    <3> QED BY <3>1 DEF StateOK
  <2>6. o \in Seq(Hierarchy)
    BY <2>1, AddNewIs DEF StateOK
  <2>7. \A i, j \in DOMAIN o : o[i] = o[j] => i = j
    BY <2>1, AddNewApart DEF StateOK
  <2> HIDE DEF v, o, h
  <2>8. sp = [g \in Hierarchy |-> IF g = h THEN v ELSE st.spec[g]]
    BY <2>1 DEF StateOK
  <2>9. \A g \in Hierarchy : sp[g] = IF g = h THEN v ELSE st.spec[g]
    BY <2>8
  <2>10. sp = [g \in Hierarchy |-> sp[g]]
    <3> HIDE DEF sp
    <3> QED BY <2>8
  <2> HIDE DEF sp, a
  <2>11. \A g \in Hierarchy : sp[g] \in SpecIn(g)
    BY <2>3, <2>9 DEF StateOK
  <2>12. /\ a.measures = st.measures /\ a.order = o /\ a.spec = sp
         /\ a.filters = st.filters /\ a.sink = st.sink
    BY <2>5
  <2> QED BY <2>5, <2>6, <2>7, <2>10, <2>11, <2>12 DEF StateOK, a
<1> QED BY <1>1, <1>2, <1>3

(* Before any move it is.                                                    *)
LEMMA UnspecifiedOK == StateOK(Unspecified)
<1> DEFINE u == Unspecified
           sp == [h \in Hierarchy |-> HierSpec(h)]
<1>1. u = [measures |-> <<>>, order |-> <<>>, spec |-> sp, filters |-> {}, sink |-> {}]
  BY DEF Unspecified
<1>2. u.measures = <<>> /\ u.order = <<>> /\ u.spec = sp /\ u.filters = {} /\ u.sink = {}
  BY <1>1
<1>3. \A h \in Hierarchy : sp[h] \in SpecIn(h)
  BY HierSpecIn
<1>4. sp = [h \in Hierarchy |-> sp[h]]
  OBVIOUS
<1>5. <<>> \in Seq(Nat \ {0}) /\ <<>> \in Seq(Hierarchy) /\ DOMAIN <<>> = {}
  OBVIOUS
<1> HIDE DEF u, sp
<1> QED BY <1>1, <1>2, <1>3, <1>4, <1>5 DEF StateOK, u

(* The state a classification ends in is sound, whatever the sets of the     *)
(* axis.                                                                     *)
LEMMA ClassifiedOK ==
  ASSUME NEW entries \in Seq(Entry)
  PROVE  StateOK(_classify(entries))
<1> DEFINE moves == AllMoves(walk(entries))
<1>1. moves \in Seq(Move) /\ Len(moves) \in Nat
  BY WalkIs, AllMovesAre
<1>2. _classify(entries) = Made(moves)
  BY DEF _classify
<1> HIDE DEF moves
<1>3. PICK g : /\ g[0] = Unspecified /\ Made(moves) = g[Len(moves)]
               /\ \A n \in 1..Len(moves) : g[n] = Apply(g[n - 1], moves[n])
  BY <1>1, MadeLoop
<1> DEFINE T == {n \in Nat : n <= Len(moves) => StateOK(g[n])}
<1>4. 0 \in T
  BY <1>3, UnspecifiedOK
<1>5. ASSUME NEW n \in Nat, n \in T PROVE n + 1 \in T
  <2> SUFFICES ASSUME n + 1 <= Len(moves) PROVE StateOK(g[n + 1])
    OBVIOUS
  <2>1. n <= Len(moves) /\ n + 1 \in 1..Len(moves) /\ (n + 1) - 1 = n
    BY <1>1
  <2>2. g[n + 1] = Apply(g[n], moves[n + 1])
    BY <1>3, <2>1
  <2>3. moves[n + 1] \in Move
    BY <1>1, <2>1
  <2> QED BY <1>5, <2>1, <2>2, <2>3, ApplyOK
<1> HIDE DEF T
<1>6. Nat \subseteq T
  BY <1>4, <1>5, Induction
<1>7. Len(moves) \in T /\ Len(moves) <= Len(moves)
  BY <1>1, <1>6
<1> QED BY <1>2, <1>3, <1>7 DEF T

(* The members of an axis.                                                   *)

(* The key of a row along some fields.                                       *)
LEMMA AlongIs ==
  ASSUME NEW h \in Seq(Field), NEW row \in [Field -> Value \cup {Null}]
  PROVE  /\ Along(h, row) \in Keys(Len(h)) /\ Along(h, row) \in Seq(Int)
         /\ Len(Along(h, row)) = Len(h) /\ DOMAIN Along(h, row) = 1..Len(h)
         /\ \A i \in 1..Len(h) : Along(h, row)[i] = row[h[i]] /\ row[h[i]] \in Value \cup {Null}
<1>1. Len(h) \in Nat /\ DOMAIN h = 1..Len(h) /\ \A i \in 1..Len(h) : h[i] \in Field
  OBVIOUS
<1>2. Value \cup {Null} \subseteq Int
  BY ValueAssumption DEF Null
<1>3. \A i \in 1..Len(h) : row[h[i]] \in Value \cup {Null} /\ row[h[i]] \in Int
  BY <1>1, <1>2
<1>4. Along(h, row) = [i \in 1..Len(h) |-> row[h[i]]]
  BY <1>1 DEF Along
<1>5. Lists(Along(h, row), Len(h), Int)
  BY <1>3, <1>4 DEF Lists
<1> QED BY <1>1, <1>3, <1>4, <1>5, ListIs DEF Lists, Keys

(* A query answers finitely many keys.                                       *)
LEMMA RunIs ==
  ASSUME NEW rows \in Table, NEW h \in Seq(Field)
  PROVE  _run(rows, h) \in SUBSET Keys(Len(h)) /\ IsFiniteSet(_run(rows, h))
<1>1. rows \in SUBSET [Field -> Value \cup {Null}] /\ IsFiniteSet(rows)
  BY DEF Table
<1>2. _run(rows, h) \in SUBSET Keys(Len(h))
  BY <1>1, AlongIs DEF _run
<1>3. IsFiniteSet(_run(rows, h))
  <2> DEFINE f == [r \in rows |-> Along(h, r)]
  <2>1. f \in Surjection(rows, _run(rows, h))
    BY DEF Surjection, _run
  <2> HIDE DEF f
  <2> QED BY <1>1, <2>1, FS_Surjection
<1> QED BY <1>2, <1>3

(* The first levels of a hierarchy.                                          *)
LEMMA PrefixIs ==
  ASSUME NEW h \in Hierarchy, NEW k \in 0..Len(h)
  PROVE  /\ SubSeq(h, 1, k) \in Seq(Field) /\ Len(SubSeq(h, 1, k)) = k
         /\ DOMAIN SubSeq(h, 1, k) = 1..k
         /\ \A i \in 1..k : SubSeq(h, 1, k)[i] = h[i]
<1>1. Len(h) \in Nat /\ \A i \in 1..k : h[i] \in Field
  BY HierIs
<1> DEFINE s == SubSeq(h, 1, k)
<1>2. s \in Seq(Field) /\ Len(s) = k /\ \A i \in 1..k : s[i] = h[i]
  <2>1. k \in Int /\ (IF 1 <= k THEN k - 1 + 1 ELSE 0) = k /\ k - 1 + 1 = k /\ \A i \in 1..k : 1 + i - 1 = i
    BY <1>1
  <2>2. \A i \in 1..k : h[i] \in Field
    BY <1>1
  <2> HIDE DEF s
  <2> QED BY <2>1, <2>2, SubSeqProperties DEF s
<1> HIDE DEF s
<1>3. DOMAIN s = 1..k
  BY <1>2
<1> QED BY <1>2, <1>3 DEF s

(* Keys of some of its levels are keys of the hierarchy.                     *)
LEMMA KeysShort ==
  ASSUME NEW h \in Hierarchy, NEW k \in 0..Len(h)
  PROVE  Keys(k) \subseteq KeysIn(h)
<1> SUFFICES ASSUME NEW p \in Keys(k) PROVE p \in KeysIn(h)
  OBVIOUS
<1>0. Len(h) \in Nat
  BY HierIs
<1>1. p \in Seq(Int) /\ Len(p) = k
  BY <1>0 DEF Keys
<1> QED BY <1>0, <1>1 DEF KeysIn

(* What is sorted is a list of keys, whatever is taken of a grouping.        *)
LEMMA SortedKeys ==
  ASSUME NEW rows \in Table, NEW h \in Hierarchy, NEW k \in 0..Len(h),
         NEW keys \in SUBSET _run(rows, SubSeq(h, 1, k))
  PROVE  /\ Sorted(keys) \in Seq(KeysIn(h)) /\ ToSet(Sorted(keys)) = keys
         /\ keys \in SUBSET Keys(k) /\ IsFiniteSet(keys)
         /\ \A i \in 1..Len(Sorted(keys)) : Sorted(keys)[i] \in keys
<1>1. k \in Nat
  BY HierIs
<1>2. keys \in SUBSET Keys(k) /\ IsFiniteSet(keys)
  BY PrefixIs, RunIs, FS_Subset
<1>3. Sorted(keys) \in Seq(keys) /\ ToSet(Sorted(keys)) = keys
  BY <1>1, <1>2, SortedIs
<1>4. keys \subseteq KeysIn(h)
  BY <1>2, KeysShort
<1>5. Sorted(keys) \in Seq(KeysIn(h))
  BY <1>3, <1>4, SeqMonotonic
<1> QED BY <1>2, <1>3, <1>5

(* What a key is as a function.                                              *)
LEMMA KeyIs ==
  ASSUME NEW h \in Hierarchy, NEW p \in KeysIn(h)
  PROVE  /\ p \in Seq(Int) /\ Len(p) \in 0..Len(h) /\ DOMAIN p = 1..Len(p)
         /\ \A i \in 1..Len(p) : p[i] \in Int /\ i \in 1..Len(h)
<1>1. p \in Seq(Int) /\ Len(p) <= Len(h) /\ Len(h) \in Nat
  BY HierIs DEF KeysIn
<1>2. Len(p) \in Nat /\ DOMAIN p = 1..Len(p) /\ \A i \in 1..Len(p) : p[i] \in Int
  BY <1>1
<1> QED BY <1>1, <1>2

(* canon_path keeps the length of a key and makes text of each level.        *)
LEMMA CanonIs ==
  ASSUME NEW h \in Hierarchy, NEW p \in KeysIn(h)
  PROVE  /\ canon_path(p) \in KeysIn(h) /\ Len(canon_path(p)) = Len(p)
         /\ DOMAIN canon_path(p) = 1..Len(p)
         /\ \A i \in 1..Len(p) : canon_path(p)[i] = Text(p[i])
<1>1. \A v \in Int : Text(v) \in Int
  BY DEF Text, Blank
<1>2. canon_path(p) = [i \in 1..Len(p) |-> Text(p[i])]
  BY KeyIs DEF canon_path
<1>a. Len(p) \in Nat /\ \A i \in 1..Len(p) : p[i] \in Int
  BY KeyIs, HierIs
<1>3. Lists(canon_path(p), Len(p), Int) /\ Len(p) \in Nat
  BY <1>1, <1>2, <1>a DEF Lists
<1>4. canon_path(p) \in Seq(Int) /\ Len(canon_path(p)) = Len(p)
  BY <1>3, ListIs
<1> QED BY <1>2, <1>4, KeyIs DEF KeysIn

(* A member assigns its path to the first levels of its hierarchy.           *)
LEMMA MemIs ==
  ASSUME NEW h \in Hierarchy, NEW m \in Mems(h)
  PROVE  /\ m.hier = h /\ m.path \in KeysIn(h) /\ m.drilled \in BOOLEAN
         /\ m = Member(h, m.path, m.drilled)
         /\ DOMAIN m.assignment = {h[i] : i \in 1..Len(m.path)}
         /\ \A i \in 1..Len(m.path) : m.assignment[h[i]] = m.path[i]
<1>1. PICK p \in KeysIn(h), d \in BOOLEAN : m = Member(h, p, d)
  BY DEF Mems
<1> DEFINE A == [f \in {h[i] : i \in DOMAIN p} |-> p[CHOOSE i \in DOMAIN p : h[i] = f]]
<1>2. m.hier = h /\ m.path = p /\ m.drilled = d /\ m.assignment = A
  BY <1>1 DEF Member
<1>3. DOMAIN p = 1..Len(p) /\ \A i \in 1..Len(p) : i \in 1..Len(h)
  BY KeyIs
<1>4. ASSUME NEW i \in 1..Len(p) PROVE A[h[i]] = p[i]
  BY <1>3, HierIs
<1>5. DOMAIN A = {h[i] : i \in 1..Len(p)}
  BY <1>3
<1> HIDE DEF A
<1> QED BY <1>1, <1>2, <1>4, <1>5

(* Member makes members.                                                     *)
LEMMA MemMade ==
  ASSUME NEW h \in Hierarchy, NEW p \in KeysIn(h), NEW d \in BOOLEAN
  PROVE  Member(h, p, d) \in Mems(h)
  BY DEF Mems

(* Marking a member as drilled changes nothing else of it.                   *)
LEMMA MemMarked ==
  ASSUME NEW h \in Hierarchy, NEW m \in Mems(h), NEW d \in BOOLEAN
  PROVE  /\ [m EXCEPT !.drilled = d] = Member(h, m.path, d)
         /\ [m EXCEPT !.drilled = d] \in Mems(h)
<1>1. m = Member(h, m.path, m.drilled) /\ m.path \in KeysIn(h)
  BY MemIs
<1>2. [m EXCEPT !.drilled = d] = Member(h, m.path, d)
  BY <1>1 DEF Member
<1> QED BY <1>1, <1>2, MemMade

(* What is gathered of a hierarchy, field by field.                          *)
LEMMA SpecIs ==
  ASSUME NEW h \in Hierarchy, NEW s \in SpecIn(h)
  PROVE  /\ s.hier = h /\ s.all \in BOOLEAN /\ s.children \in BOOLEAN /\ s.members \in Seq(Value)
         /\ s.drilled \in SUBSET KeysIn(h) /\ IsFiniteSet(s.drilled) /\ s.paths \in Seq(PathsIn(h))
         /\ \A p : IsDrilled(s, p) \in BOOLEAN
         /\ NoneNull(s.drilled)
         /\ s.parent # <<>> => s.parent \in Hierarchy /\ ~ IsUser(s.parent)
  BY DEF SpecIn, SpecSet, IsDrilled

(* The children of a key are the keys one level deeper under its text.       *)
LEMMA ChildrenAre ==
  ASSUME NEW rows \in Table, NEW h \in Hierarchy, NEW prefix \in KeysIn(h)
  PROVE  /\ ChildrenOf(rows, h, prefix) \in Seq(KeysIn(h))
         /\ Len(prefix) < Len(h) => /\ Len(prefix) + 1 \in 1..Len(h)
              /\ ToSet(ChildrenOf(rows, h, prefix)) =
                   {k \in _run(rows, SubSeq(h, 1, Len(prefix) + 1)) : IsPrefix(prefix, canon_path(k))}
         /\ Len(prefix) >= Len(h) => ToSet(ChildrenOf(rows, h, prefix)) = {}
<1>1. Len(prefix) \in Nat /\ Len(h) \in Nat
  BY KeyIs, HierIs
<1>2. CASE Len(prefix) >= Len(h)
  BY <1>2, <1>1, OneSet DEF ChildrenOf
<1>3. CASE Len(prefix) < Len(h)
  <2> DEFINE keys == {k \in _run(rows, SubSeq(h, 1, Len(prefix) + 1)) : IsPrefix(prefix, canon_path(k))}
  <2>1. ChildrenOf(rows, h, prefix) = Sorted(keys)
    BY <1>1, <1>3 DEF ChildrenOf
  <2>2. Len(prefix) + 1 \in 1..Len(h) /\ Len(prefix) + 1 \in 0..Len(h)
    BY <1>1, <1>3
  <2>3. keys \in SUBSET _run(rows, SubSeq(h, 1, Len(prefix) + 1))
    OBVIOUS
  <2> HIDE DEF keys
  <2>4. Sorted(keys) \in Seq(KeysIn(h)) /\ ToSet(Sorted(keys)) = keys
    BY <2>2, <2>3, SortedKeys
  <2>5. ~ Len(prefix) >= Len(h)
    BY <1>1, <1>3
  <2> QED BY <2>1, <2>2, <2>4, <2>5 DEF keys
<1> QED BY <1>1, <1>2, <1>3

(* The nodes a node brings.                                                  *)
LEMMA NodesUnderAre ==
  ASSUME NEW rows \in Table, NEW h \in Hierarchy, NEW s \in SpecIn(h), NEW x \in Nodes(h)
  PROVE  NodesUnder(rows, s, x) \in Seq(Nodes(h))
<1> DEFINE keys == ChildrenOf(rows, s.hier, canon_path(x.key))
           n == Len(keys)
<1>1. x.key \in KeysIn(h) /\ s.hier = h
  BY SpecIs DEF Nodes
<1>2. keys \in Seq(KeysIn(h))
  BY <1>1, CanonIs, ChildrenAre
<1>3. NodesUnder(rows, s, x) = IF x.open THEN [i \in DOMAIN keys |-> Node(s, keys[i])] ELSE <<>>
  BY DEF NodesUnder
<1> HIDE DEF keys
<1>4. n \in Nat /\ DOMAIN keys = 1..n /\ \A i \in 1..n : keys[i] \in KeysIn(h)
  BY <1>2
<1>5. \A i \in 1..n : Node(s, keys[i]) \in Nodes(h)
  BY <1>4, SpecIs DEF Node, Nodes
<1> DEFINE f == [i \in DOMAIN keys |-> Node(s, keys[i])]
<1>6. Lists(f, n, Nodes(h))
  BY <1>4, <1>5 DEF Lists
<1> HIDE DEF f
<1> QED BY <1>3, <1>4, <1>6, ListIs, OneSet DEF f

(* A round of a descent leaves nodes.                                        *)
LEMMA DeeperIs ==
  ASSUME NEW rows \in Table, NEW h \in Hierarchy, NEW s \in SpecIn(h), NEW nodes \in Seq(Nodes(h))
  PROVE  Deeper(rows, s, nodes) \in Seq(Nodes(h))
<1> DEFINE n == Len(nodes)
           parts == [i \in DOMAIN nodes |->
                       <<[nodes[i] EXCEPT !.open = FALSE]>> \o NodesUnder(rows, s, nodes[i])]
<1>1. n \in Nat /\ DOMAIN nodes = 1..n /\ \A i \in 1..n : nodes[i] \in Nodes(h)
  OBVIOUS
<1>2. ASSUME NEW i \in 1..n PROVE parts[i] \in Seq(Nodes(h))
  <2> DEFINE x == nodes[i]
             shut == [x EXCEPT !.open = FALSE]
  <2>1. x \in Nodes(h)
    BY <1>1
  <2>2. parts[i] = <<shut>> \o NodesUnder(rows, s, x)
    BY <1>1
  <2>3. shut \in Nodes(h)
    BY <2>1 DEF Nodes
  <2> HIDE DEF parts, shut, x
  <2>4. <<shut>> \in Seq(Nodes(h)) /\ NodesUnder(rows, s, x) \in Seq(Nodes(h))
    BY <2>1, <2>3, OneSet, NodesUnderAre
  <2> QED BY <2>2, <2>4, ConcatSet
<1>3. Lists(parts, n, Seq(Nodes(h)))
  BY <1>1, <1>2 DEF Lists
<1>4. Deeper(rows, s, nodes) = FlattenSeq(parts)
  BY DEF Deeper
<1> HIDE DEF parts, n
<1> QED BY <1>1, <1>3, <1>4, FlatIs

(* A descent gives keys of the hierarchy.                                    *)
LEMMA DescendIs ==
  ASSUME NEW rows \in Table, NEW h \in Hierarchy, NEW s \in SpecIn(h), NEW prefix \in KeysIn(h)
  PROVE  Descend(rows, s, prefix) \in Seq(KeysIn(h))
<1>1. Len(h) \in Nat /\ s.hier = h
  BY HierIs, SpecIs
<1>a. PICK g : Descends(rows, s, prefix, g)
  BY <1>1, DescendLoop
<1>2. /\ g[0] = <<[key |-> prefix, open |-> TRUE]>>
      /\ \A n \in 1..Len(h) : g[n] = Deeper(rows, s, g[n - 1])
      /\ Descend(rows, s, prefix) = [i \in 1..(Len(g[Len(h)]) - 1) |-> g[Len(h)][i + 1].key]
  BY <1>1, <1>a DEF Descends
<1> DEFINE T == {n \in Nat : n <= Len(h) => g[n] \in Seq(Nodes(h))}
<1>3. 0 \in T
  <2>1. [key |-> prefix, open |-> TRUE] \in Nodes(h)
    BY DEF Nodes
  <2> QED BY <1>2, <2>1, OneSet
<1>4. ASSUME NEW n \in Nat, n \in T PROVE n + 1 \in T
  <2> SUFFICES ASSUME n + 1 <= Len(h) PROVE g[n + 1] \in Seq(Nodes(h))
    OBVIOUS
  <2>1. n <= Len(h) /\ n + 1 \in 1..Len(h) /\ (n + 1) - 1 = n
    BY <1>1
  <2>2. g[n + 1] = Deeper(rows, s, g[n])
    BY <1>2, <2>1
  <2> QED BY <1>4, <2>1, <2>2, DeeperIs
<1> HIDE DEF T
<1>5. Nat \subseteq T
  BY <1>3, <1>4, Induction
<1> DEFINE found == g[Len(h)]
           f == [i \in 1..(Len(found) - 1) |-> found[i + 1].key]
<1>6. found \in Seq(Nodes(h))
  BY <1>1, <1>5 DEF T
<1>7. Descend(rows, s, prefix) = f
  BY <1>2
<1> HIDE DEF found
<1>8. CASE Len(found) = 0
  <2>1. 1..(Len(found) - 1) = 1..0
    BY <1>8
  <2>2. Lists(f, 0, KeysIn(h))
    BY <2>1 DEF Lists
  <2> HIDE DEF f
  <2> QED BY <1>7, <2>2, ListIs
<1>9. CASE Len(found) # 0
  <2>1. Len(found) - 1 \in Nat /\ \A i \in 1..(Len(found) - 1) : found[i + 1] \in Nodes(h)
    BY <1>6, <1>9
  <2>2. Lists(f, Len(found) - 1, KeysIn(h))
    BY <2>1 DEF Lists, Nodes
  <2> HIDE DEF f
  <2> QED BY <1>7, <2>1, <2>2, ListIs
<1> QED BY <1>8, <1>9

(* So does one into a drilled path only.                                     *)
LEMMA IntoIs ==
  ASSUME NEW rows \in Table, NEW h \in Hierarchy, NEW s \in SpecIn(h), NEW prefix \in KeysIn(h)
  PROVE  DescendInto(rows, s, prefix) \in Seq(KeysIn(h))
  BY DescendIs, OneSet DEF DescendInto

(* A named path is resolved to a key.                                        *)
LEMMA ResolvedIs ==
  ASSUME NEW rows \in Table, NEW h \in Hierarchy, NEW p \in KeysIn(h)
  PROVE  _resolve_path(rows, h, p) \in KeysIn(h)
<1> DEFINE keys == {k \in _run(rows, SubSeq(h, 1, Len(p))) : canon_path(k) = p}
<1>1. _resolve_path(rows, h, p) = IF keys = {} THEN p ELSE Sorted(keys)[1]
  BY DEF _resolve_path
<1>2. keys \in SUBSET _run(rows, SubSeq(h, 1, Len(p))) /\ Len(p) \in 0..Len(h)
  BY KeyIs
<1> HIDE DEF keys
<1>3. Sorted(keys) \in Seq(KeysIn(h)) /\ ToSet(Sorted(keys)) = keys
  BY <1>2, SortedKeys
<1>4. keys # {} => Sorted(keys)[1] \in KeysIn(h)
  BY <1>3, InSeq
<1> QED BY <1>1, <1>4

(* The keys of whole levels.                                                 *)
LEMMA FlatKeysAre ==
  ASSUME NEW rows \in Table, NEW h \in Hierarchy, NEW s \in SpecIn(h)
  PROVE  FlatKeys(rows, s) \in Seq(KeysIn(h))
<1> DEFINE n == Len(h)
           parts == [i \in DOMAIN h |-> IF i \in s.flat THEN Sorted(_run(rows, SubSeq(h, 1, i))) ELSE <<>>]
<1>1. n \in Nat /\ DOMAIN h = 1..n /\ s.hier = h
  BY HierIs, SpecIs
<1>2. ASSUME NEW i \in 1..n PROVE parts[i] \in Seq(KeysIn(h))
  <2>1. parts[i] = IF i \in s.flat THEN Sorted(_run(rows, SubSeq(h, 1, i))) ELSE <<>>
    BY <1>1
  <2>2. i \in 0..Len(h)
    BY <1>1
  <2> HIDE DEF parts
  <2> QED BY <2>1, <2>2, SortedKeys, OneSet
<1>3. Lists(parts, n, Seq(KeysIn(h)))
  BY <1>1, <1>2 DEF Lists
<1>4. FlatKeys(rows, s) = FlattenSeq(parts)
  BY <1>1 DEF FlatKeys
<1> HIDE DEF parts, n
<1> QED BY <1>1, <1>3, <1>4, FlatIs

(* The keys of named paths and of what is drilled under them.                *)
LEMMA NamedKeysAre ==
  ASSUME NEW rows \in Table, NEW h \in Hierarchy, NEW s \in SpecIn(h)
  PROVE  NamedKeys(rows, s) \in Seq(KeysIn(h))
<1> DEFINE n == Len(s.paths)
           parts == [i \in DOMAIN s.paths |->
                       <<_resolve_path(rows, h, s.paths[i])>> \o DescendInto(rows, s, s.paths[i])]
<1>0. s.paths \in Seq(PathsIn(h)) /\ s.hier = h
  BY SpecIs
<1>1. n \in Nat /\ DOMAIN s.paths = 1..n /\ \A i \in 1..n : s.paths[i] \in KeysIn(h)
  BY <1>0, PathIsKey
<1>2. ASSUME NEW i \in 1..n PROVE parts[i] \in Seq(KeysIn(h))
  <2> DEFINE p == s.paths[i]
             q == _resolve_path(rows, h, p)
  <2>1. p \in KeysIn(h)
    BY <1>1
  <2>2. parts[i] = <<q>> \o DescendInto(rows, s, p)
    BY <1>1
  <2>3. q \in KeysIn(h)
    BY <2>1, ResolvedIs
  <2> HIDE DEF parts, p, q
  <2>4. <<q>> \in Seq(KeysIn(h)) /\ DescendInto(rows, s, p) \in Seq(KeysIn(h))
    BY <2>1, <2>3, OneSet, IntoIs
  <2> QED BY <2>2, <2>4, ConcatSet
<1>3. Lists(parts, n, Seq(KeysIn(h)))
  BY <1>1, <1>2 DEF Lists
<1>4. NamedKeys(rows, s) = FlattenSeq(parts)
  BY <1>0 DEF NamedKeys
<1> HIDE DEF parts, n
<1> QED BY <1>1, <1>3, <1>4, FlatIs

(* The root has the empty key.                                               *)
LEMMA EmptyKey == \A h \in Hierarchy : <<>> \in KeysIn(h)
<1> SUFFICES ASSUME NEW h \in Hierarchy PROVE <<>> \in KeysIn(h)
  OBVIOUS
<1>1. Len(h) \in Nat
  BY HierIs
<1>2. <<>> \in Seq(Int) /\ Len(<<>>) = 0
  OBVIOUS
<1> QED BY <1>1, <1>2 DEF KeysIn

(* The keys shown before hidden drilled paths are added.                     *)
LEMMA ShownKeysAre ==
  ASSUME NEW rows \in Table, NEW h \in Hierarchy, NEW s \in SpecIn(h)
  PROVE  ShownKeys(rows, s) \in Seq(KeysIn(h))
<1> DEFINE a == FlatKeys(rows, s)
           b == DescendInto(rows, s, <<>>)
           c == NamedKeys(rows, s)
           S == KeysIn(h)
<1>1. a \in Seq(S) /\ b \in Seq(S) /\ c \in Seq(S)
  BY FlatKeysAre, NamedKeysAre, IntoIs, EmptyKey
<1>2. ShownKeys(rows, s) = a \o b \o c
  BY DEF ShownKeys
<1> HIDE DEF a, b, c, S
<1>3. a \o b \in Seq(S)
  BY <1>1, ConcatSet
<1>4. a \o b \o c \in Seq(S)
  BY <1>1, <1>3, ConcatSet
<1> QED BY <1>2, <1>4 DEF S

(* Drilled paths, shortest first, are keys.                                  *)
LEMMA ByLengthIs ==
  ASSUME NEW h \in Hierarchy, NEW s \in SpecIn(h)
  PROVE  ByLength(s) \in Seq(KeysIn(h))
<1> DEFINE n == Len(h)
           parts == [i \in DOMAIN h |-> Sorted({p \in s.drilled : Len(p) = i})]
<1>1. n \in Nat /\ DOMAIN h = 1..n /\ s.hier = h
  BY HierIs, SpecIs
<1>2. ASSUME NEW i \in 1..n PROVE parts[i] \in Seq(KeysIn(h))
  <2> DEFINE keys == {p \in s.drilled : Len(p) = i}
  <2>1. parts[i] = Sorted(keys)
    BY <1>1
  <2>2. keys \in SUBSET s.drilled /\ s.drilled \in SUBSET KeysIn(h) /\ IsFiniteSet(s.drilled)
    BY SpecIs
  <2>3. IsFiniteSet(keys)
    BY <2>2, FS_Subset
  <2>4. \A p \in keys : p \in Keys(i)
    <3> SUFFICES ASSUME NEW p \in keys PROVE p \in Keys(i)
      OBVIOUS
    <3>1. p \in Seq(Int) /\ Len(p) = i
      BY <2>2 DEF KeysIn
    <3> QED BY <3>1 DEF Keys
  <2> HIDE DEF parts, keys
  <2>5. Sorted(keys) \in Seq(keys)
    BY <1>1, <2>3, <2>4, SortedIs
  <2>6. keys \subseteq KeysIn(h)
    BY <2>2
  <2> QED BY <2>1, <2>5, <2>6, SeqMonotonic
<1>3. Lists(parts, n, Seq(KeysIn(h)))
  BY <1>1, <1>2 DEF Lists
<1>4. ByLength(s) = FlattenSeq(parts)
  BY <1>1 DEF ByLength
<1> HIDE DEF parts, n
<1> QED BY <1>1, <1>3, <1>4, FlatIs

(* All keys of a user hierarchy's members are keys of it.                    *)
LEMMA AllKeysAre ==
  ASSUME NEW rows \in Table, NEW h \in Hierarchy, NEW s \in SpecIn(h)
  PROVE  AllKeys(rows, s) \in Seq(KeysIn(h))
<1> DEFINE b == ByLength(s)
<1>1. b \in Seq(KeysIn(h)) /\ Len(b) \in Nat
  BY ByLengthIs
<1>2. PICK g : /\ g[0] = ShownKeys(rows, s) /\ AllKeys(rows, s) = g[Len(b)]
               /\ \A n \in 1..Len(b) : g[n] = WithHidden(rows, s, g[n - 1], b[n])
  BY <1>1, HiddenLoop
<1> HIDE DEF b
<1> DEFINE T == {n \in Nat : n <= Len(b) => g[n] \in Seq(KeysIn(h))}
<1>3. 0 \in T
  BY <1>2, ShownKeysAre
<1>4. ASSUME NEW n \in Nat, n \in T PROVE n + 1 \in T
  <2> SUFFICES ASSUME n + 1 <= Len(b) PROVE g[n + 1] \in Seq(KeysIn(h))
    OBVIOUS
  <2>1. n <= Len(b) /\ n + 1 \in 1..Len(b) /\ (n + 1) - 1 = n
    BY <1>1
  <2>2. g[n + 1] = WithHidden(rows, s, g[n], b[n + 1])
    BY <1>2, <2>1
  <2>3. g[n] \in Seq(KeysIn(h)) /\ b[n + 1] \in KeysIn(h)
    BY <1>1, <1>4, <2>1
  <2>4. Descend(rows, s, b[n + 1]) \in Seq(KeysIn(h))
    BY <2>3, DescendIs
  <2> QED BY <2>2, <2>3, <2>4, ConcatSet DEF WithHidden
<1> HIDE DEF T
<1>5. Nat \subseteq T
  BY <1>3, <1>4, Induction
<1>6. Len(b) \in T /\ Len(b) <= Len(b)
  BY <1>1, <1>5
<1> QED BY <1>2, <1>6 DEF T

(* Leaving out keys with the name of an earlier one leaves keys.             *)
LEMMA EmittedIs ==
  ASSUME NEW h \in Hierarchy, NEW keys \in Seq(KeysIn(h))
  PROVE  Emitted(keys) \in Seq(KeysIn(h))
<1> DEFINE n == Len(keys)
           parts == [i \in DOMAIN keys |->
             IF \E j \in 1..(i - 1) : canon_path(keys[j]) = canon_path(keys[i]) THEN <<>> ELSE <<keys[i]>>]
<1>1. n \in Nat /\ DOMAIN keys = 1..n /\ \A i \in 1..n : keys[i] \in KeysIn(h)
  OBVIOUS
<1>2. ASSUME NEW i \in 1..n PROVE parts[i] \in Seq(KeysIn(h))
  <2>1. parts[i] \in {<<>>, <<keys[i]>>}
    BY <1>1
  <2> HIDE DEF parts
  <2>2. <<>> \in Seq(KeysIn(h)) /\ <<keys[i]>> \in Seq(KeysIn(h))
    BY <1>1, OneSet
  <2> QED BY <2>1, <2>2
<1>3. Lists(parts, n, Seq(KeysIn(h)))
  BY <1>1, <1>2 DEF Lists
<1>4. Emitted(keys) = FlattenSeq(parts)
  BY DEF Emitted
<1> HIDE DEF parts, n
<1> QED BY <1>1, <1>3, <1>4, FlatIs

(* A user hierarchy's members are members of it.                             *)
LEMMA UserMembersAre ==
  ASSUME NEW rows \in Table, NEW h \in Hierarchy, NEW s \in SpecIn(h)
  PROVE  _userhier_members(rows, s) \in Seq(Mems(h))
<1> DEFINE top == IF s.all THEN << <<>> >> ELSE <<>>
           keys == top \o Emitted(AllKeys(rows, s))
           n == Len(keys)
           f == [i \in DOMAIN keys |-> UserMemberOf(s, keys[i])]
<1>1. keys \in Seq(KeysIn(h))
  <2>1. top \in Seq(KeysIn(h))
    BY EmptyKey, OneSet
  <2>2. Emitted(AllKeys(rows, s)) \in Seq(KeysIn(h))
    BY AllKeysAre, EmittedIs
  <2> HIDE DEF top
  <2> QED BY <2>1, <2>2, ConcatSet
<1>2. _userhier_members(rows, s) = f
  BY DEF _userhier_members
<1> HIDE DEF keys
<1>3. n \in Nat /\ DOMAIN keys = 1..n /\ \A i \in 1..n : keys[i] \in KeysIn(h)
  BY <1>1
<1>4. \A i \in 1..n : UserMemberOf(s, keys[i]) \in Mems(h)
  <2> SUFFICES ASSUME NEW p \in KeysIn(h) PROVE UserMemberOf(s, p) \in Mems(h)
    BY <1>3
  <2>1. s.hier = h /\ (Len(p) < Len(s.hier) /\ IsDrilled(s, canon_path(p))) \in BOOLEAN
    BY SpecIs
  <2> QED BY <2>1, MemMade DEF UserMemberOf
<1>5. Lists(f, n, Mems(h))
  BY <1>3, <1>4 DEF Lists
<1> HIDE DEF f
<1> QED BY <1>2, <1>3, <1>5, ListIs

(* So are an attribute hierarchy's.                                          *)
LEMMA AttributeMembersAre ==
  ASSUME NEW rows \in Table, NEW h \in Hierarchy, ~ IsUser(h), NEW s \in SpecIn(h)
  PROVE  AttributeMembers(rows, s) \in Seq(Mems(h))
<1> DEFINE values == Sorted(_run(rows, h))
           top == IF s.all THEN <<Member(h, <<>>, TRUE)>> ELSE <<>>
           f == [i \in DOMAIN values |-> Member(h, values[i], FALSE)]
           g == [i \in DOMAIN s.members |-> Member(h, <<s.members[i]>>, FALSE)]
<1>1. AttributeMembers(rows, s) = top \o (IF s.children THEN f ELSE g)
  BY SpecIs DEF AttributeMembers
<1>2. Len(h) = 1
  <2>1. Len(h) \in Nat /\ Len(h) # 0
    BY HierIs
  <2>2. ~ (Len(h) > 1)
    BY DEF IsUser
  <2> QED BY <2>1, <2>2
<1>3. values \in Seq(KeysIn(h))
  <2>1. h \in Seq(Field) /\ 1 \in 0..Len(h)
    BY <1>2, HierIs
  <2>2. SubSeq(h, 1, 1) = h
    BY <1>2, <2>1, SubSeqFull
  <2>3. _run(rows, h) \in SUBSET _run(rows, SubSeq(h, 1, 1))
    BY <2>2
  <2> QED BY <2>1, <2>3, SortedKeys
<1>4. top \in Seq(Mems(h))
  BY EmptyKey, MemMade, OneSet
<1>5. f \in Seq(Mems(h))
  <2> HIDE DEF values
  <2>1. Len(values) \in Nat /\ DOMAIN values = 1..Len(values)
        /\ \A i \in 1..Len(values) : values[i] \in KeysIn(h)
    BY <1>3
  <2>2. \A i \in 1..Len(values) : Member(h, values[i], FALSE) \in Mems(h)
    BY <2>1, MemMade
  <2>3. Lists(f, Len(values), Mems(h))
    BY <2>1, <2>2 DEF Lists
  <2> HIDE DEF f
  <2> QED BY <2>1, <2>3, ListIs
<1>6. g \in Seq(Mems(h))
  <2> DEFINE ms == s.members
  <2>0. ms \in Seq(Value)
    BY SpecIs
  <2> HIDE DEF ms
  <2>1. Len(ms) \in Nat /\ DOMAIN ms = 1..Len(ms) /\ \A i \in 1..Len(ms) : ms[i] \in Value
    BY <2>0
  <2>2. \A v \in Value : <<v>> \in KeysIn(h)
    BY ValueAssumption, <1>2 DEF KeysIn
  <2>3. \A i \in 1..Len(ms) : Member(h, <<ms[i]>>, FALSE) \in Mems(h)
    BY <2>1, <2>2, MemMade
  <2>4. Lists(g, Len(ms), Mems(h))
    BY <2>1, <2>3 DEF Lists, ms
  <2> HIDE DEF g
  <2> QED BY <2>1, <2>4, ListIs
<1> HIDE DEF top, f, g
<1> QED BY <1>1, <1>4, <1>5, <1>6, ConcatSet

(* So are any hierarchy's.                                                   *)
LEMMA MembersAre ==
  ASSUME NEW rows \in Table, NEW h \in Hierarchy, NEW s \in SpecIn(h)
  PROVE  MembersOf(rows, s) \in Seq(Mems(h))
<1>1. s.hier = h
  BY SpecIs
<1> QED BY <1>1, UserMembersAre, AttributeMembersAre DEF MembersOf

(* A member belongs to its own hierarchy.                                    *)
LEMMA AnyMemIs ==
  ASSUME NEW m \in AnyMem
  PROVE  m.hier \in Hierarchy /\ m \in Mems(m.hier)
<1>1. PICK h \in Hierarchy : m \in Mems(h)
  BY DEF AnyMem
<1>2. m.hier = h
  BY <1>1, MemIs
<1> QED BY <1>1, <1>2

(* What is gathered of each hierarchy of an axis, in its order.              *)
LEMMA SpecsAre ==
  ASSUME NEW st, StateOK(st)
  PROVE  /\ DOMAIN Specs(st) = 1..Len(st.order) /\ Len(Specs(st)) = Len(st.order) /\ Len(st.order) \in Nat
         /\ \A i \in 1..Len(st.order) : /\ Specs(st)[i] = st.spec[st.order[i]] /\ st.order[i] \in Hierarchy
                                        /\ Specs(st)[i] \in SpecIn(st.order[i])
         /\ ToSet(Specs(st)) = {st.spec[h] : h \in ToSet(st.order)}
<1> DEFINE n == Len(st.order)
<1>1. n \in Nat /\ DOMAIN st.order = 1..n /\ \A i \in 1..n : st.order[i] \in Hierarchy
  BY DEF StateOK
<1>2. Specs(st) = [i \in 1..n |-> st.spec[st.order[i]]]
  BY <1>1 DEF Specs
<1>3. \A i \in 1..n : st.spec[st.order[i]] \in SpecIn(st.order[i])
  BY <1>1 DEF StateOK
<1>4. Len(Specs(st)) = n /\ DOMAIN Specs(st) = 1..n
  BY <1>1, <1>2
<1>5. \A i \in 1..n : Specs(st)[i] = st.spec[st.order[i]]
  BY <1>2
<1>6. ToSet(Specs(st)) = {st.spec[h] : h \in ToSet(st.order)}
  BY <1>1, <1>4, <1>5 DEF ToSet
<1> QED BY <1>1, <1>3, <1>4, <1>5, <1>6

(* Marking the drilled members leaves members.                               *)
LEMMA MarkedAre ==
  ASSUME NEW st, StateOK(st), NEW i \in 1..Len(st.order), NEW ms \in Seq(Mems(st.order[i]))
  PROVE  Marked(Specs(st), i, ms) \in Seq(Mems(st.order[i]))
<1> DEFINE h == st.order[i]
           n == Len(ms)
           new(m) == IF m.path = <<>> THEN m
                     ELSE [m EXCEPT !.drilled = _parent_drilled(Specs(st)[i + 1], Specs(st)[i], m.path[1])]
           f == [j \in DOMAIN ms |-> IF ms[j].path = <<>> THEN ms[j]
                   ELSE [ms[j] EXCEPT !.drilled = _parent_drilled(Specs(st)[i + 1], Specs(st)[i], ms[j].path[1])]]
<1>1. h \in Hierarchy
  BY SpecsAre
<1>2. n \in Nat /\ DOMAIN ms = 1..n /\ \A j \in 1..n : ms[j] \in Mems(h)
  OBVIOUS
<1>3. \A c, p, v : _parent_drilled(c, p, v) \in BOOLEAN
  BY DEF _parent_drilled
<1> HIDE DEF h
<1>4. \A m \in Mems(h) : new(m) \in Mems(h)
  BY <1>1, <1>3, MemMarked
<1>5. \A j \in 1..n : f[j] = new(ms[j])
  BY <1>2
<1> HIDE DEF new
<1>6. \A j \in 1..n : f[j] \in Mems(h)
  BY <1>2, <1>4, <1>5
<1>a. DOMAIN f = 1..n /\ f = [j \in DOMAIN f |-> f[j]]
  BY <1>2
<1>b. Marked(Specs(st), i, ms) = IF i = Len(Specs(st)) THEN ms ELSE f
  BY DEF Marked
<1> HIDE DEF f
<1>7. Lists(f, n, Mems(h))
  BY <1>6, <1>a DEF Lists
<1> QED BY <1>2, <1>7, <1>b, ListIs DEF h

(* A column has members of its own hierarchy.                                *)
LEMMA ColumnsAre ==
  ASSUME NEW rows \in Table, NEW st, StateOK(st)
  PROVE  /\ DOMAIN Columns(rows, Specs(st)) = 1..Len(st.order)
         /\ \A i \in 1..Len(st.order) : Columns(rows, Specs(st))[i] \in Seq(Mems(st.order[i]))
<1>1. /\ DOMAIN Specs(st) = 1..Len(st.order)
      /\ \A i \in 1..Len(st.order) : st.order[i] \in Hierarchy /\ Specs(st)[i] \in SpecIn(st.order[i])
  BY SpecsAre
<1>2. \A i \in 1..Len(st.order) : MembersOf(rows, Specs(st)[i]) \in Seq(Mems(st.order[i]))
  BY <1>1, MembersAre
<1>3. \A i \in 1..Len(st.order) : Marked(Specs(st), i, MembersOf(rows, Specs(st)[i])) \in Seq(Mems(st.order[i]))
  BY <1>2, MarkedAre
<1> QED BY <1>1, <1>3 DEF Columns

(* Finite sets have finitely many functions between them.                    *)
LEMMA FiniteFunctions ==
  ASSUME NEW D, NEW S, IsFiniteSet(D), IsFiniteSet(S)
  PROVE  IsFiniteSet([D -> S])
<1> DEFINE graph == [f \in [D -> S] |-> {<<d, f[d]>> : d \in D}]
<1>1. IsFiniteSet(SUBSET (D \X S))
  BY FS_Product, FS_SUBSET
<1>2. graph \in [[D -> S] -> SUBSET (D \X S)]
  OBVIOUS
<1>3. ASSUME NEW f \in [D -> S], NEW g \in [D -> S], graph[f] = graph[g] PROVE f = g
  <2>1. ASSUME NEW d \in D PROVE f[d] = g[d]
    <3>1. <<d, f[d]>> \in graph[f]
      OBVIOUS
    <3>2. <<d, f[d]>> \in {<<e, g[e]>> : e \in D}
      BY <1>3, <3>1
    <3> QED BY <3>2
  <2> QED BY <2>1
<1> HIDE DEF graph
<1>4. graph \in Injection([D -> S], SUBSET (D \X S))
  BY <1>2, <1>3 DEF Injection, IsInjective
<1> QED BY <1>1, <1>4, FS_Injection

(* The tuples an axis enumerates have a member of each hierarchy.            *)
LEMMA CrossedAre ==
  ASSUME NEW rows \in Table, NEW st, StateOK(st)
  PROVE  Crossed(rows, Columns(rows, Specs(st)), Specs(st)) \in Seq(TupSet(st))
<1> DEFINE n == Len(st.order)
           columns == Columns(rows, Specs(st))
           S == UNION {DOMAIN columns[i] : i \in DOMAIN columns}
           at(ix) == [i \in DOMAIN columns |-> columns[i][ix[i]]]
           ok(ix) == Occurs(rows, Specs(st), Assigned(at(ix)))
           places == {ix \in [DOMAIN columns -> S] :
                        (\A i \in DOMAIN columns : ix[i] \in DOMAIN columns[i]) /\ ok(ix)}
           order == Sorted(places)
           f == [k \in DOMAIN order |-> at(order[k])]
<1>1. n \in Nat /\ DOMAIN columns = 1..n /\ \A i \in 1..n : columns[i] \in Seq(Mems(st.order[i])) /\ st.order[i] \in Hierarchy
  BY SpecsAre, ColumnsAre
<1>2. Crossed(rows, columns, Specs(st)) = f
  BY DEF Crossed
<1> HIDE DEF columns
<1>a. \A i \in 1..n : DOMAIN columns[i] = 1..Len(columns[i]) /\ Len(columns[i]) \in Nat
  BY <1>1
<1>3. IsFiniteSet(S) /\ S \subseteq Int
  <2> DEFINE doms == {DOMAIN columns[i] : i \in DOMAIN columns}
             g == [i \in 1..n |-> DOMAIN columns[i]]
  <2>1. g \in Surjection(1..n, doms)
    BY <1>1 DEF Surjection
  <2>2. IsFiniteSet(1..n)
    BY <1>1, FS_Interval
  <2> HIDE DEF g
  <2>3. IsFiniteSet(doms)
    BY <2>1, <2>2, FS_Surjection
  <2>4. \A D \in doms : IsFiniteSet(D) /\ D \subseteq Int
    <3>1. \A k \in Nat : IsFiniteSet(1..k) /\ 1..k \subseteq Int
      BY FS_Interval
    <3> QED BY <1>1, <1>a, <3>1
  <2> HIDE DEF doms
  <2>5. IsFiniteSet(UNION doms) /\ UNION doms \subseteq Int
    BY <2>3, <2>4, FS_UNION
  <2> QED BY <2>5 DEF doms
<1>4. IsFiniteSet(places) /\ places \in SUBSET Keys(n)
  <2>1. IsFiniteSet(1..n)
    BY <1>1, FS_Interval
  <2> HIDE DEF S
  <2>2. IsFiniteSet([1..n -> S])
    BY <1>3, <2>1, FiniteFunctions
  <2> HIDE DEF ok
  <2>3. places \in SUBSET [1..n -> S]
    BY <1>1
  <2>4. [1..n -> S] \subseteq Keys(n)
    BY <1>3 DEF Keys
  <2> HIDE DEF places
  <2> QED BY <2>2, <2>3, <2>4, FS_Subset
<1>5. \A ix \in places : at(ix) \in TupSet(st)
  <2> SUFFICES ASSUME NEW ix \in places PROVE at(ix) \in TupSet(st)
    OBVIOUS
  <2>1. \A i \in 1..n : ix[i] \in DOMAIN columns[i]
    BY <1>1
  <2>2. \A i \in 1..n : columns[i][ix[i]] \in Mems(st.order[i])
    BY <1>1, <2>1
  <2>3. \A i \in 1..n : columns[i][ix[i]] \in AnyMem /\ columns[i][ix[i]].hier = st.order[i]
    BY <1>1, <2>2, MemIs DEF AnyMem
  <2>4. at(ix) = [i \in 1..n |-> columns[i][ix[i]]]
    BY <1>1
  <2> QED BY <2>3, <2>4 DEF TupSet
<1> HIDE DEF places
<1>6. order \in Seq(places)
  BY <1>1, <1>4, SortedIs
<1> HIDE DEF order
<1>7. Len(order) \in Nat /\ DOMAIN order = 1..Len(order) /\ \A k \in 1..Len(order) : order[k] \in places
  BY <1>6
<1>b. \A k \in 1..Len(order) : f[k] = at(order[k])
  BY <1>7
<1> HIDE DEF at
<1>c. DOMAIN f = 1..Len(order) /\ f = [k \in DOMAIN f |-> f[k]]
  BY <1>7
<1> HIDE DEF f
<1>8. Lists(f, Len(order), TupSet(st))
  BY <1>5, <1>7, <1>b, <1>c DEF Lists
<1> QED BY <1>2, <1>7, <1>8, ListIs DEF columns

(* A tuple with each of the measures.                                        *)
LEMMA MeasuredIs ==
  ASSUME NEW S, NEW t \in S, NEW has, NEW measures \in Seq(Nat)
  PROVE  Measured(t, has, measures) \in Seq([members : S, measure : Nat])
<1> DEFINE n == Len(measures)
           f == [k \in DOMAIN measures |-> [members |-> t, measure |-> measures[k]]]
           none == [members |-> t, measure |-> NoMetric]
           A == [members : S, measure : Nat]
<1>1. n \in Nat /\ DOMAIN measures = 1..n /\ \A k \in 1..n : measures[k] \in Nat
  OBVIOUS
<1>2. Lists(f, n, A)
  BY <1>1 DEF Lists
<1>3. none \in A
  BY DEF NoMetric
<1>4. Measured(t, has, measures) \in {f, <<none>>, <<>>}
  BY DEF Measured
<1> HIDE DEF f, none, A, n
<1>5. f \in Seq(A) /\ <<none>> \in Seq(A) /\ <<>> \in Seq(A)
  BY <1>1, <1>2, <1>3, ListIs, OneSet
<1> QED BY <1>4, <1>5 DEF A

(* Every tuple with each of the measures.                                    *)
LEMMA EachMeasuredIs ==
  ASSUME NEW S, NEW ts \in Seq(S), NEW has, NEW measures \in Seq(Nat)
  PROVE  EachMeasured(ts, has, measures) \in Seq([members : S, measure : Nat])
<1> DEFINE n == Len(ts)
           parts == [i \in DOMAIN ts |-> Measured(ts[i], has, measures)]
           A == [members : S, measure : Nat]
<1>1. n \in Nat /\ DOMAIN ts = 1..n /\ \A i \in 1..n : ts[i] \in S
  OBVIOUS
<1>a. \A i \in 1..n : Measured(ts[i], has, measures) \in Seq(A)
  <2> HIDE DEF n
  <2> QED BY <1>1, MeasuredIs
<1> HIDE DEF A
<1>2. Lists(parts, n, Seq(A))
  BY <1>1, <1>a DEF Lists
<1>3. EachMeasured(ts, has, measures) = FlattenSeq(parts)
  BY DEF EachMeasured
<1> HIDE DEF parts, n
<1> QED BY <1>1, <1>2, <1>3, FlatIs DEF A

(* The tuples of an axis, measures included.                                 *)
LEMMA TuplesAre ==
  ASSUME NEW rows \in Table, NEW st, StateOK(st), NEW measures \in Seq(Nat)
  PROVE  Tuples(rows, st, measures) \in Seq(AxisTup(st))
<1> DEFINE ts == Crossed(rows, Columns(rows, Specs(st)), Specs(st))
<1>1. ts \in Seq(TupSet(st))
  BY CrossedAre
<1>2. Tuples(rows, st, measures) = EachMeasured(ts, st.measures # <<>>, measures)
  BY DEF Tuples
<1> DEFINE S == TupSet(st)
           has == st.measures # <<>>
<1> HIDE DEF ts, S, has
<1>3. ts \in Seq(S)
  BY <1>1 DEF S
<1>4. EachMeasured(ts, has, measures) \in Seq([members : S, measure : Nat])
  BY <1>3, EachMeasuredIs
<1> QED BY <1>2, <1>4 DEF AxisTup, S, has

(* The measures of a statement are numbers.                                  *)
LEMMA MeasuresAre ==
  ASSUME NEW n \in Nat, NEW cl, DOMAIN cl = 1..n, \A i \in 1..n : StateOK(cl[i]), NEW slicer \in Seq(Entry)
  PROVE  MeasuresOf(cl, slicer) \in Seq(Nat)
<1> DEFINE a == [i \in DOMAIN cl |-> cl[i].measures]
           b == [i \in DOMAIN slicer |-> IF slicer[i].kind = "measure" THEN <<slicer[i].name>> ELSE <<>>]
           k == Len(slicer)
<1>1. \A i \in 1..n : a[i] \in Seq(Nat)
  <2>1. \A st : StateOK(st) => st.measures \in Seq(Nat)
    BY SeqMonotonic DEF StateOK
  <2> QED BY <2>1
<1>2. Lists(a, n, Seq(Nat))
  BY <1>1 DEF Lists
<1>3. k \in Nat /\ DOMAIN slicer = 1..k /\ \A i \in 1..k : slicer[i] \in Entry
  OBVIOUS
<1>4. ASSUME NEW i \in 1..k PROVE b[i] \in Seq(Nat)
  <2>1. b[i] = IF slicer[i].kind = "measure" THEN <<slicer[i].name>> ELSE <<>>
    BY <1>3
  <2>2. slicer[i].kind = "measure" => slicer[i].name \in Nat
    BY <1>3, EntryIs
  <2> HIDE DEF b
  <2> QED BY <2>1, <2>2, OneSet
<1>5. Lists(b, k, Seq(Nat))
  BY <1>3, <1>4 DEF Lists
<1>6. MeasuresOf(cl, slicer) \in {FlattenSeq(a), FlattenSeq(b)}
  BY DEF MeasuresOf, FirstNonEmpty
<1> HIDE DEF a, b, k
<1>7. FlattenSeq(a) \in Seq(Nat) /\ FlattenSeq(b) \in Seq(Nat)
  BY <1>2, <1>3, <1>5, FlatIs
<1> QED BY <1>6, <1>7

(* What a statement is made of.                                              *)
LEMMA StatementIs ==
  ASSUME NEW s \in Statement
  PROVE  /\ s.axes \in Seq(Seq(Entry)) /\ s.slicer \in Seq(Entry) /\ s.subselects \in SUBSET Seq(Entry)
         /\ Len(s.axes) \in 0..2 /\ DOMAIN s.axes = 1..Len(s.axes)
         /\ AxesTyped(s.axes) /\ \A t \in s.subselects : SubselectTyped(t)
<1>1. /\ s.axes \in Seq(Seq(Entry)) /\ s.slicer \in Seq(Entry) /\ s.subselects \in SUBSET Seq(Entry)
      /\ AxesTyped(s.axes) /\ \A t \in s.subselects : SubselectTyped(t)
  BY StatementAssumption
<1>2. Len(s.axes) <= 2
  BY <1>1 DEF AxesTyped
<1>3. Len(s.axes) \in Nat /\ DOMAIN s.axes = 1..Len(s.axes)
  BY <1>1
<1>4. Len(s.axes) \in 0..2
  <2> DEFINE n == Len(s.axes)
  <2>1. n \in Nat /\ n <= 2
    BY <1>2, <1>3
  <2> HIDE DEF n
  <2>2. n \in 0..2
    BY <2>1
  <2> QED BY <2>2 DEF n
<1> QED BY <1>1, <1>3, <1>4

(* Every axis of a statement is classified soundly.                          *)
LEMMA ClassifiedAre ==
  ASSUME NEW s \in Statement
  PROVE  /\ DOMAIN Classified(s) = 1..Len(s.axes) /\ Len(Classified(s)) = Len(s.axes)
         /\ \A i \in 1..Len(s.axes) : /\ Classified(s)[i] = _classify(s.axes[i]) /\ StateOK(Classified(s)[i])
                                      /\ s.axes[i] \in Seq(Entry)
<1>1. Len(s.axes) \in Nat /\ DOMAIN s.axes = 1..Len(s.axes) /\ \A i \in 1..Len(s.axes) : s.axes[i] \in Seq(Entry)
  BY StatementIs
<1>2. \A i \in 1..Len(s.axes) : StateOK(_classify(s.axes[i]))
  BY <1>1, ClassifiedOK
<1>3. Classified(s) = [i \in 1..Len(s.axes) |-> _classify(s.axes[i])]
  BY <1>1 DEF Classified
<1>4. DOMAIN Classified(s) = 1..Len(s.axes) /\ \A i \in 1..Len(s.axes) : Classified(s)[i] = _classify(s.axes[i])
  BY <1>3
<1>5. Len(Classified(s)) = Len(s.axes)
  BY <1>1, <1>3
<1> QED BY <1>1, <1>2, <1>4, <1>5

(* Without tuples no axis is shown.                                          *)
LEMMA PlacesNone ==
  ASSUME NEW n \in Nat, NEW T, \A i \in 1..n : T[i] = <<>>
  PROVE  Places(n, T, <<>>, <<>>)
  BY DEF Places

(* With tuples on one axis that one is shown.                                *)
LEMMA PlacesOne ==
  ASSUME NEW n \in Nat, NEW T, NEW a \in 1..n, T[a] # <<>>, \A i \in 1..n : i # a => T[i] = <<>>
  PROVE  Places(n, T, <<T[a]>>, <<a>>)
<1> DEFINE N == <<T[a]>>
           k == <<a>>
<1>1. Len(N) = 1 /\ DOMAIN N = 1..1 /\ N[1] = T[a] /\ Len(k) = 1 /\ k[1] = a
  OBVIOUS
<1>2. 1 \in 0..n /\ 1 \in 1..1 /\ \A i \in 1..1 : i = 1
  OBVIOUS
<1> HIDE DEF N, k
<1>3. Places(n, T, N, k)
  BY <1>1, <1>2 DEF Places
<1> QED BY <1>3 DEF N, k

(* With tuples on both, both are.                                            *)
LEMMA PlacesTwo ==
  ASSUME NEW T, T[1] # <<>>, T[2] # <<>>
  PROVE  Places(2, T, <<T[1], T[2]>>, <<1, 2>>)
<1> DEFINE N == <<T[1], T[2]>>
           k == <<1, 2>>
<1>1. Len(N) = 2 /\ DOMAIN N = 1..2 /\ N[1] = T[1] /\ N[2] = T[2] /\ Len(k) = 2 /\ k[1] = 1 /\ k[2] = 2
  OBVIOUS
<1>2. 2 \in 0..2 /\ 1 \in 1..2 /\ 2 \in 1..2 /\ \A i \in 1..2 : i = 1 \/ i = 2
  OBVIOUS
<1> HIDE DEF N, k
<1>3. Places(2, T, N, k)
  BY <1>1, <1>2 DEF Places
<1> QED BY <1>3 DEF N, k

(* Whatever axes have tuples, those are shown, each at its place.            *)
LEMMA NonEmptyIs ==
  ASSUME NEW n \in 0..2, NEW T, DOMAIN T = 1..n
  PROVE  \E k : Places(n, T, NonEmpty(T), k)
<1> DEFINE S == {T[i] : i \in 1..n}
           parts == [i \in DOMAIN T |-> IF T[i] = <<>> THEN <<>> ELSE <<T[i]>>]
<1>1. NonEmpty(T) = FlattenSeq(parts)
  BY DEF NonEmpty
<1>2. \A i \in 1..n : parts[i] = IF T[i] = <<>> THEN <<>> ELSE <<T[i]>>
  OBVIOUS
<1>3. \A i \in 1..n : parts[i] \in Seq(S)
  <2>1. \A i \in 1..n : T[i] \in S
    OBVIOUS
  <2> HIDE DEF parts, S
  <2> QED BY <1>2, <2>1, OneSet
<1>4. Lists(parts, n, Seq(S))
  BY <1>3 DEF Lists
<1> HIDE DEF parts, S
<1>a. n \in Nat
  OBVIOUS
<1>5. Len(parts) = n
  BY <1>4, <1>a, ListIs
<1>7. n = 0 \/ n = 1 \/ n = 2
  OBVIOUS
<1>9. CASE n = 0
  <2>1. FlattenSeq(parts) \in Seq(S) /\ ToSet(FlattenSeq(parts)) = {}
    BY <1>4, <1>a, <1>9, FlatIs DEF Joined
  <2> DEFINE fl == FlattenSeq(parts)
  <2> HIDE DEF fl
  <2>2. fl \in Seq(S) /\ ToSet(fl) = {}
    BY <2>1 DEF fl
  <2>3. fl = <<>>
    BY <2>2 DEF ToSet
  <2>4. NonEmpty(T) = <<>>
    BY <1>1, <2>3 DEF fl
  <2>5. \A i \in 1..n : T[i] = <<>>
    BY <1>9
  <2> QED BY <1>a, <2>4, <2>5, PlacesNone
<1>b. n # 0 => \E g : FlatBy(parts, n, g)
  BY <1>5, <1>a, FlatSteps
<1>10. CASE n = 1
  <2>0. PICK g : FlatBy(parts, n, g)
    BY <1>10, <1>b
  <2>1. /\ FlattenSeq(parts) = g[n]
        /\ \A k \in 1..n : g[k] = IF k = 1 THEN parts[k] ELSE g[k - 1] \o parts[k]
    BY <2>0 DEF FlatBy
  <2>2. FlattenSeq(parts) = parts[1] /\ 1 \in 1..n
    BY <1>10, <2>1
  <2>3. \A i \in 1..n : i = 1
    BY <1>10
  <2>4. CASE T[1] = <<>>
    <3>1. NonEmpty(T) = <<>>
      BY <1>1, <1>2, <2>2, <2>4
    <3> QED BY <1>a, <2>3, <2>4, <3>1, PlacesNone
  <2>5. CASE T[1] # <<>>
    <3>1. NonEmpty(T) = <<T[1]>>
      BY <1>1, <1>2, <2>2, <2>5
    <3>2. Places(n, T, <<T[1]>>, <<1>>)
      BY <1>a, <2>2, <2>3, <2>5, PlacesOne
    <3> QED BY <3>1, <3>2
  <2> QED BY <2>4, <2>5
<1>11. CASE n = 2
  <2>0. PICK g : FlatBy(parts, n, g)
    BY <1>11, <1>b
  <2>1. /\ FlattenSeq(parts) = g[n]
        /\ \A k \in 1..n : g[k] = IF k = 1 THEN parts[k] ELSE g[k - 1] \o parts[k]
    BY <2>0 DEF FlatBy
  <2>b. 1 \in 1..n /\ 2 \in 1..n
    BY <1>11
  <2>2. FlattenSeq(parts) = parts[1] \o parts[2]
    <3>1. g[1] = parts[1]
      BY <2>1, <2>b
    <3>2. 2 # 1 /\ 2 - 1 = 1
      OBVIOUS
    <3>3. g[2] = g[1] \o parts[2]
      BY <2>1, <2>b, <3>2
    <3>4. FlattenSeq(parts) = g[2]
      BY <1>11, <2>1
    <3> QED BY <3>1, <3>3, <3>4, Zenon
  <2>3. \A i \in 1..n : i = 1 \/ i = 2
    BY <1>11
  <2>c. NonEmpty(T) = (IF T[1] = <<>> THEN <<>> ELSE <<T[1]>>) \o (IF T[2] = <<>> THEN <<>> ELSE <<T[2]>>)
    BY <1>1, <1>2, <2>2, <2>b, Zenon
  <2>d. <<>> \o <<>> = <<>>
    BY ConcatEmptySeq
  <2>e. \A x : <<x>> \o <<>> = <<x>> /\ <<>> \o <<x>> = <<x>>
    <3> TAKE x
    <3>1. <<x>> \in Seq({x})
      OBVIOUS
    <3> QED BY <3>1, ConcatEmptySeq
  <2>f. \A x, y : <<x>> \o <<y>> = <<x, y>>
    <3> TAKE x, y
    <3>1. <<x>> \in Seq({x, y}) /\ y \in {x, y}
      OBVIOUS
    <3>2. Append(<<x>>, y) = <<x>> \o <<y>>
      BY <3>1, AppendIsConcat
    <3>3. Append(<<x>>, y) = <<x, y>>
      <4> DEFINE a == Append(<<x>>, y)
                 b == <<x, y>>
                 o == <<x>>
      <4>1. o \in Seq({x, y}) /\ Len(o) = 1 /\ o[1] = x
        OBVIOUS
      <4>2. b \in Seq({x, y}) /\ Len(b) = 2 /\ b[1] = x /\ b[2] = y
        OBVIOUS
      <4>3. Append(o, y) \in Seq({x, y}) /\ Len(Append(o, y)) = 2 /\ Append(o, y)[1] = x /\ Append(o, y)[2] = y
        <5> DEFINE S1 == {x, y}
        <5>1. y \in S1 /\ o \in Seq(S1)
          BY <4>1
        <5> HIDE DEF o, S1
        <5>2. /\ Append(o, y) \in Seq(S1) /\ Len(Append(o, y)) = Len(o) + 1
              /\ (\A i \in 1..Len(o) : Append(o, y)[i] = o[i]) /\ Append(o, y)[Len(o) + 1] = y
          BY <5>1, AppendProperties
        <5>3. 1 \in 1..Len(o) /\ Len(o) + 1 = 2
          BY <4>1
        <5> QED BY <4>1, <5>2, <5>3 DEF S1
      <4> HIDE DEF b
      <4>4. a \in Seq({x, y}) /\ Len(a) = 2 /\ a[1] = x /\ a[2] = y
        BY <4>3
      <4> HIDE DEF a
      <4>5. a \in [1..2 -> {x, y}] /\ b \in [1..2 -> {x, y}]
        BY <4>2, <4>4
      <4>6. \A i \in 1..2 : a[i] = b[i]
        <5>1. \A i \in 1..2 : i = 1 \/ i = 2
          OBVIOUS
        <5> QED BY <4>2, <4>4, <5>1, Zenon
      <4>7. a = b
        BY <4>5, <4>6
      <4> QED BY <4>7 DEF a, b
    <3> QED BY <3>2, <3>3, Zenon
  <2>4. CASE T[1] = <<>> /\ T[2] = <<>>
    BY <2>4, <2>c, <2>d, <1>a, <2>3, PlacesNone
  <2>5. CASE T[1] # <<>> /\ T[2] = <<>>
    <3>1. NonEmpty(T) = <<T[1]>>
      BY <2>5, <2>c, <2>e, Zenon
    <3>2. Places(n, T, <<T[1]>>, <<1>>)
      BY <1>a, <2>3, <2>5, <2>b, PlacesOne
    <3> QED BY <3>1, <3>2
  <2>6. CASE T[1] = <<>> /\ T[2] # <<>>
    <3>1. NonEmpty(T) = <<T[2]>>
      BY <2>6, <2>c, <2>e, Zenon
    <3>2. Places(n, T, <<T[2]>>, <<2>>)
      BY <1>a, <2>3, <2>6, <2>b, PlacesOne
    <3> QED BY <3>1, <3>2
  <2>7. CASE T[1] # <<>> /\ T[2] # <<>>
    BY <2>7, <2>c, <2>f, <1>11, PlacesTwo
  <2> QED BY <2>4, <2>5, <2>6, <2>7
<1> QED BY <1>7, <1>9, <1>10, <1>11

(* What a scope keeps of a table is a table.                                 *)
LEMMA KeptIs ==
  ASSUME NEW d \in Table, NEW scope
  PROVE  KeptRows(d, scope) \in Table /\ KeptRows(d, scope) \subseteq d
<1>1. KeptRows(d, scope) \subseteq d
  BY DEF KeptRows
<1> HIDE DEF KeptRows
<1> QED BY <1>1, FS_Subset DEF Table

(* The data of the specification are tables.                                 *)
LEMMA DataIs == Data \subseteq Table
  BY DataAssumption DEF Table

(* An answer is an error, or the axes that are shown with their cells.       *)
LEMMA ExecutedIs ==
  ASSUME NEW d \in Data, NEW s \in Statement
  PROVE  /\ execute(d, s).error =>
              execute(d, s) = [error |-> TRUE, axes |-> <<>>, cells |-> {}]
         /\ ~ execute(d, s).error =>
              execute(d, s) = [error |-> FALSE, axes |-> Shown(d, s),
                               cells |-> Cells(Scoped(d, s), Shown(d, s), Wanted(s))]
<1> DEFINE cl == Classified(s)
<1>1. DOMAIN cl = 1..Len(s.axes)
  BY ClassifiedAre
<1> DEFINE no == \E i \in DOMAIN s.axes : Unsupported(s.axes[i])
           ev == Executed(d, s, cl)
<1>2. execute(d, s) = IF no THEN Refused ELSE ev
  BY DEF execute
<1>a. ev = Answer(Scoped(d, s), NonEmpty([i \in DOMAIN cl |-> Tuples(Scoped(d, s), cl[i], Wanted(s))]), Wanted(s))
  BY DEF Executed, Pivoted, Scoped, Wanted
<1>3. [i \in DOMAIN cl |-> Tuples(Scoped(d, s), cl[i], Wanted(s))] = AllTuples(d, s)
  BY <1>1 DEF AllTuples
<1> DEFINE rows == Scoped(d, s)
           ax == Shown(d, s)
           ms == Wanted(s)
           e == execute(d, s)
<1>4. ev = Answer(rows, ax, ms)
  BY <1>a, <1>3 DEF Shown
<1> HIDE DEF rows, ax, ms, e, no, ev
<1>5. ev = IF ~ ToSet(ms) \subseteq Metric THEN Refused
           ELSE [error |-> FALSE, axes |-> ax, cells |-> Cells(rows, ax, ms)]
  BY <1>4 DEF Answer
<1> HIDE DEF Cells
<1>6. /\ e.error => e = [error |-> TRUE, axes |-> <<>>, cells |-> {}]
      /\ ~ e.error => e = [error |-> FALSE, axes |-> ax, cells |-> Cells(rows, ax, ms)]
  BY <1>2, <1>5 DEF Refused, e
<1> QED BY <1>6 DEF e, rows, ax, ms

(* The axes of an answer and the rows it is about, typed.                    *)
LEMMA ShownIs ==
  ASSUME NEW d \in Data, NEW s \in Statement
  PROVE  /\ \E k : Places(Len(s.axes), AllTuples(d, s), Shown(d, s), k)
         /\ \A i \in 1..Len(s.axes) : AllTuples(d, s)[i] \in Seq(AxisTup(Classified(s)[i]))
         /\ Scoped(d, s) \in Table /\ Scoped(d, s) \subseteq d
<1>1. Len(s.axes) \in 0..2 /\ s.slicer \in Seq(Entry)
  BY StatementIs
<1>2. \E k : Places(Len(s.axes), AllTuples(d, s), Shown(d, s), k)
  <2> DEFINE T == AllTuples(d, s)
             n == Len(s.axes)
  <2>1. DOMAIN T = 1..n /\ n \in 0..2
    BY <1>1 DEF AllTuples
  <2> HIDE DEF T, n
  <2>2. \E k : Places(n, T, NonEmpty(T), k)
    BY <2>1, NonEmptyIs
  <2> QED BY <2>2 DEF T, n, Shown
<1>3. d \in Table
  BY DataIs
<1>4. Scoped(d, s) \in Table /\ Scoped(d, s) \subseteq d
  BY <1>3, KeptIs DEF Scoped
<1>5. \A i \in 1..Len(s.axes) : StateOK(Classified(s)[i])
  BY ClassifiedAre
<1>6. Wanted(s) \in Seq(Nat)
  <2> DEFINE n == Len(s.axes)
             cl == Classified(s)
             sl == s.slicer
  <2>1. n \in Nat /\ DOMAIN cl = 1..n /\ (\A i \in 1..n : StateOK(cl[i])) /\ sl \in Seq(Entry)
    BY <1>1, <1>5, ClassifiedAre
  <2> HIDE DEF n, cl, sl
  <2>2. MeasuresOf(cl, sl) \in Seq(Nat)
    BY <2>1, MeasuresAre
  <2> QED BY <2>2 DEF Wanted, cl, sl
<1>7. \A i \in 1..Len(s.axes) : Tuples(Scoped(d, s), Classified(s)[i], Wanted(s)) \in Seq(AxisTup(Classified(s)[i]))
  BY <1>4, <1>5, <1>6, TuplesAre
<1>8. \A i \in 1..Len(s.axes) : AllTuples(d, s)[i] \in Seq(AxisTup(Classified(s)[i]))
  BY <1>7 DEF AllTuples
<1> QED BY <1>2, <1>4, <1>8

(* The inductive invariant: the answer that is open is execute's of the data *)
(* and the statement, both of which it can be given.                         *)
LEMMA RepliedAlways == PivotSpec => []Replied
<1>1. PivotInit => Replied
  BY DEF PivotInit, Replied
<1>2. Replied /\ [PivotNext]_pivotVars => Replied'
  <2> SUFFICES ASSUME Replied, [PivotNext]_pivotVars PROVE Replied'
    OBVIOUS
  <2>1. CASE Close
    BY <2>1 DEF Close, Replied
  <2>2. ASSUME NEW s \in Statement, Execute(s) PROVE Replied'
    BY <2>2 DEF Execute, Replied
  <2>3. CASE UNCHANGED pivotVars
    BY <2>3 DEF pivotVars, Replied
  <2> QED BY <2>1, <2>2, <2>3 DEF PivotNext
<1> QED BY <1>1, <1>2, PTL DEF PivotSpec

(* A path of values without NULL that some row has below its hierarchy.      *)
LEMMA TruePath ==
  ASSUME NEW d \in Table, NEW m \in AnyMem, m.path # <<>>, Null \notin ToSet(m.path),
         NEW row \in d, Holds(row, m)
  PROVE  /\ Len(m.path) \in 1..Len(m.hier) /\ \A i \in 1..Len(m.path) : m.path[i] \in Value /\ m.path[i] # Null
         /\ canon_path(m.path) = m.path
<1> DEFINE p == m.path
           h == m.hier
           k == Len(p)
<1>1. h \in Hierarchy /\ p \in KeysIn(h)
  BY AnyMemIs, MemIs
<1>2. p \in Seq(Int) /\ k \in 0..Len(h) /\ DOMAIN p = 1..k
  BY <1>1, KeyIs
<1>3. row \in [Field -> Value \cup {Null}]
  BY DEF Table
<1>4. \A i \in 1..k : row[h[i]] = p[i]
  BY <1>2 DEF Holds
<1>a. Len(h) \in Nat /\ \A i \in 1..Len(h) : h[i] \in Field
  BY <1>1, HierIs
<1>5. \A i \in 1..k : p[i] \in Value \cup {Null} /\ p[i] # Null
  <2> SUFFICES ASSUME NEW i \in 1..k PROVE p[i] \in Value \cup {Null} /\ p[i] # Null
    OBVIOUS
  <2>1. i \in 1..Len(h) /\ h[i] \in Field
    BY <1>2, <1>a
  <2>2. row[h[i]] \in Value \cup {Null}
    BY <1>3, <2>1
  <2>3. p[i] \in ToSet(p)
    BY <1>2 DEF ToSet
  <2> QED BY <1>4, <2>2, <2>3
<1>6. k # 0
  BY <1>2
<1>7. canon_path(p) = p
  <2>1. \A i \in 1..k : Text(p[i]) = p[i]
    BY <1>5 DEF Text
  <2>2. canon_path(p) = [i \in 1..k |-> Text(p[i])]
    BY <1>2 DEF canon_path
  <2> HIDE DEF p
  <2> QED BY <1>2, <2>1, <2>2
<1>8. k \in 1..Len(h)
  BY <1>2, <1>6, <1>a
<1> QED BY <1>5, <1>7, <1>8

(* Slicing by a member keeps the rows its path stands for.                   *)
LEMMA SlicedItself ==
  ASSUME NEW d, NEW h, NEW p \in Seq(Value)
  PROVE  KeptRows(d, [filters |-> FiltersAlong(h, p), combos |-> {}]) = BelowPath(d, h, p)
<1> DEFINE k == Len(p)
           F == FiltersAlong(h, p)
           scope == [filters |-> F, combos |-> {}]
<1>1. F = {[field |-> h[i], values |-> {p[i]}] : i \in 1..k}
  BY DEF FiltersAlong
<1>5. scope.filters = F /\ scope.combos = {}
  OBVIOUS
<1> HIDE DEF scope
<1>6. KeptRows(d, scope) = {r \in d : \A f \in F : r[f.field] \in f.values}
  BY <1>5 DEF KeptRows
<1>7. \A r : (\A f \in F : r[f.field] \in f.values) <=> \A i \in 1..k : r[h[i]] = p[i]
  <2> TAKE r
  <2>1. ASSUME \A f \in F : r[f.field] \in f.values, NEW i \in 1..k PROVE r[h[i]] = p[i]
    <3> DEFINE f == [field |-> h[i], values |-> {p[i]}]
    <3>1. f \in F /\ f.field = h[i] /\ f.values = {p[i]}
      BY <1>1
    <3> HIDE DEF f, F
    <3> QED BY <2>1, <3>1
  <2>2. ASSUME \A i \in 1..k : r[h[i]] = p[i], NEW f \in F PROVE r[f.field] \in f.values
    <3>1. PICK i \in 1..k : f = [field |-> h[i], values |-> {p[i]}]
      BY <1>1
    <3> QED BY <2>2, <3>1
  <2> QED BY <2>1, <2>2
<1> HIDE DEF F, k
<1>8. {r \in d : \A f \in F : r[f.field] \in f.values} = {r \in d : \A i \in 1..k : r[h[i]] = p[i]}
  BY <1>7, Zenon
<1> QED BY <1>6, <1>8 DEF scope, F, k, BelowPath

(* A prefix of one's own length is oneself.                                  *)
LEMMA PrefixEqual ==
  ASSUME NEW S, NEW s \in Seq(S), NEW t \in Seq(S), Len(s) = Len(t)
  PROVE  IsPrefix(s, t) <=> s = t
<1>1. Len(s) \in Nat /\ Len(s) <= Len(t)
  OBVIOUS
<1>2. SubSeq(s, 1, Len(s)) = s /\ SubSeq(t, 1, Len(s)) = t
  BY SubSeqFull
<1> QED BY <1>1, <1>2, Zenon DEF IsPrefix

(* The greatest of one number.                                               *)
LEMMA MaxOne == \A k \in Int : Max({k}) = k
<1> SUFFICES ASSUME NEW k \in Int PROVE Max({k}) = k
  OBVIOUS
<1>1. k \in {k} /\ \A y \in {k} : k >= y
  OBVIOUS
<1>2. \A x : x \in {k} => x = k
  OBVIOUS
<1> QED BY <1>1, <1>2, Zenon DEF Max

(* Ticking a member in a subselect keeps the rows its path stands for, if    *)
(* there are any.                                                            *)
LEMMA TickedItself ==
  ASSUME NEW d \in Table, NEW h \in Hierarchy, NEW p \in Seq(Value), Len(p) \in 1..Len(h),
         NEW row \in d, \A i \in 1..Len(p) : row[h[i]] = p[i]
  PROVE  KeptRows(d, PathPredicate(d, h, {p})) = BelowPath(d, h, p)
<1> DEFINE k == Len(p)
           levels == SubSeq(h, 1, k)
<1>1. k \in 0..Len(h) /\ k \in Nat /\ DOMAIN p = 1..k /\ Null \notin Value /\ p \in Seq(Int)
  <2>1. Len(h) \in Nat
    BY HierIs
  <2>2. p \in Seq(Int)
    <3>1. Value \subseteq Int
      BY ValueAssumption
    <3> QED BY <3>1, SeqMonotonic
  <2> QED BY <2>1, <2>2, ValueAssumption DEF Null
<1>2. /\ levels \in Seq(Field) /\ Len(levels) = k /\ DOMAIN levels = 1..k
      /\ \A i \in 1..k : levels[i] = h[i]
  BY <1>1, PrefixIs
<1>3. PathPredicate(d, h, {p}) = DownTo(d, levels, {p})
  BY <1>1, MaxOne DEF PathPredicate
<1> HIDE DEF levels
<1>4. CASE k = 1
  <2> DEFINE f == [field |-> levels[1], values |-> {q[1] : q \in {p}}]
             scope == [filters |-> {f}, combos |-> {}]
  <2>1. DownTo(d, levels, {p}) = scope
    BY <1>2, <1>4 DEF DownTo
  <2>2. scope.filters = {f} /\ scope.combos = {} /\ f.field = h[1] /\ f.values = {p[1]}
    BY <1>2, <1>4
  <2> HIDE DEF scope, f
  <2>3. KeptRows(d, scope) = {r \in d : r[h[1]] = p[1]}
    BY <2>2 DEF KeptRows
  <2>4. \A i \in 1..k : i = 1
    BY <1>4
  <2>5. 1 \in 1..k
    BY <1>4
  <2> QED BY <1>3, <2>1, <2>3, <2>4, <2>5 DEF BelowPath
<1>5. CASE k # 1
  <2> DEFINE R == AlongPaths(d, levels, {p})
             c == [fields |-> levels, rows |-> R]
             scope == [filters |-> {}, combos |-> {c}]
  <2>1. \A r \in d : /\ Along(levels, r) \in Seq(Int) /\ Len(Along(levels, r)) = k /\ DOMAIN Along(levels, r) = 1..k
                     /\ \A i \in 1..k : Along(levels, r)[i] = r[h[i]]
    BY <1>2, AlongIs DEF Table
  <2>2. \A r \in d : Null \notin ToSet(Along(levels, r)) => canon_path(Along(levels, r)) = Along(levels, r)
    <3> SUFFICES ASSUME NEW a \in Seq(Int), DOMAIN a = 1..k, Null \notin ToSet(a) PROVE canon_path(a) = a
      BY <2>1
    <3>1. \A i \in 1..k : Text(a[i]) = a[i]
      BY DEF Text, ToSet
    <3>2. canon_path(a) = [i \in 1..k |-> Text(a[i])]
      BY DEF canon_path
    <3> QED BY <3>1, <3>2
  <2>3. \A r \in d : (\A i \in 1..k : r[h[i]] = p[i]) <=> Along(levels, r) = p
    <3> SUFFICES ASSUME NEW r \in d PROVE (\A i \in 1..k : r[h[i]] = p[i]) <=> Along(levels, r) = p
      OBVIOUS
    <3> DEFINE a == Along(levels, r)
    <3>1. a \in Seq(Int) /\ Len(a) = k /\ \A i \in 1..k : a[i] = r[h[i]]
      BY <2>1
    <3> HIDE DEF a
    <3>2. (\A i \in 1..k : a[i] = p[i]) <=> a = p
      BY <1>1, <3>1, SameSeq
    <3> QED BY <3>1, <3>2 DEF a
  <2>4. p \in R
    BY <2>3, <1>1, <2>2, PrefixEqual DEF ToSet, AlongPaths
  <2>5. DownTo(d, levels, {p}) = scope
    <3>1. DownTo(d, levels, {p}) = InAny(levels, R)
      BY <1>2, <1>5 DEF DownTo
    <3> HIDE DEF R
    <3> QED BY <2>4, <3>1 DEF InAny
  <2>6. scope.filters = {} /\ scope.combos = {c} /\ c.fields = levels /\ c.rows = R
    OBVIOUS
  <2> HIDE DEF scope, c
  <2>7. KeptRows(d, scope) = {r \in d : Null \notin ToSet(Along(levels, r)) /\ Along(levels, r) \in R}
    BY <2>6 DEF KeptRows
  <2>8. \A r \in d : (Null \notin ToSet(Along(levels, r)) /\ Along(levels, r) \in R) <=> Along(levels, r) = p
    <3> SUFFICES ASSUME NEW r \in d
                 PROVE  (Null \notin ToSet(Along(levels, r)) /\ Along(levels, r) \in R) <=> Along(levels, r) = p
      OBVIOUS
    <3>1. ASSUME Null \notin ToSet(Along(levels, r)), Along(levels, r) \in R PROVE Along(levels, r) = p
      BY <3>1, <2>2, <1>1, <2>1, PrefixEqual DEF AlongPaths
    <3>2. ASSUME Along(levels, r) = p PROVE Null \notin ToSet(Along(levels, r)) /\ Along(levels, r) \in R
      <4>1. Null \notin ToSet(p)
        BY <1>1 DEF ToSet
      <4> HIDE DEF R
      <4> QED BY <2>4, <3>2, <4>1
    <3> QED BY <3>1, <3>2
  <2> HIDE DEF R, k
  <2>9. KeptRows(d, scope) = {r \in d : \A i \in 1..k : r[h[i]] = p[i]}
    BY <2>3, <2>7, <2>8, Zenon
  <2> QED BY <1>3, <2>5, <2>9 DEF k, BelowPath
<1> QED BY <1>4, <1>5

(* Cells and ordinals.                                                       *)

(* Some number of a nonempty set is the greatest.                            *)
LEMMA Greatest ==
  ASSUME NEW n \in Nat, NEW S \in SUBSET (1..n), S # {}
  PROVE  \E i \in S : \A j \in S : j <= i
<1> DEFINE D == {n - i : i \in S}
<1>1. D \in SUBSET Nat /\ D # {}
  <2>1. \A i \in S : i \in 1..n
    OBVIOUS
  <2>2. \A i \in S : n - i \in Nat
    BY <2>1
  <2> QED BY <2>2
<1>2. PICK k \in D : \A l \in D : k <= l
  BY <1>1, LeastNat
<1>3. PICK i \in S : k = n - i
  OBVIOUS
<1>4. ASSUME NEW j \in S PROVE j <= i
  BY <1>2, <1>3
<1> QED BY <1>4

(* What members put together assign is what each of them holds of a row, if  *)
(* no two of them assign one field.                                          *)
LEMMA AssignedIs ==
  ASSUME NEW L \in Seq(AnyMem), Apart(ToSet(L)), NEW r
  PROVE  (\A f \in DOMAIN Assigned(L) : r[f] = Assigned(L)[f]) <=> \A m \in ToSet(L) : Holds(r, m)
<1> DEFINE n == Len(L)
           has(f) == {i \in DOMAIN L : f \in DOMAIN L[i].assignment}
           last(f) == CHOOSE i \in has(f) : \A j \in has(f) : j <= i
           U == UNION {DOMAIN L[i].assignment : i \in DOMAIN L}
           A == [f \in U |-> L[last(f)].assignment[f]]
<1>1. Assigned(L) = A
  BY DEF Assigned
<1>2. n \in Nat /\ DOMAIN L = 1..n /\ ToSet(L) = {L[i] : i \in 1..n} /\ \A i \in 1..n : L[i] \in AnyMem
  BY InSeq
<1>3. ASSUME NEW i \in 1..n
      PROVE  /\ DOMAIN L[i].assignment = {L[i].hier[j] : j \in 1..Len(L[i].path)}
             /\ DOMAIN L[i].assignment \subseteq ToSet(L[i].hier)
             /\ \A j \in 1..Len(L[i].path) : L[i].assignment[L[i].hier[j]] = L[i].path[j]
             /\ DOMAIN L[i].path = 1..Len(L[i].path)
  <2>1. L[i].hier \in Hierarchy /\ L[i] \in Mems(L[i].hier)
    BY <1>2, AnyMemIs
  <2>2. /\ L[i].path \in KeysIn(L[i].hier)
        /\ DOMAIN L[i].assignment = {L[i].hier[j] : j \in 1..Len(L[i].path)}
        /\ \A j \in 1..Len(L[i].path) : L[i].assignment[L[i].hier[j]] = L[i].path[j]
    BY <2>1, MemIs
  <2>3. DOMAIN L[i].path = 1..Len(L[i].path) /\ \A j \in 1..Len(L[i].path) : j \in 1..Len(L[i].hier)
    BY <2>1, <2>2, KeyIs
  <2>4. DOMAIN L[i].hier = 1..Len(L[i].hier)
    BY <2>1, HierIs
  <2>5. \A j \in 1..Len(L[i].path) : L[i].hier[j] \in ToSet(L[i].hier)
    BY <2>3, <2>4 DEF ToSet
  <2>6. DOMAIN L[i].assignment \subseteq ToSet(L[i].hier)
    BY <2>2, <2>5
  <2> QED BY <2>2, <2>3, <2>6
<1>4. ASSUME NEW i \in 1..n, NEW f \in DOMAIN L[i].assignment
      PROVE  f \in U /\ A[f] = L[i].assignment[f]
  <2>1. has(f) \in SUBSET (1..n) /\ i \in has(f)
    BY <1>2
  <2>2. f \in U
    BY <1>2
  <2>3. A[f] = L[last(f)].assignment[f]
    BY <2>2
  <2>4. \E k \in has(f) : \A j \in has(f) : j <= k
    <3> HIDE DEF has
    <3>1. has(f) # {}
      BY <2>1
    <3> QED BY <1>2, <2>1, <3>1, Greatest
  <2>5. last(f) \in has(f)
    <3> HIDE DEF has
    <3> QED BY <2>4
  <2> DEFINE k == last(f)
  <2>6. k \in 1..n /\ f \in DOMAIN L[k].assignment
    BY <1>2, <2>5
  <2> HIDE DEF last, has, A, U
  <2>7. L[k] = L[i]
    <3>1. f \in ToSet(L[k].hier) \cap ToSet(L[i].hier)
      BY <1>3, <2>6
    <3>2. L[k] \in ToSet(L) /\ L[i] \in ToSet(L)
      BY <1>2, <2>6
    <3> QED BY <3>1, <3>2 DEF Apart
  <2> QED BY <2>2, <2>3, <2>7
<1>5. ASSUME NEW f \in U PROVE \E i \in 1..n : f \in DOMAIN L[i].assignment
  BY <1>2
<1>6. DOMAIN A = U
  OBVIOUS
<1> HIDE DEF A, U
<1>7. ASSUME \A f \in U : r[f] = A[f], NEW m \in ToSet(L) PROVE Holds(r, m)
  <2>1. PICK i \in 1..n : m = L[i]
    BY <1>2
  <2>2. ASSUME NEW j \in 1..Len(L[i].path) PROVE r[L[i].hier[j]] = L[i].path[j]
    BY <1>3, <1>4, <1>7
  <2> QED BY <1>3, <2>1, <2>2 DEF Holds
<1>8. ASSUME \A m \in ToSet(L) : Holds(r, m), NEW f \in U PROVE r[f] = A[f]
  <2>1. PICK i \in 1..n : f \in DOMAIN L[i].assignment
    BY <1>5
  <2>2. PICK j \in 1..Len(L[i].path) : f = L[i].hier[j]
    BY <1>3, <2>1
  <2>3. A[f] = L[i].path[j]
    BY <1>3, <1>4, <2>1, <2>2
  <2>4. L[i] \in ToSet(L)
    BY <1>2
  <2>5. Holds(r, L[i])
    BY <1>8, <2>4
  <2>6. r[L[i].hier[j]] = L[i].path[j]
    BY <1>3, <2>5 DEF Holds
  <2> QED BY <2>2, <2>3, <2>6
<1> QED BY <1>1, <1>6, <1>7, <1>8

(* The members of the tuples at a place assign no field twice, axes and      *)
(* hierarchies being apart.                                                  *)
LEMMA CellMembers ==
  ASSUME NEW d \in Data, NEW s \in Statement, FieldsApart(s), NEW at, AtPlace(Shown(d, s), at)
  PROVE  AllMembers(TuplesAt(Shown(d, s), at)) \in Seq(AnyMem) /\ Apart(ToSet(AllMembers(TuplesAt(Shown(d, s), at))))
<1> DEFINE axes == Shown(d, s)
           T == AllTuples(d, s)
           cl == Classified(s)
           pos == TuplesAt(axes, at)
<1>1. PICK k : Places(Len(s.axes), T, axes, k)
  BY ShownIs
<1> DEFINE n == Len(k)
<1>2. /\ Len(s.axes) \in 0..2 /\ n \in 0..Len(s.axes) /\ DOMAIN axes = 1..n
      /\ \A j \in 1..n : k[j] \in 1..Len(s.axes) /\ axes[j] = T[k[j]]
      /\ \A i, j \in 1..n : i < j => k[i] < k[j]
  BY <1>1, StatementIs DEF Places
<1>3. \A i \in 1..Len(s.axes) : T[i] \in Seq(AxisTup(cl[i])) /\ StateOK(cl[i])
  BY ShownIs, ClassifiedAre
<1>a. n \in Nat
  BY <1>2
<1> HIDE DEF axes, T, cl, n
<1>4. DOMAIN pos = 1..n /\ \A j \in 1..n : pos[j] = axes[j][at[j]] /\ at[j] \in DOMAIN axes[j]
  BY <1>2 DEF TuplesAt, AtPlace, axes
<1>5. ASSUME NEW j \in 1..n
      PROVE  /\ pos[j].members \in Seq(AnyMem) /\ DOMAIN pos[j].members = 1..Len(cl[k[j]].order)
             /\ \A a \in DOMAIN pos[j].members : pos[j].members[a].hier = cl[k[j]].order[a]
             /\ Len(cl[k[j]].order) \in Nat
  <2>1. axes[j] \in Seq(AxisTup(cl[k[j]])) /\ StateOK(cl[k[j]])
    BY <1>2, <1>3
  <2>2. pos[j] \in AxisTup(cl[k[j]])
    BY <1>4, <2>1
  <2>3. pos[j].members \in TupSet(cl[k[j]])
    BY <2>2 DEF AxisTup
  <2>4. Len(cl[k[j]].order) \in Nat
    BY <2>1 DEF StateOK
  <2> HIDE DEF pos
  <2>5. pos[j].members \in [1..Len(cl[k[j]].order) -> AnyMem]
        /\ \A a \in 1..Len(cl[k[j]].order) : pos[j].members[a].hier = cl[k[j]].order[a]
    BY <2>3 DEF TupSet
  <2> DEFINE ms == pos[j].members
             k1 == Len(cl[k[j]].order)
  <2>6. ms \in [1..k1 -> AnyMem] /\ k1 \in Nat
    BY <2>4, <2>5
  <2> HIDE DEF ms, k1
  <2>7. ms \in Seq(AnyMem) /\ DOMAIN ms = 1..k1
    BY <2>6
  <2> QED BY <2>4, <2>5, <2>7 DEF ms, k1
<1> DEFINE parts == [i \in DOMAIN pos |-> pos[i].members]
<1>6. Lists(parts, n, Seq(AnyMem))
  BY <1>4, <1>5 DEF Lists
<1>7. AllMembers(pos) = FlattenSeq(parts)
  BY DEF AllMembers
<1>8. \A j \in 1..n : parts[j] = pos[j].members
  BY <1>4
<1> HIDE DEF parts, pos
<1>9. FlattenSeq(parts) \in Seq(AnyMem) /\ ToSet(FlattenSeq(parts)) = Joined(parts, n)
  BY <1>6, <1>a, FlatIs
<1>10. \A m \in ToSet(AllMembers(pos)) : \E j \in 1..n : \E a \in DOMAIN pos[j].members : m = pos[j].members[a]
  <2> SUFFICES ASSUME NEW m \in ToSet(AllMembers(pos))
               PROVE  \E j \in 1..n : \E a \in DOMAIN pos[j].members : m = pos[j].members[a]
    OBVIOUS
  <2>1. PICK j \in 1..n : m \in ToSet(parts[j])
    BY <1>7, <1>9 DEF Joined
  <2>2. m \in ToSet(pos[j].members)
    BY <1>8, <2>1
  <2> QED BY <2>2 DEF ToSet
<1>11. \A j \in 1..n : \A a \in DOMAIN pos[j].members : pos[j].members[a].hier \in ToSet(cl[k[j]].order)
  <2> SUFFICES ASSUME NEW j \in 1..n, NEW a \in DOMAIN pos[j].members
               PROVE  cl[k[j]].order[a] \in ToSet(cl[k[j]].order)
    BY <1>5
  <2>1. StateOK(cl[k[j]]) /\ a \in 1..Len(cl[k[j]].order)
    BY <1>2, <1>3, <1>5
  <2>2. DOMAIN cl[k[j]].order = 1..Len(cl[k[j]].order)
    BY <2>1 DEF StateOK
  <2> QED BY <2>1, <2>2 DEF ToSet
<1>12. \A j \in 1..n : ToSet(cl[k[j]].order) \subseteq Hiers2(s)
  <2>1. \A i \in 1..Len(s.axes) : cl[i] \in ToSet(cl)
    BY ClassifiedAre DEF ToSet, cl
  <2> QED BY <1>2, <2>1 DEF Hiers2, cl
<1>13. ASSUME NEW l \in ToSet(AllMembers(pos)), NEW m \in ToSet(AllMembers(pos)), l.hier = m.hier
       PROVE  l = m
  <2>1. PICK i \in 1..n : \E a \in DOMAIN pos[i].members : l = pos[i].members[a]
    BY <1>10
  <2>a. PICK a \in DOMAIN pos[i].members : l = pos[i].members[a]
    BY <2>1
  <2>2. PICK j \in 1..n : \E b \in DOMAIN pos[j].members : m = pos[j].members[b]
    BY <1>10
  <2>b. PICK b \in DOMAIN pos[j].members : m = pos[j].members[b]
    BY <2>2
  <2>3. CASE i = j
    <3>1. cl[k[i]].order[a] = cl[k[i]].order[b]
      BY <1>5, <1>13, <2>a, <2>b, <2>3
    <3>2. StateOK(cl[k[i]]) /\ a \in 1..Len(cl[k[i]].order) /\ b \in 1..Len(cl[k[i]].order)
      BY <1>2, <1>3, <1>5, <2>3
    <3>3. DOMAIN cl[k[i]].order = 1..Len(cl[k[i]].order)
      BY <3>2 DEF StateOK
    <3>4. a = b
      BY <3>1, <3>2, <3>3 DEF StateOK
    <3> QED BY <2>a, <2>b, <2>3, <3>4
  <2>4. CASE i # j
    <3>1. k[i] # k[j] /\ k[i] \in 1..Len(s.axes) /\ k[j] \in 1..Len(s.axes)
      BY <1>2, <1>a, <2>4
    <3>2. ToSet(_classify(s.axes[k[i]]).order) \cap ToSet(_classify(s.axes[k[j]]).order) = {}
      BY <3>1, StatementIs DEF AxesTyped
    <3>3. ToSet(cl[k[i]].order) \cap ToSet(cl[k[j]].order) = {}
      BY <3>1, <3>2, ClassifiedAre DEF cl
    <3>4. l.hier \in ToSet(cl[k[i]].order) /\ m.hier \in ToSet(cl[k[j]].order)
      BY <1>11, <2>a, <2>b
    <3> QED BY <1>13, <3>3, <3>4
  <2> QED BY <2>3, <2>4
<1>14. Apart(ToSet(AllMembers(pos)))
  <2> SUFFICES ASSUME NEW l \in ToSet(AllMembers(pos)), NEW m \in ToSet(AllMembers(pos)), l # m
               PROVE  l.hier # m.hier /\ ToSet(l.hier) \cap ToSet(m.hier) = {}
    BY DEF Apart
  <2>1. l.hier # m.hier
    BY <1>13
  <2>2. l.hier \in Hiers2(s) /\ m.hier \in Hiers2(s)
    BY <1>10, <1>11, <1>12
  <2> QED BY <2>1, <2>2 DEF FieldsApart
<1> QED BY <1>7, <1>9, <1>14 DEF pos, axes

(* The rows a cell counts are those all its members hold for.                *)
LEMMA CellRows ==
  ASSUME NEW d \in Data, NEW s \in Statement, FieldsApart(s), NEW at, AtPlace(Shown(d, s), at), NEW rows
  PROVE  Occurring(rows, Assigned(AllMembers(TuplesAt(Shown(d, s), at))))
           = {r \in rows : \A m \in ToSet(AllMembers(TuplesAt(Shown(d, s), at))) : Holds(r, m)}
<1> DEFINE L == AllMembers(TuplesAt(Shown(d, s), at))
<1>1. L \in Seq(AnyMem) /\ Apart(ToSet(L))
  BY CellMembers
<1> HIDE DEF L
<1>2. \A r : (\A f \in DOMAIN Assigned(L) : r[f] = Assigned(L)[f]) <=> \A m \in ToSet(L) : Holds(r, m)
  BY <1>1, AssignedIs
<1> QED BY <1>2, Zenon DEF Occurring, L

(* Multiples grow.                                                           *)
LEMMA Grows ==
  ASSUME NEW w \in Nat, NEW a \in Nat, NEW b \in Nat, a <= b
  PROVE  w * a <= w * b
<1>1. w * (b - a) \in Nat
  OBVIOUS
<1>2. w * (b - a) = w * b - w * a
  OBVIOUS
<1> QED BY <1>1, <1>2

(* Quotient and remainder.                                                   *)
LEMMA Divided ==
  ASSUME NEW w \in Nat \ {0}, NEW o \in Nat
  PROVE  /\ o = w * (o \div w) + (o % w) /\ o % w \in 0..(w - 1) /\ o \div w \in Nat
  OBVIOUS

(* They are recovered from the sum they make.                                *)
LEMMA Recovered ==
  ASSUME NEW w \in Nat \ {0}, NEW q \in Nat, NEW r \in 0..(w - 1)
  PROVE  (w * q + r) \div w = q /\ (w * q + r) % w = r
<1> DEFINE o == w * q + r
           p == o \div w
           s == o % w
<1>0. w * q \in Nat
  OBVIOUS
<1>1. o \in Nat
  BY <1>0
<1> HIDE DEF o
<1>2. o = w * p + s /\ s \in 0..(w - 1) /\ p \in Nat
  BY <1>1, Divided
<1> HIDE DEF p, s
<1>3. w * p + s = w * q + r
  BY <1>2 DEF o
<1>4. CASE p < q
  BY <1>2, <1>4, Grows, <1>0, <1>3
<1>5. CASE q < p
  BY <1>2, <1>5, Grows, <1>0, <1>3
<1>6. CASE p = q
  BY <1>0, <1>2, <1>3, <1>6 DEF p, s, o
<1> QED BY <1>2, <1>4, <1>5, <1>6

(* A quotient is below the number of multiples.                              *)
LEMMA QuotientIs ==
  ASSUME NEW w \in Nat \ {0}, NEW v \in Nat \ {0}, NEW o \in 0..(w * v - 1)
  PROVE  o \div w \in 0..(v - 1)
<1>1. o \in Nat /\ w * v \in Nat
  OBVIOUS
<1> DEFINE q == o \div w
<1>2. o = w * q + (o % w) /\ o % w \in 0..(w - 1) /\ q \in Nat
  BY <1>1, Divided
<1> HIDE DEF q
<1>3. CASE v <= q
  BY <1>2, <1>3, Grows, <1>1
<1>4. CASE ~ (v <= q)
  BY <1>2, <1>4 DEF q
<1> QED BY <1>3, <1>4

(* A sum of a multiple and a remainder is within the product.                *)
LEMMA Within ==
  ASSUME NEW w \in Nat \ {0}, NEW v \in Nat \ {0}, NEW q \in 0..(v - 1), NEW r \in 0..(w - 1)
  PROVE  w * q + r \in 0..(w * v - 1)
<1>1. w * (q + 1) <= w * v
  BY Grows
<1>2. w * (q + 1) = w * q + w /\ w * q \in Nat /\ w * v \in Nat
  OBVIOUS
<1> QED BY <1>1, <1>2

(* The shape of axes is how many tuples each has.                            *)
LEMMA ShapeIs ==
  ASSUME NEW axes, IsAxes(axes)
  PROVE  /\ Len(Shape(axes)) = Len(axes) /\ (Shape(axes) = <<>> <=> Len(axes) = 0)
         /\ \A i \in 1..Len(axes) : Shape(axes)[i] = Len(axes[i])
<1>1. Len(axes) \in Nat /\ DOMAIN axes = 1..Len(axes) /\ \A i \in 1..Len(axes) : Len(axes[i]) \in Nat
  BY DEF IsAxes
<1>2. \A i \in 1..Len(axes) : Shape(axes)[i] = Len(axes[i])
  BY <1>1 DEF Shape
<1>3. Lists(Shape(axes), Len(axes), Nat)
  BY <1>1 DEF Lists, Shape
<1>4. Shape(axes) \in Seq(Nat) /\ Len(Shape(axes)) = Len(axes)
  BY <1>1, <1>3, ListIs
<1>5. Shape(axes) = <<>> <=> Len(Shape(axes)) = 0
  BY <1>4
<1> QED BY <1>2, <1>4, <1>5

(* Sequences of up to two elements.                                          *)
LEMMA PairIs ==
  /\ Len(<<>>) = 0
  /\ \A x : Len(<<x>>) = 1 /\ DOMAIN <<x>> = 1..1 /\ <<x>>[1] = x
  /\ \A x, y : Len(<<x, y>>) = 2 /\ DOMAIN <<x, y>> = 1..2 /\ <<x, y>>[1] = x /\ <<x, y>>[2] = y
<1>1. \A x : Len(<<x>>) = 1 /\ DOMAIN <<x>> = 1..1 /\ <<x>>[1] = x
  OBVIOUS
<1>2. \A x, y : Len(<<x, y>>) = 2 /\ DOMAIN <<x, y>> = 1..2 /\ <<x, y>>[1] = x /\ <<x, y>>[2] = y
  OBVIOUS
<1>3. Len(<<>>) = 0
  OBVIOUS
<1> QED BY <1>1, <1>2, <1>3

(* A cell's ordinal and its place on the axes determine each other.          *)
LEMMA OrdinalsArePlaces ==
  ASSUME NEW axes, IsAxes(axes)
  PROVE  /\ \A o \in 0..(Size(Shape(axes)) - 1) :
              Coordinates(o, Shape(axes)) \in PlacesOf(axes) /\ Ordinal(axes, Coordinates(o, Shape(axes))) = o
         /\ \A at \in PlacesOf(axes) :
              /\ Ordinal(axes, at) \in 0..(Size(Shape(axes)) - 1) /\ Coordinates(Ordinal(axes, at), Shape(axes)) = at
              /\ AtPlace(axes, at)
<1> DEFINE s == Shape(axes)
<1>1. Len(s) = Len(axes) /\ (s = <<>> <=> Len(axes) = 0) /\ \A i \in 1..Len(axes) : s[i] = Len(axes[i])
  BY ShapeIs
<1>2. /\ Len(axes) = 0 \/ Len(axes) = 1 \/ Len(axes) = 2
      /\ DOMAIN axes = 1..Len(axes) /\ (axes = <<>> <=> Len(axes) = 0)
      /\ \A i \in 1..Len(axes) : Len(axes[i]) \in Nat \ {0} /\ DOMAIN axes[i] = 1..Len(axes[i])
  BY DEF IsAxes
<1> HIDE DEF s
<1>3. CASE Len(axes) = 0
  BY <1>1, <1>3, PairIs, <1>2 DEF Size, PlacesOf, Coordinates, Ordinal, AtPlace, s
<1>4. CASE Len(axes) = 1
  <2> DEFINE w == Len(axes[1])
  <2>1. w \in Nat \ {0} /\ DOMAIN axes[1] = 1..w /\ s[1] = w /\ s # <<>> /\ Len(s) = 1
    BY <1>1, <1>2, <1>4
  <2> HIDE DEF w
  <2>2. Size(s) = w /\ PlacesOf(axes) = {<<i>> : i \in 1..w} /\ \A o : Coordinates(o, s) = <<o + 1>>
    BY <1>4, <2>1 DEF Size, PlacesOf, Coordinates
  <2>3. \A i : Ordinal(axes, <<i>>) = i - 1
    BY PairIs DEF Ordinal
  <2>4. \A o \in 0..(w - 1) : o + 1 \in 1..w /\ (o + 1) - 1 = o
    BY <2>1
  <2>5. \A i \in 1..w : i - 1 \in 0..(w - 1) /\ (i - 1) + 1 = i
    BY <2>1
  <2>6. \A i \in 1..w : AtPlace(axes, <<i>>)
    BY <1>2, <1>4, <2>1, PairIs DEF AtPlace
  <2> QED BY <2>2, <2>3, <2>4, <2>5, <2>6 DEF s
<1>5. CASE Len(axes) = 2
  <2> DEFINE w == Len(axes[1])
             v == Len(axes[2])
  <2>1. /\ w \in Nat \ {0} /\ DOMAIN axes[1] = 1..w /\ s[1] = w
        /\ v \in Nat \ {0} /\ DOMAIN axes[2] = 1..v /\ s[2] = v
        /\ s # <<>> /\ Len(s) = 2 /\ axes # <<>>
    BY <1>1, <1>2, <1>5
  <2>a. Width(axes) = w
    BY <2>1 DEF Width
  <2> HIDE DEF w, v
  <2>2. /\ Size(s) = w * v /\ PlacesOf(axes) = {<<i, j>> : i \in 1..w, j \in 1..v}
        /\ \A o : Coordinates(o, s) = <<(o % w) + 1, (o \div w) + 1>>
    BY <1>5, <2>1 DEF Size, PlacesOf, Coordinates
  <2>3. \A i, j : Ordinal(axes, <<i, j>>) = w * (j - 1) + i - 1
    BY <2>a, PairIs DEF Ordinal
  <2>4. ASSUME NEW o \in 0..(w * v - 1)
        PROVE  /\ (o % w) + 1 \in 1..w /\ (o \div w) + 1 \in 1..v
               /\ w * (((o \div w) + 1) - 1) + ((o % w) + 1) - 1 = o
    <3>0. w * v \in Nat
      BY <2>1
    <3>1. o \in Nat
      BY <3>0
    <3>2. o = w * (o \div w) + (o % w) /\ o % w \in 0..(w - 1) /\ o \div w \in Nat
      BY <2>1, <3>1, Divided
    <3>3. o \div w \in 0..(v - 1)
      BY <2>1, QuotientIs
    <3> DEFINE q == o \div w
               r == o % w
    <3> HIDE DEF q, r
    <3>4. o = w * q + r /\ r \in 0..(w - 1) /\ q \in 0..(v - 1)
      BY <3>2, <3>3 DEF q, r
    <3>5. (q + 1) - 1 = q /\ w * q \in Nat
      BY <2>1, <3>4
    <3>6. r + 1 \in 1..w /\ q + 1 \in 1..v /\ w * q + (r + 1) - 1 = o
      BY <2>1, <3>4, <3>5
    <3> QED BY <3>5, <3>6 DEF q, r
  <2>5. ASSUME NEW i \in 1..w, NEW j \in 1..v
        PROVE  /\ w * (j - 1) + i - 1 \in 0..(w * v - 1)
               /\ ((w * (j - 1) + i - 1) % w) + 1 = i /\ ((w * (j - 1) + i - 1) \div w) + 1 = j
    <3> DEFINE q == j - 1
               r == i - 1
    <3>1. q \in 0..(v - 1) /\ r \in 0..(w - 1) /\ q \in Nat
      BY <2>1
    <3>2. w * q \in Nat
      BY <2>1, <3>1
    <3>3. w * (j - 1) + i - 1 = w * q + r
      <4> DEFINE z == w * q
      <4>1. z \in Nat
        BY <3>2
      <4> HIDE DEF z
      <4>2. z + i - 1 = z + (i - 1)
        BY <2>1, <4>1
      <4> QED BY <4>2 DEF z
    <3> HIDE DEF q, r
    <3>4. w * q + r \in 0..(w * v - 1) /\ (w * q + r) % w = r /\ (w * q + r) \div w = q
      BY <2>1, <3>1, Recovered, Within
    <3>5. r + 1 = i /\ q + 1 = j
      BY <2>1 DEF q, r
    <3> QED BY <3>3, <3>4, <3>5
  <2>6. \A i \in 1..w, j \in 1..v : AtPlace(axes, <<i, j>>)
    BY <1>2, <1>5, <2>1, PairIs DEF AtPlace
  <2>7. ASSUME NEW o \in 0..(Size(s) - 1)
        PROVE  Coordinates(o, s) \in PlacesOf(axes) /\ Ordinal(axes, Coordinates(o, s)) = o
    BY <2>2, <2>3, <2>4
  <2>8. ASSUME NEW at \in PlacesOf(axes)
        PROVE  Ordinal(axes, at) \in 0..(Size(s) - 1) /\ Coordinates(Ordinal(axes, at), s) = at /\ AtPlace(axes, at)
    <3>1. PICK i \in 1..w, j \in 1..v : at = <<i, j>>
      BY <2>2
    <3> QED BY <2>2, <2>3, <2>5, <2>6, <3>1
  <2> QED BY <2>7, <2>8 DEF s
<1> QED BY <1>2, <1>3, <1>4, <1>5

(* The axes of an answer are such.                                           *)
LEMMA ShownAxes ==
  ASSUME NEW d \in Data, NEW s \in Statement
  PROVE  IsAxes(Shown(d, s))
<1> DEFINE axes == Shown(d, s)
           T == AllTuples(d, s)
<1>1. PICK k : Places(Len(s.axes), T, axes, k)
  BY ShownIs
<1>2. Len(s.axes) \in 0..2 /\ \A i \in 1..Len(s.axes) : T[i] \in Seq(AxisTup(Classified(s)[i]))
  BY ShownIs, StatementIs
<1> HIDE DEF axes, T
<1>3. /\ DOMAIN axes = 1..Len(k) /\ Len(axes) = Len(k) /\ Len(k) \in 0..Len(s.axes)
      /\ \A j \in 1..Len(k) : k[j] \in 1..Len(s.axes) /\ axes[j] = T[k[j]] /\ T[k[j]] # <<>>
  BY <1>1 DEF Places
<1>4. \A i \in 1..Len(s.axes) : T[i] # <<>> => Len(T[i]) \in Nat \ {0} /\ DOMAIN T[i] = 1..Len(T[i])
  BY <1>2
<1>5. \A i \in 1..Len(axes) : Len(axes[i]) \in Nat \ {0} /\ DOMAIN axes[i] = 1..Len(axes[i])
  BY <1>3, <1>4
<1>6. Len(axes) \in 0..2
  <2> DEFINE n == Len(s.axes)
             m == Len(k)
  <2>1. n \in 0..2 /\ m \in 0..n
    BY <1>2, <1>3
  <2> HIDE DEF n, m
  <2>2. m \in 0..2
    BY <2>1
  <2> QED BY <1>3, <2>2 DEF m
<1>7. axes = <<>> <=> Len(axes) = 0
  <2>1. axes = <<>> => Len(axes) = 0
    BY PairIs
  <2>2. ASSUME Len(axes) = 0 PROVE axes = <<>>
    <3>1. axes = NonEmpty(T)
      BY DEF axes, Shown, T
    <3>2. axes = FlattenSeq([i \in DOMAIN T |-> IF T[i] = <<>> THEN <<>> ELSE <<T[i]>>])
      BY <3>1 DEF NonEmpty
    <3>3. DOMAIN T = 1..Len(s.axes) /\ Len(s.axes) \in Nat
      BY <1>2 DEF T, AllTuples
    <3> DEFINE S == {T[i] : i \in 1..Len(s.axes)}
               parts == [i \in DOMAIN T |-> IF T[i] = <<>> THEN <<>> ELSE <<T[i]>>]
    <3>4. \A i \in 1..Len(s.axes) : parts[i] \in Seq(S)
      <4>1. \A i \in 1..Len(s.axes) : parts[i] \in {<<>>, <<T[i]>>} /\ T[i] \in S
        BY <3>3
      <4> HIDE DEF parts, S
      <4> QED BY <4>1, OneSet
    <3>5. Lists(parts, Len(s.axes), Seq(S))
      BY <3>3, <3>4 DEF Lists
    <3> HIDE DEF parts, S
    <3>6. FlattenSeq(parts) \in Seq(S)
      BY <3>3, <3>5, FlatIs
    <3>7. axes \in Seq(S)
      BY <3>2, <3>6 DEF parts
    <3> QED BY <2>2, <3>7
  <2> QED BY <2>1, <2>2
<1> QED BY <1>3, <1>5, <1>6, <1>7 DEF IsAxes, axes

(* Every cell is at the ordinal of its place and of the rows that all its    *)
(* members stand for.                                                        *)
LEMMA CellsAre ==
  ASSUME NEW d \in Data, NEW s \in Statement, FieldsApart(s), NEW rows, NEW measures
  PROVE  Cells(rows, Shown(d, s), measures) = RightCells(rows, Shown(d, s), measures)
<1> DEFINE axes == Shown(d, s)
           last == Size(Shape(axes)) - 1
           F(o) == [ordinal |-> o, measure |-> MetricOf(Position(axes, o), measures),
                    rows |-> Occurring(rows, Assigned(AllMembers(Position(axes, o))))]
           G(at) == Cell(rows, axes, measures, at)
<1>1. CASE measures = <<>>
  BY <1>1 DEF Cells, RightCells
<1>2. CASE measures # <<>>
  <2>1. Cells(rows, axes, measures) = {c \in {F(o) : o \in 0..last} : c.rows # {}}
    BY <1>2 DEF Cells, Shape
  <2>2. IsAxes(axes)
    BY ShownAxes
  <2>3. \A o : Position(axes, o) = TuplesAt(axes, Coordinates(o, Shape(axes)))
    BY DEF Position, Shape, TuplesAt
  <2>4. \A at : AtPlace(axes, at) => Occurring(rows, Assigned(AllMembers(TuplesAt(axes, at)))) = CountedAt(rows, axes, at)
    BY CellRows DEF CountedAt
  <2> DEFINE C(o) == Coordinates(o, Shape(axes))
  <2>5. /\ \A o \in 0..last : C(o) \in PlacesOf(axes) /\ Ordinal(axes, C(o)) = o
        /\ \A at \in PlacesOf(axes) : Ordinal(axes, at) \in 0..last /\ C(Ordinal(axes, at)) = at /\ AtPlace(axes, at)
    BY <2>2, OrdinalsArePlaces
  <2>6. ASSUME NEW o \in 0..last PROVE F(o) = G(C(o)) /\ C(o) \in PlacesOf(axes) /\ F(o).rows = CountedAt(rows, axes, C(o))
    <3>1. C(o) \in PlacesOf(axes) /\ Ordinal(axes, C(o)) = o /\ AtPlace(axes, C(o))
      BY <2>5
    <3>2. Position(axes, o) = TuplesAt(axes, C(o))
      BY <2>3
    <3>3. Occurring(rows, Assigned(AllMembers(Position(axes, o)))) = CountedAt(rows, axes, C(o))
      BY <2>4, <3>1, <3>2
    <3> HIDE DEF axes, C, last
    <3>4. F(o) = G(C(o))
      BY <3>1, <3>2, <3>3 DEF Cell
    <3>5. F(o).rows = CountedAt(rows, axes, C(o))
      BY <3>3
    <3> QED BY <3>1, <3>4, <3>5
  <2>7. ASSUME NEW at \in PlacesOf(axes)
        PROVE  Ordinal(axes, at) \in 0..last /\ F(Ordinal(axes, at)) = G(at) /\ F(Ordinal(axes, at)).rows = CountedAt(rows, axes, at)
    <3>1. Ordinal(axes, at) \in 0..last /\ C(Ordinal(axes, at)) = at
      BY <2>5
    <3> HIDE DEF F, G, C, last, axes
    <3> QED BY <2>6, <3>1
  <2> HIDE DEF F, G, C, last, axes
  <2>8. {c \in {F(o) : o \in 0..last} : c.rows # {}} = {G(at) : at \in {x \in PlacesOf(axes) : CountedAt(rows, axes, x) # {}}}
    <3> DEFINE X == {c \in {F(o) : o \in 0..last} : c.rows # {}}
               P == {x \in PlacesOf(axes) : CountedAt(rows, axes, x) # {}}
               Y == {G(at) : at \in P}
    <3>1. ASSUME NEW c \in X PROVE c \in Y
      <4>1. PICK o \in 0..last : c = F(o)
        OBVIOUS
      <4>2. C(o) \in P /\ c = G(C(o))
        BY <2>6, <4>1
      <4> QED BY <4>2
    <3>2. ASSUME NEW c \in Y PROVE c \in X
      <4>1. PICK at \in P : c = G(at)
        OBVIOUS
      <4>2. Ordinal(axes, at) \in 0..last /\ c = F(Ordinal(axes, at)) /\ c.rows # {}
        BY <2>7, <4>1
      <4> QED BY <4>2
    <3> QED BY <3>1, <3>2
  <2>9. RightCells(rows, axes, measures) = {G(at) : at \in {x \in PlacesOf(axes) : CountedAt(rows, axes, x) # {}}}
    BY <1>2 DEF RightCells, G, Cell
  <2> QED BY <2>1, <2>8, <2>9 DEF axes
<1> QED BY <1>1, <1>2

-----------------------------------------------------------------------------

(* An entry that names is a plain member.                                    *)
LEMMA NamedPlain ==
  ASSUME NEW e \in Entry, Names(e)
  PROVE  e \in Plain
<1>1. e.kind = "member"
  BY DEF Names, IsRef
<1> QED BY <1>1, EntryIs DEF Plain

(* A plain member is a reference that moves by itself.                       *)
LEMMA PlainIs ==
  ASSUME NEW e \in Plain
  PROVE  /\ e \in Refs /\ e.kind = "member" /\ ~ e.drilled /\ e.suffix = ""
         /\ ~ Nests(e) /\ Moves(e) = <<e>>
         /\ ~ IsAll(e) => e.rest \in PathsIn(e.hier)
<1>1. e.kind = "member" /\ ~ e.drilled /\ e.suffix = ""
  BY DEF Plain, Names, IsRef
<1>2. e \in Refs
  BY DEF Plain
<1>3. ~ Nests(e) /\ Moves(e) = <<e>>
  BY <1>1 DEF Nests, Moves
<1> QED BY <1>1, <1>2, <1>3, RefIs

(* A set of plain members has nothing to open.                               *)
LEMMA PlainWalk ==
  ASSUME NEW s \in Seq(Plain)
  PROVE  walk(s) = s /\ AllMoves(s) = s
<1>1. Len(s) \in Nat /\ DOMAIN s = 1..Len(s) /\ \A i \in 1..Len(s) : s[i] \in Plain
  OBVIOUS
<1>2. Opened(s) = s
  <2> DEFINE rows == [i \in DOMAIN s |->
               IF Nests(s[i]) THEN s[i].args \o <<[s[i] EXCEPT !.args = <<>>]>> ELSE <<s[i]>>]
  <2>1. rows = [i \in DOMAIN s |-> <<s[i]>>]
    BY <1>1, PlainIs
  <2>2. Opened(s) = FlattenSeq(rows)
    BY DEF Opened
  <2> HIDE DEF rows
  <2> QED BY <2>1, <2>2, FlatSame
<1>3. walk(s) = s
  <2>1. PICK g : /\ g[0] = s /\ walk(s) = g[Depth]
                 /\ \A n \in 1..Depth : g[n] = Opened(g[n - 1])
    BY WalkLoop
  <2> DEFINE T == {n \in Nat : n <= Depth => g[n] = s}
  <2>2. 0 \in T
    BY <2>1
  <2>3. ASSUME NEW n \in Nat, n \in T PROVE n + 1 \in T
    <3> SUFFICES ASSUME n + 1 <= Depth PROVE g[n + 1] = s
      OBVIOUS
    <3>1. n <= Depth /\ n + 1 \in 1..Depth /\ (n + 1) - 1 = n
      BY DepthInNat
    <3>2. g[n + 1] = Opened(g[n])
      BY <2>1, <3>1
    <3> QED BY <1>2, <2>3, <3>1, <3>2
  <2> HIDE DEF T
  <2>4. Nat \subseteq T
    BY <2>2, <2>3, Induction
  <2>5. Depth \in T /\ Depth <= Depth
    BY <2>4, DepthInNat
  <2> QED BY <2>1, <2>5 DEF T
<1>4. AllMoves(s) = s
  <2> DEFINE rows == [i \in DOMAIN s |-> Moves(s[i])]
  <2>1. rows = [i \in DOMAIN s |-> <<s[i]>>]
    BY <1>1, PlainIs
  <2>2. AllMoves(s) = FlattenSeq(rows)
    BY DEF AllMoves
  <2> HIDE DEF rows
  <2> QED BY <2>1, <2>2, FlatSame
<1> QED BY <1>3, <1>4

(* What a plain member adds to what is gathered.                             *)
LEMMA PlainSpec ==
  ASSUME NEW m \in Plain, NEW s \in SpecIn(m.hier)
  PROVE  LET v == Specified(s, m) IN
         /\ v.members = IF IsUser(m.hier) \/ TakenForAll(m) THEN s.members ELSE AddNew(s.members, m.rest[1])
         /\ v.paths = IF ~ IsUser(m.hier) \/ IsAll(m) THEN s.paths ELSE AddNew(s.paths, m.rest)
<1> DEFINE h == m.hier
           v == Specified(s, m)
<1>1. m.kind = "member" /\ ~ m.drilled /\ m.suffix = ""
  BY PlainIs
<1>2. v = on_member(s, m)
  BY <1>1 DEF Specified
<1>3. s \in SpecSet(h)
  BY DEF SpecIn
<1>4. CASE IsUser(h)
  <2> DEFINE e == s.drilled \cup (IF m.drilled THEN {Path(m)} ELSE {})
             ps == IF IsAll(m) THEN s.paths ELSE AddNew(s.paths, m.rest)
  <2>1. v = [s EXCEPT !.all = @ \/ IsAll(m), !.paths = ps, !.drilled = e]
    BY <1>1, <1>2, <1>4 DEF on_member, UserMember
  <2> HIDE DEF e, ps, h, v
  <2>2. v.members = s.members /\ v.paths = ps
    BY <1>3, <2>1 DEF SpecSet
  <2> QED BY <1>4, <2>2 DEF ps, h, v
<1>5. CASE ~ IsUser(h) /\ TakenForAll(m)
  <2>1. v = [s EXCEPT !.all = TRUE, !.children = @ \/ m.drilled]
    BY <1>1, <1>2, <1>5 DEF on_member, AttributeMember
  <2> HIDE DEF h, v
  <2>2. v.members = s.members /\ v.paths = s.paths
    BY <1>3, <2>1 DEF SpecSet
  <2> QED BY <1>5, <2>2 DEF h, v
<1>6. CASE ~ IsUser(h) /\ ~ TakenForAll(m)
  <2> DEFINE ms == AddNew(s.members, m.rest[1])
  <2>1. v = [s EXCEPT !.members = ms]
    BY <1>1, <1>2, <1>6 DEF on_member, AttributeMember
  <2> HIDE DEF h, v, ms
  <2>2. v.members = ms /\ v.paths = s.paths
    BY <1>3, <2>1 DEF SpecSet
  <2> QED BY <1>6, <2>2 DEF h, v, ms
<1> QED BY <1>4, <1>5, <1>6

(* A plain member adds itself to what has been gathered, and nothing else.   *)
LEMMA HoldingOn ==
  ASSUME NEW st, NEW D, Holding(st, D), NEW m \in Plain
  PROVE  Holding(Apply(st, m), D \cup {m})
<1> DEFINE a == Apply(st, m)
           h == m.hier
           E == D \cup {m}
           v == Specified(st.spec[h], m)
           o == AddNew(st.order, h)
<1>1. m \in Refs /\ m.kind = "member" /\ h \in Hierarchy /\ (~ IsAll(m) => m.rest \in PathsIn(h))
  BY PlainIs, RefIs
<1>2. StateOK(st) /\ st.spec[h] \in SpecIn(h) /\ m \in Move
  BY <1>1 DEF Holding, StateOK, Move
<1>3. StateOK(a)
  BY <1>2, ApplyOK
<1>4. a = [st EXCEPT !.order = o, !.spec[h] = v]
  BY <1>1 DEF Apply
<1>5. /\ v.members = IF IsUser(h) \/ TakenForAll(m) THEN st.spec[h].members ELSE AddNew(st.spec[h].members, m.rest[1])
      /\ v.paths = IF ~ IsUser(h) \/ IsAll(m) THEN st.spec[h].paths ELSE AddNew(st.spec[h].paths, m.rest)
  BY <1>2, PlainSpec
<1> HIDE DEF o, v, a, h, E
<1>6. /\ a.order = o /\ a.filters = st.filters /\ a.sink = st.sink
      /\ \A g \in Hierarchy : a.spec[g] = IF g = h THEN v ELSE st.spec[g]
  BY <1>2, <1>4 DEF StateOK
<1>7. ToSet(o) = {x.hier : x \in E}
  BY <1>1, <1>2, AddNewIs DEF StateOK, o, E, h, Holding
<1>8. ASSUME NEW g \in Hierarchy, g # h PROVE LeafsOf(E, g) = LeafsOf(D, g) /\ StemsOf(E, g) = StemsOf(D, g)
  BY <1>8 DEF LeafsOf, StemsOf, E, h
<1>9. ToSet(v.members) = LeafsOf(E, h)
  <2>1. CASE IsUser(h) \/ TakenForAll(m)
    BY <2>1, <1>1, <1>5 DEF LeafsOf, E, Holding
  <2>2. CASE ~ IsUser(h) /\ ~ TakenForAll(m)
    <3>1. LeafsOf(E, h) = LeafsOf(D, h) \cup {m.rest[1]}
      BY <2>2 DEF LeafsOf, E, h
    <3>2. st.spec[h].members \in Seq(Value)
      BY <1>1, <1>2, SpecIs
    <3>3. m.rest[1] \in Value
      BY <1>1, <2>2 DEF PathsIn, TakenForAll
    <3>4. ToSet(AddNew(st.spec[h].members, m.rest[1])) = ToSet(st.spec[h].members) \cup {m.rest[1]}
      BY <3>2, <3>3, AddNewIs
    <3> QED BY <1>1, <1>5, <2>2, <3>1, <3>4 DEF Holding
  <2> QED BY <2>1, <2>2
<1>10. ToSet(v.paths) = StemsOf(E, h)
  <2>1. CASE ~ IsUser(h) \/ IsAll(m)
    BY <2>1, <1>1, <1>5 DEF StemsOf, E, Holding
  <2>2. CASE IsUser(h) /\ ~ IsAll(m)
    <3>1. StemsOf(E, h) = StemsOf(D, h) \cup {m.rest}
      BY <2>2 DEF StemsOf, E, h
    <3>2. st.spec[h].paths \in Seq(PathsIn(h))
      BY <1>1, <1>2, SpecIs
    <3>3. m.rest \in PathsIn(h)
      BY <1>1, <2>2
    <3>4. ToSet(AddNew(st.spec[h].paths, m.rest)) = ToSet(st.spec[h].paths) \cup {m.rest}
      BY <3>2, <3>3, AddNewIs
    <3> QED BY <1>1, <1>5, <2>2, <3>1, <3>4 DEF Holding
  <2> QED BY <2>1, <2>2
<1>11. ASSUME NEW g \in Hierarchy
       PROVE  ToSet(a.spec[g].members) = LeafsOf(E, g) /\ ToSet(a.spec[g].paths) = StemsOf(E, g)
  BY <1>6, <1>8, <1>9, <1>10 DEF Holding
<1>12. a.filters = {} /\ a.sink = {} /\ ToSet(a.order) = {x.hier : x \in E}
  BY <1>6, <1>7 DEF Holding
<1> HIDE DEF LeafsOf, StemsOf
<1> QED BY <1>3, <1>11, <1>12 DEF Holding, a, E

(* At first nothing has been gathered.                                       *)
LEMMA HoldingNothing == Holding(Unspecified, {})
<1> DEFINE u == Unspecified
<1>1. u.filters = {} /\ u.sink = {} /\ u.order = <<>> /\ \A h \in Hierarchy : u.spec[h] = HierSpec(h)
  BY DEF Unspecified
<1>2. \A h \in Hierarchy : HierSpec(h).members = <<>> /\ HierSpec(h).paths = <<>>
  BY DEF HierSpec
<1>3. \A h : LeafsOf({}, h) = {} /\ StemsOf({}, h) = {}
  BY DEF LeafsOf, StemsOf
<1>4. StateOK(u) /\ ToSet(<<>>) = {} /\ {m.hier : m \in {}} = {}
  BY UnspecifiedOK, OneSet
<1> HIDE DEF u
<1> QED BY <1>1, <1>2, <1>3, <1>4 DEF Holding, u

(* A set of plain members is classified into what it names.                  *)
LEMMA PlainClassified ==
  ASSUME NEW s \in Seq(Plain)
  PROVE  Holding(_classify(s), ToSet(s))
<1>1. _classify(s) = Made(s)
  BY PlainWalk DEF _classify
<1>2. Len(s) \in Nat /\ DOMAIN s = 1..Len(s) /\ ToSet(s) = {s[i] : i \in 1..Len(s)} /\ \A i \in 1..Len(s) : s[i] \in Plain
  BY InSeq
<1>3. PICK g : /\ g[0] = Unspecified /\ Made(s) = g[Len(s)]
               /\ \A n \in 1..Len(s) : g[n] = Apply(g[n - 1], s[n])
  BY <1>2, MadeLoop
<1> DEFINE D(n) == {s[i] : i \in 1..n}
           T == {n \in Nat : n <= Len(s) => Holding(g[n], D(n))}
<1>4. 0 \in T
  <2>1. D(0) = {}
    OBVIOUS
  <2> QED BY <1>3, <2>1, HoldingNothing
<1>5. ASSUME NEW n \in Nat, n \in T PROVE n + 1 \in T
  <2> SUFFICES ASSUME n + 1 <= Len(s) PROVE Holding(g[n + 1], D(n + 1))
    OBVIOUS
  <2>1. n <= Len(s) /\ n + 1 \in 1..Len(s) /\ (n + 1) - 1 = n
    BY <1>2
  <2>2. g[n + 1] = Apply(g[n], s[n + 1])
    BY <1>3, <2>1
  <2>3. s[n + 1] \in Plain
    BY <1>2, <2>1
  <2>4. D(n + 1) = D(n) \cup {s[n + 1]}
    OBVIOUS
  <2>5. Holding(g[n], D(n))
    BY <1>5, <2>1
  <2> HIDE DEF D
  <2> QED BY <2>2, <2>3, <2>4, <2>5, HoldingOn
<1> HIDE DEF T
<1>6. Nat \subseteq T
  BY <1>4, <1>5, Induction
<1>7. Len(s) \in T /\ Len(s) <= Len(s)
  BY <1>2, <1>6
<1> QED BY <1>1, <1>2, <1>3, <1>7 DEF T

(* What filters, paths and combinations keep.                                *)

(* What the parts of a scope keep together is what each of them keeps.       *)
LEMMA MergedIs ==
  ASSUME NEW d, NEW slicer, NEW parts
  PROVE  KeptRows(d, Merged(slicer, parts)) =
           {row \in d : (\A p \in parts : Meets(row, p)) /\ Sliced(row, slicer)}
<1> DEFINE F == (UNION {p.filters : p \in parts}) \cup UNION {_member_filter(m) : m \in Members(slicer)}
           C == UNION {p.combos : p \in parts}
           scope == [filters |-> F, combos |-> C]
<1>1. scope.filters = F /\ scope.combos = C
  OBVIOUS
<1>2. ASSUME NEW row
      PROVE  Passes(row, F) /\ Fits(row, C) <=> (\A p \in parts : Meets(row, p)) /\ Sliced(row, slicer)
  <2>1. Passes(row, F) <=> (\A p \in parts : Passes(row, p.filters)) /\ Sliced(row, slicer)
    <3>1. ASSUME Passes(row, F) PROVE (\A p \in parts : Passes(row, p.filters)) /\ Sliced(row, slicer)
      <4>1. \A p \in parts : p.filters \subseteq F
        OBVIOUS
      <4>2. \A m \in Members(slicer) : _member_filter(m) \subseteq F
        OBVIOUS
      <4> HIDE DEF F
      <4> QED BY <3>1, <4>1, <4>2 DEF Passes, Sliced
    <3>2. ASSUME \A p \in parts : Passes(row, p.filters), Sliced(row, slicer) PROVE Passes(row, F)
      <4> SUFFICES ASSUME NEW f \in F PROVE row[f.field] \in f.values
        BY Zenon DEF Passes
      <4>1. (\E p \in parts : f \in p.filters) \/ \E m \in Members(slicer) : f \in _member_filter(m)
        BY Zenon
      <4> QED BY <3>2, <4>1, Zenon DEF Passes, Sliced
    <3> QED BY <3>1, <3>2
  <2>2. Fits(row, C) <=> \A p \in parts : Fits(row, p.combos)
    BY DEF Fits
  <2> QED BY <2>1, <2>2 DEF Meets
<1>3. KeptRows(d, scope) = {row \in d : Passes(row, scope.filters) /\ Fits(row, scope.combos)}
  BY Zenon DEF KeptRows, Passes, Fits
<1>4. Merged(slicer, parts) = scope
  BY DEF Merged
<1> HIDE DEF F, C, scope
<1> QED BY <1>1, <1>2, <1>3, <1>4

(* A text that is neither NULL nor empty is read as it is.                   *)
LEMMA TextIs ==
  ASSUME NEW v, NEW c, c # Null, c # Blank
  PROVE  Text(v) = c <=> v = c
  BY DEF Text

(* Under a path without blanks are the rows with its values.                 *)
LEMMA UnderIs ==
  ASSUME NEW row, NEW h, NEW p, Null \notin ToSet(p), Blank \notin ToSet(p)
  PROVE  Under(row, h, p) <=> \A i \in DOMAIN p : row[h[i]] = p[i]
<1>1. \A i \in DOMAIN p : p[i] # Null /\ p[i] # Blank
  BY DEF ToSet
<1>2. \A i \in DOMAIN p : Text(row[h[i]]) = p[i] <=> row[h[i]] = p[i]
  BY <1>1, TextIs
<1> QED BY <1>2 DEF Under

(* What a plain member holds that is neither All nor blank anywhere.         *)
LEMMA SolidIs ==
  ASSUME NEW m \in Solid
  PROVE  /\ m.hier \in Hierarchy /\ m.rest \in PathsIn(m.hier) /\ m.rest \in Seq(Value) /\ Len(m.rest) \in 1..Len(m.hier)
         /\ 1 \in DOMAIN m.rest /\ Null \notin ToSet(m.rest) /\ Blank \notin ToSet(m.rest)
         /\ ~ IsAll(m) /\ m \in Plain /\ m.kind = "member" /\ m.suffix = ""
         /\ ~ IsUser(m.hier) => DOMAIN m.rest = {1} /\ Len(m.hier) = 1
<1>1. m \in Plain /\ ~ IsAll(m) /\ Blank \notin ToSet(m.rest)
  BY DEF Solid
<1>2. m \in Refs /\ m.hier \in Hierarchy /\ m.rest \in PathsIn(m.hier) /\ m.kind = "member" /\ m.suffix = ""
  BY <1>1, PlainIs, RefIs
<1>3. m.rest \in Seq(Value) /\ Len(m.rest) \in 1..Len(m.hier) /\ Len(m.hier) \in Nat \ {0}
  BY <1>2, HierIs DEF PathsIn
<1>4. DOMAIN m.rest = 1..Len(m.rest)
  BY <1>3
<1> DEFINE k == Len(m.rest)
           n == Len(m.hier)
<1>5. k \in 1..n /\ n \in Nat \ {0} /\ DOMAIN m.rest = 1..k /\ (IsUser(m.hier) <=> n > 1)
  BY <1>3, <1>4 DEF IsUser
<1> HIDE DEF k, n
<1>6. 1 \in DOMAIN m.rest /\ (~ IsUser(m.hier) => DOMAIN m.rest = {1} /\ n = 1)
  BY <1>5
<1> QED BY <1>1, <1>2, <1>3, <1>6, NoNull DEF n

(* The slicer: the filters of a member keep what is in it.                   *)
LEMMA MemberFilters ==
  ASSUME NEW m \in Refs, Blank \notin ToSet(m.rest), TakenForAll(m) => IsAll(m), NEW row
  PROVE  Passes(row, _member_filter(m)) <=> InMember(row, m)
<1>1. CASE IsAll(m)
  BY <1>1 DEF _member_filter, Passes, InMember, TakenForAll
<1>2. CASE ~ IsAll(m)
  <2> DEFINE p == m.rest
             h == m.hier
             f(i) == [field |-> h[i], values |-> {p[i]}]
  <2>1. Under(row, h, p) <=> \A i \in DOMAIN p : row[h[i]] = p[i]
    BY <1>2, NoNull, UnderIs
  <2>2. _member_filter(m) = {f(i) : i \in DOMAIN p}
    BY <1>2 DEF _member_filter
  <2>3. \A i : f(i).field = h[i] /\ f(i).values = {p[i]}
    OBVIOUS
  <2> HIDE DEF f, p, h
  <2>4. Passes(row, _member_filter(m)) <=> \A i \in DOMAIN p : row[f(i).field] \in f(i).values
    BY <2>2 DEF Passes
  <2>5. Passes(row, _member_filter(m)) <=> \A i \in DOMAIN p : row[h[i]] = p[i]
    BY <2>3, <2>4
  <2> QED BY <1>2, <2>1, <2>5 DEF InMember, p, h
<1> QED BY <1>1, <1>2

(* The filters of a set's attributes ask for one member of each hierarchy.   *)
LEMMA TakenPass ==
  ASSUME NEW L \in SUBSET Solid, NEW row
  PROVE  Passes(row, TakenFilters(L)) <=> \A h \in {m.hier : m \in L} : ~ IsUser(h) => InHier(row, L, h)
<1> DEFINE V(h) == {m.rest[1] : m \in {x \in L : x.hier = h}}
           f(h) == [field |-> h[1], values |-> V(h)]
           H == {m.hier : m \in {x \in L : ~ IsUser(x.hier)}}
<1>1. TakenFilters(L) = {f(h) : h \in H}
  BY DEF TakenFilters
<1>2. \A h : f(h).field = h[1] /\ f(h).values = V(h)
  OBVIOUS
<1>3. \A h : h \in H <=> h \in {m.hier : m \in L} /\ ~ IsUser(h)
  OBVIOUS
<1>4. ASSUME NEW h \in H PROVE row[h[1]] \in V(h) <=> InHier(row, L, h)
  <2>1. ASSUME NEW m \in L, m.hier = h PROVE row[h[1]] = m.rest[1] <=> InMember(row, m)
    <3>1. m \in Solid /\ ~ IsUser(m.hier)
      BY <1>3, <2>1
    <3>2. DOMAIN m.rest = {1} /\ Null \notin ToSet(m.rest) /\ Blank \notin ToSet(m.rest) /\ ~ IsAll(m)
      BY <3>1, SolidIs
    <3>3. Under(row, h, m.rest) <=> row[h[1]] = m.rest[1]
      BY <3>2, UnderIs
    <3> QED BY <2>1, <3>2, <3>3 DEF InMember
  <2>2. row[h[1]] \in V(h) <=> \E m \in L : m.hier = h /\ row[h[1]] = m.rest[1]
    OBVIOUS
  <2> HIDE DEF V
  <2> QED BY <2>1, <2>2 DEF InHier
<1> HIDE DEF V, f, H
<1>5. Passes(row, TakenFilters(L)) <=> \A h \in H : row[h[1]] \in V(h)
  BY <1>1, <1>2 DEF Passes
<1> QED BY <1>3, <1>4, <1>5

-----------------------------------------------------------------------------

(* Paths of one hierarchy.                                                   *)
LEMMA MaxLength ==
  ASSUME NEW h \in Hierarchy, NEW P \in SUBSET PathsIn(h), P # {}
  PROVE  /\ Max({Len(p) : p \in P}) \in 1..Len(h)
         /\ \A p \in P : Len(p) <= Max({Len(q) : q \in P})
         /\ \E q \in P : Len(q) = Max({Len(p) : p \in P})
<1> DEFINE S == {Len(p) : p \in P}
<1>1. S \in SUBSET (1..Len(h)) /\ S # {} /\ Len(h) \in Nat
  BY HierIs DEF PathsIn
<1> HIDE DEF S
<1>2. \E i \in S : \A j \in S : j <= i
  BY <1>1, Greatest
<1>3. \E i \in S : \A j \in S : i >= j
  BY <1>1, <1>2
<1>4. Max(S) \in S /\ \A j \in S : Max(S) >= j
  BY <1>3, Zenon DEF Max
<1>5. Max(S) \in 1..Len(h) /\ \A j \in S : j <= Max(S)
  BY <1>1, <1>4
<1> QED BY <1>4, <1>5 DEF S

(* A row below a path, along the levels that are compared.                   *)
LEMMA BelowIs ==
  ASSUME NEW h \in Hierarchy, NEW row \in [Field -> Value \cup {Null}], NEW k \in 1..Len(h),
         NEW p \in PathsIn(h), Len(p) <= k
  PROVE  IsPrefix(p, canon_path(Along(SubSeq(h, 1, k), row))) <=> Under(row, h, p)
<1> DEFINE levels == SubSeq(h, 1, k)
           a == Along(levels, row)
           c == canon_path(a)
           n == Len(p)
<1>0. Len(h) \in Nat /\ k \in 0..Len(h) /\ k \in Nat
  BY HierIs
<1>1. levels \in Seq(Field) /\ Len(levels) = k /\ \A i \in 1..k : levels[i] = h[i]
  BY <1>0, PrefixIs
<1> HIDE DEF levels
<1>2. a \in Seq(Int) /\ Len(a) = k /\ DOMAIN a = 1..k /\ \A i \in 1..k : a[i] = row[h[i]]
  BY <1>1, AlongIs
<1> HIDE DEF a
<1>3. c = [i \in 1..k |-> Text(a[i])]
  BY <1>2 DEF canon_path
<1>4. \A i \in 1..k : Text(a[i]) \in Int
  BY <1>2 DEF Text, Blank
<1>5. c \in Seq(Int) /\ Len(c) = k /\ \A i \in 1..k : c[i] = Text(row[h[i]])
  <2>1. Lists(c, k, Int)
    BY <1>3, <1>4 DEF Lists
  <2>2. \A i \in 1..k : c[i] = Text(row[h[i]])
    BY <1>2, <1>3
  <2> HIDE DEF c
  <2> QED BY <1>0, <2>1, <2>2, ListIs
<1>6. p \in Seq(Int) /\ n \in Nat /\ n <= k /\ DOMAIN p = 1..n
  <2>1. p \in Seq(Value) /\ Value \subseteq Int
    BY ValueAssumption DEF PathsIn
  <2>2. p \in Seq(Int)
    BY <2>1, SeqMonotonic
  <2> QED BY <2>2
<1> HIDE DEF c
<1>7. IsPrefix(p, c) <=> \A i \in 1..n : p[i] = c[i]
  <2> DEFINE b == SubSeq(c, 1, n)
  <2>1. IsPrefix(p, c) <=> p = b
    BY <1>5, <1>6 DEF IsPrefix
  <2>2. b \in Seq(Int) /\ Len(b) = n /\ \A i \in 1..n : b[i] = c[i]
    <3>1. n \in Int /\ (IF 1 <= n THEN n - 1 + 1 ELSE 0) = n /\ n - 1 + 1 = n /\ \A i \in 1..n : 1 + i - 1 = i
      BY <1>6
    <3>2. \A i \in 1..n : c[i] \in Int
      BY <1>5, <1>6
    <3> HIDE DEF b, n
    <3> QED BY <3>1, <3>2, SubSeqProperties DEF b
  <2> HIDE DEF b
  <2>3. p = b <=> \A i \in 1..n : p[i] = b[i]
    BY <1>6, <2>2, SameSeq
  <2> QED BY <2>1, <2>2, <2>3
<1>8. \A i \in 1..n : i \in 1..k
  BY <1>6
<1>9. Under(row, h, p) <=> \A i \in 1..n : Text(row[h[i]]) = p[i]
  BY <1>6 DEF Under
<1> QED BY <1>5, <1>7, <1>8, <1>9 DEF c, a, levels

(* The paths select what is below one of them, unless the data has nothing   *)
(* there or a NULL is in between.                                            *)
LEMMA PathsSelect ==
  ASSUME NEW d \in Table, NEW h \in Hierarchy, NEW P \in SUBSET PathsIn(h), P # {},
         \A p \in P : Blank \notin ToSet(p),
         (\E p \in P : Len(p) > 1) => \E r \in d : \E p \in P : Under(r, h, p),
         \A r \in d : \A p, q \in P : Under(r, h, p) => Null \notin {r[h[i]] : i \in DOMAIN q},
         NEW row \in d
  PROVE  Meets(row, PathPredicate(d, h, P)) <=> \E p \in P : Under(row, h, p)
<1> DEFINE k == Max({Len(p) : p \in P})
           levels == SubSeq(h, 1, k)
<1>1. k \in 1..Len(h) /\ (\A p \in P : Len(p) <= k) /\ \E q \in P : Len(q) = k
  BY MaxLength
<1>2. PathPredicate(d, h, P) = DownTo(d, levels, P)
  BY DEF PathPredicate
<1> HIDE DEF k
<1>0. Len(h) \in Nat /\ k \in 0..Len(h) /\ k \in Nat
  BY <1>1, HierIs
<1>3. levels \in Seq(Field) /\ Len(levels) = k /\ \A i \in 1..k : levels[i] = h[i]
  BY <1>0, PrefixIs
<1>4. \A r \in d : r \in [Field -> Value \cup {Null}]
  BY DEF Table
<1>5. \A r \in d : \A p \in P : IsPrefix(p, canon_path(Along(levels, r))) <=> Under(r, h, p)
  BY <1>1, <1>4, BelowIs
<1>6. \A p \in P : p \in Seq(Value) /\ Len(p) \in 1..Len(h) /\ DOMAIN p = 1..Len(p)
  BY DEF PathsIn
<1> HIDE DEF levels
<1>7. \A r \in d : DOMAIN Along(levels, r) = 1..k /\ \A i \in 1..k : Along(levels, r)[i] = r[h[i]]
  BY <1>3, <1>4, AlongIs
<1>8. CASE k = 1
  <2> DEFINE f == [field |-> levels[1], values |-> {p[1] : p \in P}]
             part == [filters |-> {f}, combos |-> {}]
  <2>1. DownTo(d, levels, P) = part
    BY <1>3, <1>8 DEF DownTo
  <2>2. part.filters = {f} /\ part.combos = {} /\ f.field = h[1] /\ f.values = {p[1] : p \in P}
    BY <1>3, <1>8
  <2> HIDE DEF part, f
  <2>3. Meets(row, part) <=> row[h[1]] \in {p[1] : p \in P}
    BY <2>2 DEF Meets, Passes, Fits
  <2>4. ASSUME NEW p \in P PROVE row[h[1]] = p[1] <=> Under(row, h, p)
    BY <1>1, <1>6, <1>8, <1>0, InSeq, ValueAssumption, UnderIs DEF Null
  <2> QED BY <1>2, <2>1, <2>3, <2>4
<1>9. CASE k # 1
  <2> DEFINE R == AlongPaths(d, levels, P)
             c == [fields |-> levels, rows |-> R]
             part == [filters |-> {}, combos |-> {c}]
  <2>1. \A r \in d : Along(levels, r) \in R <=> \E p \in P : IsPrefix(p, canon_path(Along(levels, r)))
    BY DEF AlongPaths
  <2>2. \A r \in d : Along(levels, r) \in R <=> \E p \in P : Under(r, h, p)
    <3> HIDE DEF R
    <3> QED BY <1>5, <2>1
  <2> HIDE DEF R
  <2>3. R # {}
    <3>1. \E p \in P : Len(p) > 1
      BY <1>0, <1>1, <1>9
    <3>2. PICK r \in d : \E p \in P : Under(r, h, p)
      BY <3>1
    <3> QED BY <2>2, <3>2
  <2>4. DownTo(d, levels, P) = part
    BY <1>3, <1>9, <2>3 DEF DownTo, InAny, R
  <2>5. part.filters = {} /\ part.combos = {c} /\ c.fields = levels /\ c.rows = R
    OBVIOUS
  <2> HIDE DEF part, c
  <2>6. Meets(row, part) <=> Null \notin ToSet(Along(levels, row)) /\ Along(levels, row) \in R
    BY <2>5 DEF Meets, Passes, Fits
  <2>7. ASSUME NEW p \in P, Under(row, h, p) PROVE Null \notin ToSet(Along(levels, row))
    <3>1. PICK q \in P : Len(q) = k
      BY <1>1
    <3>2. DOMAIN q = 1..k
      BY <1>6, <3>1
    <3>3. Null \notin {row[h[i]] : i \in 1..k}
      BY <2>7, <3>2
    <3>4. ToSet(Along(levels, row)) = {row[h[i]] : i \in 1..k}
      <4> DEFINE a == Along(levels, row)
      <4>1. DOMAIN a = 1..k /\ \A i \in 1..k : a[i] = row[h[i]]
        BY <1>7
      <4> HIDE DEF a
      <4>2. ToSet(a) = {row[h[i]] : i \in 1..k}
        BY <4>1 DEF ToSet
      <4> QED BY <4>2 DEF a
    <3> QED BY <3>3, <3>4
  <2> QED BY <1>2, <2>2, <2>4, <2>6, <2>7
<1> QED BY <1>8, <1>9

(* What one set of members selects.                                          *)

(* Attributes are not of user hierarchies.                                   *)
LEMMA AllAttributes ==
  ASSUME NEW ms \in Seq(Attr)
  PROVE  OfAttribute(ms) = ms
<1> DEFINE rows == [i \in DOMAIN ms |-> IF IsUser(ms[i].hier) THEN <<>> ELSE <<ms[i]>>]
<1>1. \A i \in DOMAIN ms : ~ IsUser(ms[i].hier)
  BY DEF Attr
<1>2. rows = [i \in DOMAIN ms |-> <<ms[i]>>]
  BY <1>1
<1>3. OfAttribute(ms) = FlattenSeq(rows)
  BY DEF OfAttribute
<1> HIDE DEF rows
<1> QED BY <1>2, <1>3, FlatSame

(* A member of an attribute asks for one value.                              *)
LEMMA AttrIs ==
  ASSUME NEW m \in Attr, NEW row
  PROVE  /\ m.hier = <<m.hier[1]>> /\ m.rest[1] # Null
         /\ InMember(row, m) <=> row[m.hier[1]] = m.rest[1]
<1>1. m \in Solid /\ ~ IsUser(m.hier)
  BY DEF Attr
<1>2. /\ m.hier \in Hierarchy /\ Len(m.hier) = 1 /\ DOMAIN m.rest = {1} /\ ~ IsAll(m)
      /\ Null \notin ToSet(m.rest) /\ Blank \notin ToSet(m.rest)
  BY <1>1, SolidIs
<1>3. m.hier \in Seq(Field)
  BY <1>2, HierIs
<1>4. m.hier = <<m.hier[1]>>
  BY <1>2, <1>3
<1>5. Under(row, m.hier, m.rest) <=> row[m.hier[1]] = m.rest[1]
  BY <1>2, UnderIs
<1>6. m.rest[1] # Null
  BY <1>2 DEF ToSet
<1> QED BY <1>2, <1>4, <1>5, <1>6 DEF InMember

(* A combination keeps the rows that stand for all its members.              *)
LEMMA ComboIs ==
  ASSUME NEW e, e.args \in Seq(Attr), NEW row
  PROVE  /\ Along(FieldsOf(e), row) = ValuesOf(e) <=> Stands(row, e)
         /\ Along(FieldsOf(e), row) = ValuesOf(e) => Null \notin ToSet(Along(FieldsOf(e), row))
         /\ DOMAIN FieldsOf(e) = DOMAIN e.args
<1> DEFINE a == e.args
           D == DOMAIN a
<1>1. \A i \in D : a[i] \in Attr
  OBVIOUS
<1>2. FieldsOf(e) = [i \in D |-> a[i].hier[1]] /\ ValuesOf(e) = [i \in D |-> a[i].rest[1]]
  BY DEF FieldsOf, ValuesOf
<1>3. Along(FieldsOf(e), row) = [i \in D |-> row[a[i].hier[1]]]
  BY <1>2 DEF Along
<1>4. Stands(row, e) <=> \A i \in D : InMember(row, a[i])
  BY DEF Stands, ToSet
<1> HIDE DEF a, D
<1>5. Along(FieldsOf(e), row) = ValuesOf(e) <=> \A i \in D : row[a[i].hier[1]] = a[i].rest[1]
  BY <1>2, <1>3
<1>6. \A i \in D : InMember(row, a[i]) <=> row[a[i].hier[1]] = a[i].rest[1]
  BY <1>1, AttrIs
<1>7. \A i \in D : a[i].rest[1] # Null
  BY <1>1, AttrIs
<1>8. ToSet(ValuesOf(e)) = {a[i].rest[1] : i \in D}
  BY <1>2 DEF ToSet
<1> QED BY <1>2, <1>4, <1>5, <1>6, <1>7, <1>8 DEF a, D

(* Over the same fields, over the same hierarchies.                          *)
LEMMA SameFields ==
  ASSUME NEW e, NEW x, e.args \in Seq(Attr), x.args \in Seq(Attr),
         ToSet(Hiers(e)) = ToSet(Hiers(x)) => Hiers(e) = Hiers(x)
  PROVE  FieldsOf(x) = FieldsOf(e) <=> {m.hier : m \in ToSet(x.args)} = {m.hier : m \in ToSet(e.args)}
<1> DEFINE a == e.args
           b == x.args
<1>1. (\A i \in DOMAIN a : a[i] \in Attr) /\ (\A i \in DOMAIN b : b[i] \in Attr)
  OBVIOUS
<1>2. /\ Hiers(e) = [i \in DOMAIN a |-> a[i].hier] /\ Hiers(x) = [i \in DOMAIN b |-> b[i].hier]
      /\ FieldsOf(e) = [i \in DOMAIN a |-> a[i].hier[1]] /\ FieldsOf(x) = [i \in DOMAIN b |-> b[i].hier[1]]
  BY DEF Hiers, FieldsOf
<1>3. /\ {m.hier : m \in ToSet(a)} = {a[i].hier : i \in DOMAIN a} /\ ToSet(Hiers(e)) = {a[i].hier : i \in DOMAIN a}
      /\ {m.hier : m \in ToSet(b)} = {b[i].hier : i \in DOMAIN b} /\ ToSet(Hiers(x)) = {b[i].hier : i \in DOMAIN b}
  <2>1. /\ {m.hier : m \in ToSet(a)} = {a[i].hier : i \in DOMAIN a}
        /\ {m.hier : m \in ToSet(b)} = {b[i].hier : i \in DOMAIN b}
    BY DEF ToSet
  <2> HIDE DEF a, b
  <2> QED BY <1>2, <2>1 DEF ToSet
<1>4. (\A i \in DOMAIN a : a[i].hier = <<a[i].hier[1]>>) /\ (\A i \in DOMAIN b : b[i].hier = <<b[i].hier[1]>>)
  BY <1>1, AttrIs
<1>5. ToSet(Hiers(e)) = ToSet(Hiers(x)) => Hiers(e) = Hiers(x)
  OBVIOUS
<1> HIDE DEF a, b
<1>6. ASSUME Hiers(e) = Hiers(x) PROVE FieldsOf(x) = FieldsOf(e)
  BY <1>2, <1>6
<1>7. ASSUME FieldsOf(x) = FieldsOf(e) PROVE Hiers(x) = Hiers(e)
  BY SMTT(60), <1>2, <1>7, <1>4
<1> QED BY <1>3, <1>5, <1>6, <1>7 DEF a, b

(* Combinations of the same hierarchies are alternatives; each set of        *)
(* hierarchies is asked for.                                                 *)
LEMMA CombosFit ==
  ASSUME NEW entries, NEW row, \A e \in Taken(entries) : e.args \in Seq(Attr), InOrder(entries)
  PROVE  Fits(row, Combinations(entries)) <=>
           \A e \in Taken(entries) : \E x \in Taken(entries) :
             {m.hier : m \in ToSet(x.args)} = {m.hier : m \in ToSet(e.args)} /\ Stands(row, x)
<1> DEFINE T == Taken(entries)
           rows(fs) == {ValuesOf(e) : e \in {x \in T : FieldsOf(x) = fs}}
           c(fs) == [fields |-> fs, rows |-> rows(fs)]
           F == {FieldsOf(e) : e \in T}
<1>1. Combinations(entries) = {c(fs) : fs \in F}
  <2> DEFINE fields(e) == [i \in DOMAIN OfAttribute(e.args) |-> OfAttribute(e.args)[i].hier[1]]
             values(e) == [i \in DOMAIN OfAttribute(e.args) |-> OfAttribute(e.args)[i].rest[1]]
  <2>1. \A e \in T : OfAttribute(e.args) = e.args
    BY AllAttributes
  <2>2. Combinations(entries) =
          {[fields |-> fs, rows |-> {values(e) : e \in {x \in T : fields(x) = fs}}] : fs \in {fields(e) : e \in T}}
    BY DEF Combinations, Taken
  <2>3. \A e \in T : fields(e) = FieldsOf(e) /\ values(e) = ValuesOf(e)
    <3> HIDE DEF T
    <3> QED BY <2>1 DEF FieldsOf, ValuesOf
  <2> HIDE DEF T, fields, values
  <2>4. {fields(e) : e \in T} = F
    BY <2>3
  <2>5. \A fs : {values(e) : e \in {x \in T : fields(x) = fs}} = rows(fs)
    BY <2>3
  <2> DEFINE d(fs) == [fields |-> fs, rows |-> {values(e) : e \in {x \in T : fields(x) = fs}}]
  <2>6. Combinations(entries) = {d(fs) : fs \in F}
    BY <2>2, <2>4
  <2>7. \A fs : d(fs) = c(fs)
    BY <2>5
  <2> HIDE DEF c, d, F, rows
  <2> QED BY <2>6, <2>7
<1>2. \A fs : c(fs).fields = fs /\ c(fs).rows = rows(fs)
  OBVIOUS
<1>3. InOrder(entries) => \A e, x \in T : ToSet(Hiers(e)) = ToSet(Hiers(x)) => Hiers(e) = Hiers(x)
  BY DEF InOrder, Taken
<1>4. \A e, x \in T : FieldsOf(x) = FieldsOf(e) <=> {m.hier : m \in ToSet(x.args)} = {m.hier : m \in ToSet(e.args)}
  BY <1>3, SameFields
<1> HIDE DEF c, T
<1>5. Fits(row, Combinations(entries)) <=>
        \A e \in T : Null \notin ToSet(Along(FieldsOf(e), row)) /\ Along(FieldsOf(e), row) \in rows(FieldsOf(e))
  <2> HIDE DEF rows
  <2> QED BY <1>1, <1>2 DEF Fits
<1>6. ASSUME NEW e \in T
      PROVE  Null \notin ToSet(Along(FieldsOf(e), row)) /\ Along(FieldsOf(e), row) \in rows(FieldsOf(e))
               <=> \E x \in T : FieldsOf(x) = FieldsOf(e) /\ Stands(row, x)
  <2>1. Along(FieldsOf(e), row) \in rows(FieldsOf(e))
          <=> \E x \in T : FieldsOf(x) = FieldsOf(e) /\ Along(FieldsOf(x), row) = ValuesOf(x)
    BY Zenon
  <2>2. \A x \in T : /\ Along(FieldsOf(x), row) = ValuesOf(x) <=> Stands(row, x)
                     /\ Along(FieldsOf(x), row) = ValuesOf(x) => Null \notin ToSet(Along(FieldsOf(x), row))
    BY ComboIs DEF T
  <2> HIDE DEF rows
  <2>3. ASSUME NEW x \in T, FieldsOf(x) = FieldsOf(e), Stands(row, x) PROVE Null \notin ToSet(Along(FieldsOf(e), row))
    BY <2>2, <2>3
  <2> QED BY <2>1, <2>2, <2>3
<1> HIDE DEF rows
<1>7. Fits(row, Combinations(entries)) <=> \A e \in T : \E x \in T : FieldsOf(x) = FieldsOf(e) /\ Stands(row, x)
  BY <1>5, <1>6
<1> QED BY <1>4, <1>7 DEF T

(* A selection that is not known to be answered wrongly.                     *)

(* The entries of a set, tuples opened.                                      *)
LEMMA FlatHas ==
  ASSUME NEW entries, NEW e \in ToSet(entries)
  PROVE  /\ e.kind # "tuple" => e \in Flat(entries)
         /\ e.kind = "tuple" => ToSet(e.args) \subseteq Flat(entries)
<1> DEFINE F(x) == IF x.kind = "tuple" THEN ToSet(x.args) ELSE {x}
<1>1. Flat(entries) = UNION {F(x) : x \in ToSet(entries)}
  BY DEF Flat
<1>2. F(e) \subseteq Flat(entries)
  BY <1>1, Zenon
<1>3. (e.kind # "tuple" => F(e) = {e}) /\ (e.kind = "tuple" => F(e) = ToSet(e.args))
  OBVIOUS
<1> HIDE DEF F
<1> QED BY <1>2, <1>3

(* Its entries are members, or tuples of named members.                      *)
LEMMA FineEntry ==
  ASSUME NEW entries, Fine(entries), NEW e \in ToSet(entries)
  PROVE  /\ e \in Entry
         /\ e.kind # "tuple" => e \in Plain /\ e \in Members(entries) /\ (~ IsAll(e) => e \in Solid)
         /\ e.kind = "tuple" => /\ e \in Elements(entries, "tuple") /\ e.args \in Seq(Solid)
                                /\ e \in Taken(entries) <=> IsCombination(e)
                                /\ IsCombination(e) => e.args \in Seq(Attr)
<1>1. e \in Entry /\ (Names(e) \/ NamesTuple(e))
  BY InSeq DEF Fine, SubselectTyped
<1>2. CASE e.kind # "tuple"
  BY <1>1, <1>2, NamedPlain, FlatHas DEF NamesTuple, Names, IsRef, Fine, Members, Solid
<1>3. CASE e.kind = "tuple"
  <2>1. e \in Elements(entries, "tuple")
    BY <1>3 DEF Elements
  <2>2. e.args \in Seq(Entry) /\ \A i \in DOMAIN e.args : Names(e.args[i])
    BY <1>1, <1>3, EntryIs DEF NamesTuple, Names, IsRef
  <2> DEFINE a == e.args
  <2>3. /\ a \in Seq(Entry) /\ Len(a) \in Nat /\ DOMAIN a = 1..Len(a) /\ (\A i \in 1..Len(a) : a[i] \in Entry)
        /\ ToSet(a) = {a[i] : i \in 1..Len(a)} /\ a \in [1..Len(a) -> Entry]
    BY <2>2, InSeq
  <2>4. ASSUME NEW i \in 1..Len(a) PROVE a[i] \in Solid /\ (IsCombination(e) => a[i] \in Attr)
    <3>1. a[i] \in Plain /\ a[i].kind = "member" /\ a[i] \in ToSet(a)
      BY <2>2, <2>3, NamedPlain DEF Names, IsRef
    <3>2. ~ IsAll(a[i]) /\ ~ (IsCombination(e) /\ IsUser(a[i].hier))
      BY <2>1, <3>1 DEF Fine, Mixed
    <3>3. Blank \notin ToSet(a[i].rest)
      BY <1>3, <3>1, FlatHas DEF Fine
    <3> HIDE DEF a
    <3> QED BY <3>1, <3>2, <3>3 DEF Solid, Attr
  <2> DEFINE n == Len(a)
  <2>5. n \in Nat /\ a \in [1..n -> Entry]
    BY <2>3
  <2>6. (\A i \in 1..n : a[i] \in Solid) /\ (IsCombination(e) => \A i \in 1..n : a[i] \in Attr)
    BY <2>4
  <2> HIDE DEF a, n
  <2>7. Lists(a, n, Solid) /\ (IsCombination(e) => Lists(a, n, Attr))
    BY <2>5, <2>6 DEF Lists
  <2>8. a \in Seq(Solid) /\ (IsCombination(e) => a \in Seq(Attr))
    BY <2>5, <2>7, ListIs
  <2> QED BY <1>1, <1>3, <2>1, <2>8 DEF Taken, a
<1> QED BY <1>2, <1>3

(* The loose members: those by themselves and those of other tuples.         *)
LEMMA LooseIs ==
  ASSUME NEW entries, Fine(entries)
  PROVE  /\ \A m : m \in Loose(entries) <=>
              \/ m \in ToSet(entries) /\ m.kind # "tuple"
              \/ \E e \in ToSet(entries) : e.kind = "tuple" /\ ~ IsCombination(e) /\ m \in ToSet(e.args)
         /\ NamedLoose(entries) \subseteq Solid /\ Loose(entries) \subseteq Plain
<1>1. ASSUME NEW m \in ToSet(entries), m.kind # "tuple" PROVE m \in Loose(entries)
  BY <1>1, FineEntry, PlainIs DEF Loose
<1>2. ASSUME NEW e \in ToSet(entries), e.kind = "tuple", ~ IsCombination(e), NEW m \in ToSet(e.args)
      PROVE  m \in Loose(entries)
  <2>1. e \in Elements(entries, "tuple") \ Taken(entries) /\ e.args \in Seq(Solid)
    BY <1>2, FineEntry
  <2>2. m \in Solid
    BY <2>1, InSeq
  <2>3. m.suffix = ""
    BY <2>2, SolidIs
  <2> QED BY <2>1, <2>3 DEF Loose
<1>3. ASSUME NEW m \in Loose(entries)
      PROVE  \/ m \in ToSet(entries) /\ m.kind # "tuple"
             \/ \E e \in ToSet(entries) : e.kind = "tuple" /\ ~ IsCombination(e) /\ m \in ToSet(e.args)
  <2>1. CASE m \in Members(entries)
    BY <2>1 DEF Members, IsRef
  <2>2. CASE m \notin Members(entries)
    <3>1. PICK e \in Elements(entries, "tuple") \ Taken(entries) : m \in ToSet(e.args)
      BY <2>2 DEF Loose
    <3>2. e \in ToSet(entries) /\ e.kind = "tuple"
      BY <3>1 DEF Elements
    <3>3. ~ IsCombination(e)
      BY <3>1, <3>2, FineEntry
    <3> QED BY <3>1, <3>2, <3>3
  <2> QED BY <2>1, <2>2
<1>4. ASSUME NEW m \in Loose(entries) PROVE m \in Plain /\ (~ IsAll(m) => m \in Solid)
  <2>1. CASE m \in ToSet(entries) /\ m.kind # "tuple"
    BY <2>1, FineEntry
  <2>2. ASSUME NEW e \in ToSet(entries), e.kind = "tuple", m \in ToSet(e.args) PROVE m \in Plain /\ m \in Solid
    BY <2>2, FineEntry, InSeq, SolidIs
  <2> QED BY <1>3, <2>1, <2>2
<1>5. NamedLoose(entries) \subseteq Solid
  BY <1>4 DEF NamedLoose
<1> QED BY <1>1, <1>2, <1>3, <1>4, <1>5

(* What is classified of a subselect: its members, and those of attributes   *)
(* in tuples that are not combinations.                                      *)
LEMMA PlainEntriesAre ==
  ASSUME NEW entries, Fine(entries)
  PROVE  /\ PlainEntries(entries) \in Seq(Plain)
         /\ \A m : m \in ToSet(PlainEntries(entries)) <=>
              \/ m \in ToSet(entries) /\ m.kind # "tuple"
              \/ \E e \in ToSet(entries) : /\ e.kind = "tuple" /\ ~ IsCombination(e)
                                           /\ m \in ToSet(e.args) /\ ~ IsUser(m.hier)
<1> DEFINE n == Len(entries)
           rows == [i \in DOMAIN entries |->
              CASE entries[i].kind = "tuple" /\ IsCombination(entries[i]) -> <<>>
                [] entries[i].kind = "tuple" /\ ~ IsCombination(entries[i]) -> OfAttribute(entries[i].args)
                [] OTHER -> <<entries[i]>>]
           In(m, e) == \/ m = e /\ e.kind # "tuple"
                       \/ /\ e.kind = "tuple" /\ ~ IsCombination(e)
                          /\ m \in ToSet(e.args) /\ ~ IsUser(m.hier)
<1>1. n \in Nat /\ DOMAIN entries = 1..n /\ ToSet(entries) = {entries[i] : i \in 1..n}
  BY InSeq DEF Fine
<1>2. ASSUME NEW i \in 1..n
      PROVE  rows[i] \in Seq(Plain) /\ \A m : m \in ToSet(rows[i]) <=> In(m, entries[i])
  <2> DEFINE e == entries[i]
  <2>1. e \in ToSet(entries)
    BY <1>1
  <2>2. rows[i] = CASE e.kind = "tuple" /\ IsCombination(e) -> <<>>
                    [] e.kind = "tuple" /\ ~ IsCombination(e) -> OfAttribute(e.args)
                    [] OTHER -> <<e>>
    BY <1>1
  <2> HIDE DEF rows, e, n
  <2>3. CASE e.kind = "tuple" /\ IsCombination(e)
    BY <2>2, <2>3, OneSet DEF e
  <2>4. CASE e.kind = "tuple" /\ ~ IsCombination(e)
    <3>1. rows[i] = OfAttribute(e.args) /\ e.args \in Seq(Solid)
      BY <2>1, <2>2, <2>4, FineEntry
    <3>2. OfAttribute(e.args) \in Seq(Solid) /\ ToSet(OfAttribute(e.args)) = {m \in ToSet(e.args) : ~ IsUser(m.hier)}
      BY <3>1, SplitIs
    <3>3. Seq(Solid) \subseteq Seq(Plain)
      <4>1. Solid \subseteq Plain
        BY DEF Solid
      <4> HIDE DEF Solid, Plain
      <4> QED BY <4>1
    <3> QED BY <2>4, <3>1, <3>2, <3>3 DEF e
  <2>5. CASE e.kind # "tuple"
    BY <2>1, <2>2, <2>5, FineEntry, OneSet DEF e
  <2> QED BY <2>3, <2>4, <2>5
<1>3. PlainEntries(entries) = FlattenSeq(rows)
  BY DEF PlainEntries
<1>4. Lists(rows, n, Seq(Plain))
  BY <1>1, <1>2 DEF Lists
<1> HIDE DEF rows, n, In
<1>5. FlattenSeq(rows) \in Seq(Plain) /\ ToSet(FlattenSeq(rows)) = Joined(rows, n)
  BY <1>1, <1>4, FlatIs
<1>6. \A m : m \in Joined(rows, n) <=> \E i \in 1..n : In(m, entries[i])
  BY <1>2 DEF Joined
<1>7. \A m : m \in Joined(rows, n) <=> \E e \in ToSet(entries) : In(m, e)
  BY <1>1, <1>6
<1> QED BY <1>3, <1>5, <1>7, Zenon DEF In

(* A selection comes to filters on attributes, combinations and paths.       *)
LEMMA SubselectedIs ==
  ASSUME NEW entries, Fine(entries), \A m \in Flat(entries) : m.kind = "member" /\ TakenForAll(m) => IsAll(m)
  PROVE  Subselected(entries) = [filters |-> TakenFilters(NamedLoose(entries)),
                                 combos |-> Combinations(entries),
                                 paths |-> TakenPaths(NamedLoose(entries))]
<1> DEFINE pe == PlainEntries(entries)
           st == _classify(pe)
           D == ToSet(pe)
           L == NamedLoose(entries)
           F == {[field |-> s.hier[1], values |-> ToSet(s.members)] :
                   s \in {x \in ToSet(Specs(st)) : ~ IsUser(x.hier) /\ x.members # <<>>}}
           P == TuplePaths(entries) \cup st.sink
                  \cup UNION {{[hier |-> s.hier, path |-> p] : p \in ToSet(s.paths)} : s \in ToSet(Specs(st))}
<1>1. Subselected(entries) = [filters |-> F, combos |-> Combinations(entries), paths |-> P]
  BY DEF Subselected, PickedBy, Picked
<1>2. pe \in Seq(Plain) /\ Holding(st, D)
  BY PlainEntriesAre, PlainClassified
<1>3. \A m : m \in D <=> \/ m \in ToSet(entries) /\ m.kind # "tuple"
                         \/ \E e \in ToSet(entries) : /\ e.kind = "tuple" /\ ~ IsCombination(e)
                                                      /\ m \in ToSet(e.args) /\ ~ IsUser(m.hier)
  BY PlainEntriesAre
<1>4. \A m : m \in Loose(entries) <=>
              \/ m \in ToSet(entries) /\ m.kind # "tuple"
              \/ \E e \in ToSet(entries) : e.kind = "tuple" /\ ~ IsCombination(e) /\ m \in ToSet(e.args)
  BY LooseIs
<1>a. L \subseteq Solid
  BY LooseIs
<1>b. \A m \in D : m \in Plain /\ m.hier \in Hierarchy /\ m.kind = "member"
  BY <1>2, InSeq, PlainIs, RefIs
<1>c. \A m \in D : TakenForAll(m) <=> IsAll(m)
  BY <1>3, <1>b, FlatHas DEF TakenForAll
<1> HIDE DEF st, D, pe, F, P
<1>5. \A m : ~ IsUser(m.hier) => (m \in L <=> m \in D /\ ~ IsAll(m))
  BY <1>3, <1>4 DEF NamedLoose
<1>6. \A m : IsUser(m.hier) => (m \in L <=> \/ m \in D /\ ~ IsAll(m)
                                            \/ \E e \in Elements(entries, "tuple") : m \in ToSet(e.args))
  <2> SUFFICES ASSUME NEW m, IsUser(m.hier)
               PROVE  m \in L <=> \/ m \in D /\ ~ IsAll(m)
                                  \/ \E e \in Elements(entries, "tuple") : m \in ToSet(e.args)
    OBVIOUS
  <2>1. \A e : e \in Elements(entries, "tuple") <=> e \in ToSet(entries) /\ e.kind = "tuple"
    BY DEF Elements
  <2>2. ASSUME NEW e \in ToSet(entries), e.kind = "tuple", m \in ToSet(e.args) PROVE ~ IsAll(m) /\ ~ IsCombination(e)
    <3>1. e.args \in Seq(Solid) /\ (IsCombination(e) => e.args \in Seq(Attr))
      BY <2>2, FineEntry
    <3>2. m \in Solid /\ (IsCombination(e) => m \in Attr)
      BY <2>2, <3>1, InSeq
    <3> QED BY <3>2, SolidIs DEF Attr
  <2> QED BY <1>3, <1>4, <2>1, <2>2 DEF NamedLoose
<1>7. /\ StateOK(st) /\ st.sink = {} /\ ToSet(st.order) = {m.hier : m \in D}
      /\ ToSet(Specs(st)) = {st.spec[h] : h \in ToSet(st.order)}
      /\ \A h \in Hierarchy : /\ ToSet(st.spec[h].members) = LeafsOf(D, h) /\ ToSet(st.spec[h].paths) = StemsOf(D, h)
                              /\ st.spec[h].hier = h /\ st.spec[h].members \in Seq(Value)
  BY <1>2, SpecsAre, SpecIs DEF Holding, StateOK
<1> DEFINE H == {m.hier : m \in D}
           S == {st.spec[h] : h \in H}
<1>8. H \subseteq Hierarchy /\ ToSet(Specs(st)) = S
  BY <1>7, <1>b
<1>9. F = TakenFilters(L)
  <2> DEFINE V(h) == {m.rest[1] : m \in {x \in L : x.hier = h}}
             f(h) == [field |-> h[1], values |-> V(h)]
             G == {m.hier : m \in {x \in L : ~ IsUser(x.hier)}}
             g(s) == [field |-> s.hier[1], values |-> ToSet(s.members)]
  <2>1. TakenFilters(L) = {f(h) : h \in G}
    BY DEF TakenFilters
  <2>2. F = {g(s) : s \in {x \in S : ~ IsUser(x.hier) /\ x.members # <<>>}}
    BY <1>8 DEF F
  <2>3. ASSUME NEW h \in Hierarchy, ~ IsUser(h)
        PROVE  g(st.spec[h]) = f(h) /\ (h \in G <=> h \in H /\ st.spec[h].members # <<>>)
    <3>1. LeafsOf(D, h) = V(h)
      BY <1>5, <1>c, <2>3 DEF LeafsOf
    <3>2. g(st.spec[h]) = f(h)
      BY <1>7, <3>1
    <3>3. st.spec[h].members # <<>> <=> V(h) # {}
      <4> DEFINE ms == st.spec[h].members
      <4>1. ms \in Seq(Value) /\ ToSet(ms) = V(h)
        BY <1>7, <3>1
      <4> HIDE DEF ms, V
      <4>2. ms # <<>> <=> ToSet(ms) # {}
        BY <4>1, OneSet DEF ToSet
      <4> QED BY <4>1, <4>2 DEF ms
    <3>4. h \in G <=> V(h) # {}
      BY <2>3
    <3>5. V(h) # {} => h \in H
      BY <1>5, <2>3
    <3> QED BY <3>2, <3>3, <3>4, <3>5
  <2>4. G \subseteq Hierarchy /\ \A h \in G : ~ IsUser(h)
    BY <1>a, SolidIs
  <2> HIDE DEF f, g, G, H, S
  <2>5. ASSUME NEW x \in F PROVE x \in TakenFilters(L)
    <3>1. PICK h \in H : x = g(st.spec[h]) /\ ~ IsUser(st.spec[h].hier) /\ st.spec[h].members # <<>>
      BY <2>2 DEF S
    <3>2. h \in Hierarchy /\ ~ IsUser(h)
      BY <1>7, <1>8, <3>1
    <3> QED BY <2>1, <2>3, <3>1, <3>2
  <2>6. ASSUME NEW x \in TakenFilters(L) PROVE x \in F
    <3>1. PICK h \in G : x = f(h)
      BY <2>1
    <3>2. h \in Hierarchy /\ ~ IsUser(h)
      BY <2>4
    <3>3. h \in H /\ st.spec[h].members # <<>> /\ x = g(st.spec[h]) /\ st.spec[h].hier = h
      BY <1>7, <2>3, <3>1, <3>2
    <3>4. st.spec[h] \in S
      BY <3>3 DEF S
    <3> QED BY <2>2, <3>2, <3>3, <3>4
  <2> QED BY <2>5, <2>6
<1>10. P = TakenPaths(L)
  <2> DEFINE w(m) == [hier |-> m.hier, path |-> m.rest]
             q(s) == {[hier |-> s.hier, path |-> p] : p \in ToSet(s.paths)}
  <2>1. TakenPaths(L) = {w(m) : m \in {x \in L : IsUser(x.hier)}}
    BY DEF TakenPaths
  <2>2. P = TuplePaths(entries) \cup UNION {q(s) : s \in S}
    BY <1>7, <1>8 DEF P
  <2>3. TuplePaths(entries) = {w(m) : m \in UNION {ToSet(OfUser(e.args)) : e \in Elements(entries, "tuple")}}
    BY DEF TuplePaths
  <2>4. \A e \in Elements(entries, "tuple") : ToSet(OfUser(e.args)) = {m \in ToSet(e.args) : IsUser(m.hier)}
    <3> SUFFICES ASSUME NEW e \in Elements(entries, "tuple") PROVE ToSet(OfUser(e.args)) = {m \in ToSet(e.args) : IsUser(m.hier)}
      OBVIOUS
    <3>1. e \in ToSet(entries) /\ e.kind = "tuple"
      BY DEF Elements
    <3>2. e.args \in Seq(Solid)
      BY <3>1, FineEntry
    <3> QED BY <3>2, SplitIs
  <2>5. ASSUME NEW h \in Hierarchy
        PROVE  q(st.spec[h]) = {w(m) : m \in {x \in D : x.hier = h /\ IsUser(h) /\ ~ IsAll(x)}}
    <3>1. q(st.spec[h]) = {[hier |-> h, path |-> p] : p \in StemsOf(D, h)}
      BY <1>7
    <3> HIDE DEF q
    <3> QED BY <3>1 DEF StemsOf
  <2> HIDE DEF q, w
  <2>6. ASSUME NEW x \in P PROVE x \in TakenPaths(L)
    <3>1. CASE x \in TuplePaths(entries)
      <4>1. PICK m \in UNION {ToSet(OfUser(e.args)) : e \in Elements(entries, "tuple")} : x = w(m)
        BY <2>3, <3>1
      <4>2. PICK e \in Elements(entries, "tuple") : m \in ToSet(OfUser(e.args))
        BY <4>1
      <4>3. m \in ToSet(e.args) /\ IsUser(m.hier)
        BY <2>4, <4>2
      <4>4. m \in L
        BY <1>6, <4>3
      <4> QED BY <2>1, <4>1, <4>3, <4>4
    <3>2. CASE x \notin TuplePaths(entries)
      <4>1. PICK h \in H : x \in q(st.spec[h])
        BY <2>2, <3>2
      <4>2. h \in Hierarchy
        BY <1>8
      <4>3. PICK m \in {y \in D : y.hier = h /\ IsUser(h) /\ ~ IsAll(y)} : x = w(m)
        BY <2>5, <4>1, <4>2
      <4>4. m \in L /\ IsUser(m.hier)
        BY <1>6, <4>3
      <4> QED BY <2>1, <4>3, <4>4
    <3> QED BY <3>1, <3>2
  <2>7. ASSUME NEW x \in TakenPaths(L) PROVE x \in P
    <3>1. PICK m \in L : IsUser(m.hier) /\ x = w(m)
      BY <2>1
    <3>2. CASE m \in D /\ ~ IsAll(m)
      BY <1>8, <3>2, <2>5, <3>1, <2>2
    <3>3. ASSUME NEW e \in Elements(entries, "tuple"), m \in ToSet(e.args) PROVE x \in P
      BY <2>4, <3>1, <3>3, <2>3, <2>2
    <3> QED BY <1>6, <3>1, <3>2, <3>3
  <2> QED BY <2>6, <2>7
<1> QED BY <1>1, <1>9, <1>10

(* What Exists on an axis comes to.                                          *)

(* They are the Exists of the walked entries.                                *)
LEMMA ExistsMoves ==
  ASSUME NEW walked \in Seq(Entry)
  PROVE  ExistsOf(AllMoves(walked)) = Elements(walked, "exists")
<1>1. ToSet(AllMoves(walked)) = UNION {ToSet(Moves(e)) : e \in ToSet(walked)}
  BY AllMovesAre
<1>2. ASSUME NEW e \in ToSet(walked), NEW m \in ToSet(Moves(e)), m.kind = "exists" PROVE m \in Elements(walked, "exists")
  <2>1. e \in Entry
    BY InSeq
  <2>2. CASE e.kind \in {"measure", "member", "exists"}
    BY <2>2, OneSet, <1>2 DEF Moves, Elements
  <2>3. CASE e.kind = "drillmember"
    <3>1. Moves(e) = on_drillmember(e)
      BY <2>3 DEF Moves
    <3>2. m \in DrillMove
      BY <2>1, <2>3, <3>1, DrillMoves, InSeq
    <3>3. m.kind # "exists"
      BY <3>2 DEF DrillMove, Refs, MemberRef, Marks, Mark, Targets, Limits
    <3> QED BY <1>2, <3>3
  <2>4. CASE e.kind \notin {"measure", "member", "exists", "drillmember"}
    BY <2>4, OneSet DEF Moves
  <2> QED BY <2>2, <2>3, <2>4
<1>3. ASSUME NEW e \in Elements(walked, "exists") PROVE e \in ExistsOf(AllMoves(walked))
  BY OneSet, <1>1 DEF Elements, Moves, ExistsOf
<1> QED BY <1>1, <1>2, <1>3 DEF ExistsOf

(* Only they change the scope.                                               *)
LEMMA ApplyScopes ==
  ASSUME NEW st, StateOK(st), NEW m \in Move
  PROVE  /\ m.kind = "exists" => /\ Apply(st, m).filters = st.filters \cup FiltersOf(m.among)
                                 /\ Apply(st, m).sink = st.sink \cup PathsOf(m.among)
         /\ m.kind # "exists" => Apply(st, m).filters = st.filters /\ Apply(st, m).sink = st.sink
<1> DEFINE a == Apply(st, m)
           F == FiltersOf(m.among)
           P == PathsOf(m.among)
           o == AddNew(st.order, m.hier)
           v == Specified(st.spec[m.hier], m)
<1>0. st = [measures |-> st.measures, order |-> st.order, spec |-> st.spec, filters |-> st.filters, sink |-> st.sink]
  BY DEF StateOK
<1>1. CASE m.kind = "measure"
  <2>1. a = [st EXCEPT !.measures = Append(st.measures, m.name)]
    BY <1>1 DEF Apply
  <2> HIDE DEF a
  <2> QED BY <1>0, <1>1, <2>1 DEF a
<1>2. CASE m.kind = "exists"
  <2>1. a = [st EXCEPT !.filters = st.filters \cup F, !.sink = st.sink \cup P]
    BY <1>2 DEF Apply
  <2> HIDE DEF a, F, P
  <2> QED BY <1>0, <1>2, <2>1 DEF a, F, P
<1>3. CASE m.kind \notin {"measure", "exists"}
  <2>1. a = [st EXCEPT !.order = o, !.spec[m.hier] = v]
    BY <1>3 DEF Apply
  <2> HIDE DEF a, o, v
  <2>2. a.filters = st.filters /\ a.sink = st.sink
    BY <1>0, <2>1
  <2> QED BY <1>3, <2>2 DEF a
<1> QED BY <1>1, <1>2, <1>3

(* An axis brings the filters and paths of its Exists.                       *)
LEMMA ClassifiedScopes ==
  ASSUME NEW entries \in Seq(Entry)
  PROVE  /\ _classify(entries).filters = UNION {FiltersOf(among) : among \in ExistsIn(entries)}
         /\ _classify(entries).sink = UNION {PathsOf(among) : among \in ExistsIn(entries)}
<1> DEFINE moves == AllMoves(walk(entries))
           N == Len(moves)
           D(n) == {m \in {moves[i] : i \in 1..n} : m.kind = "exists"}
<1>1. moves \in Seq(Move) /\ ExistsOf(moves) = Elements(walk(entries), "exists")
  BY WalkIs, AllMovesAre, ExistsMoves
<1>2. _classify(entries) = Made(moves)
  BY DEF _classify
<1> HIDE DEF moves
<1>3. N \in Nat /\ ToSet(moves) = {moves[i] : i \in 1..N} /\ \A i \in 1..N : moves[i] \in Move
  BY <1>1, InSeq
<1>4. PICK g : /\ g[0] = Unspecified /\ Made(moves) = g[N]
               /\ \A n \in 1..N : g[n] = Apply(g[n - 1], moves[n])
  BY <1>3, MadeLoop
<1> DEFINE Good(n) == StateOK(g[n]) /\ g[n].filters = FiltersFrom(D(n)) /\ g[n].sink = PathsFrom(D(n))
           T == {n \in Nat : n <= N => Good(n)}
<1>5. 0 \in T
  <2>1. D(0) = {}
    OBVIOUS
  <2> HIDE DEF D
  <2>2. FiltersFrom(D(0)) = {} /\ PathsFrom(D(0)) = {}
    BY <2>1 DEF FiltersFrom, PathsFrom
  <2>3. Unspecified.filters = {} /\ Unspecified.sink = {}
    BY DEF Unspecified
  <2> QED BY <1>4, <2>2, <2>3, UnspecifiedOK
<1>6. ASSUME NEW n \in Nat, n \in T PROVE n + 1 \in T
  <2> SUFFICES ASSUME n + 1 <= N PROVE Good(n + 1)
    OBVIOUS
  <2> DEFINE m == moves[n + 1]
  <2>1. n <= N /\ n + 1 \in 1..N /\ (n + 1) - 1 = n
    BY <1>3
  <2>2. g[n + 1] = Apply(g[n], m) /\ m \in Move
    BY <1>3, <1>4, <2>1
  <2>3. Good(n)
    BY <1>6, <2>1
  <2>4. D(n + 1) = IF m.kind = "exists" THEN D(n) \cup {m} ELSE D(n)
    <3>1. \A i : i \in 1..(n + 1) <=> i \in 1..n \/ i = n + 1
      OBVIOUS
    <3>2. {moves[i] : i \in 1..(n + 1)} = {moves[i] : i \in 1..n} \cup {m}
      BY <3>1
    <3> HIDE DEF m
    <3> QED BY <3>2
  <2>5. StateOK(g[n + 1])
    BY <2>2, <2>3, ApplyOK
  <2> HIDE DEF D, m
  <2>6. CASE m.kind = "exists"
    BY <2>2, <2>3, <2>6, ApplyScopes, <2>4, <2>5 DEF FiltersFrom, PathsFrom
  <2>7. CASE m.kind # "exists"
    BY <2>2, <2>3, <2>7, ApplyScopes, <2>4, <2>5
  <2> QED BY <2>6, <2>7
<1> HIDE DEF T
<1>7. Nat \subseteq T
  BY <1>5, <1>6, Induction
<1>8. N \in T /\ N <= N
  BY <1>3, <1>7
<1>9. Good(N)
  BY <1>8 DEF T
<1>10. D(N) = Elements(walk(entries), "exists")
  BY <1>1, <1>3 DEF ExistsOf
<1> HIDE DEF D
<1>11. Made(moves).filters = FiltersFrom(Elements(walk(entries), "exists"))
       /\ Made(moves).sink = PathsFrom(Elements(walk(entries), "exists"))
  BY <1>4, <1>9, <1>10
<1>12. ASSUME NEW M
       PROVE  /\ FiltersFrom(M) = UNION {FiltersOf(among) : among \in {e.among : e \in M}}
              /\ PathsFrom(M) = UNION {PathsOf(among) : among \in {e.among : e \in M}}
  <2> HIDE DEF FiltersOf, PathsOf
  <2> QED BY DEF FiltersFrom, PathsFrom
<1> QED BY <1>2, <1>11, <1>12 DEF ExistsIn

(* The members that Exists names are a selection like another.               *)
LEMMA ExistsScopes ==
  ASSUME NEW among \in Seq(Entry), \A e \in ToSet(among) : Names(e)
  PROVE  /\ SubselectTyped(among) /\ Elements(among, "tuple") = {} /\ Combinations(among) = {}
         /\ NamedLoose(among) = Below(among)
         /\ FiltersOf(among) = TakenFilters(NamedLoose(among)) /\ PathsOf(among) = TakenPaths(NamedLoose(among))
<1>1. Elements(among, "tuple") = {}
  BY DEF Elements, Names, IsRef
<1>2. Taken(among) = {}
  BY <1>1 DEF Taken
<1>3. SubselectTyped(among)
  BY <1>1 DEF SubselectTyped, InOrder
<1>4. Combinations(among) = {}
  BY <1>1 DEF Combinations
<1>5. Loose(among) = Members(among)
  BY <1>1 DEF Loose, Members, Names
<1>6. NamedLoose(among) = Below(among)
  BY <1>5 DEF NamedLoose, Below
<1>7. FiltersOf(among) = TakenFilters(Below(among)) /\ PathsOf(among) = TakenPaths(Below(among))
  BY DEF FiltersOf, TakenFilters, PathsOf, TakenPaths
<1> QED BY <1>1, <1>3, <1>4, <1>6, <1>7

(* The rows of an answer are the rows that are selected.                     *)

(* Each source of an answer's scope is fine, if nothing about the statement  *)
(* is known to be wrong.                                                     *)
LEMMA SourceFine ==
  ASSUME stm \in Statement, ~ Known, NEW t \in Sources
  PROVE  Fine(t)
<1>1. t \in Seq(Entry) /\ SubselectTyped(t)
  <2>1. CASE t \in stm.subselects
    BY <2>1, StatementIs
  <2>2. CASE t \notin stm.subselects
    <3>1. PICK i \in DOMAIN stm.axes : t \in ExistsIn(stm.axes[i])
      BY <2>2 DEF Sources
    <3>2. stm.axes[i] \in Seq(Entry) /\ \A e \in ToSet(t) : Names(e)
      BY <3>1, StatementIs DEF AxesTyped
    <3>3. PICK e \in Elements(walk(stm.axes[i]), "exists") : t = e.among
      BY <3>1 DEF ExistsIn
    <3>4. walk(stm.axes[i]) \in Seq(Entry)
      BY <3>2, WalkIs
    <3>5. e \in Entry /\ e.kind = "exists"
      BY <3>3, <3>4, InSeq DEF Elements
    <3>6. t \in Seq(Entry)
      BY <3>3, <3>5, EntryIs
    <3> QED BY <3>2, <3>6, ExistsScopes
  <2> QED BY <2>1, <2>2
<1>2. ~ Mixed(t) /\ \A m \in Flat(t) : m.kind = "member" => Blank \notin ToSet(m.rest)
  BY DEF Known
<1> QED BY <1>1, <1>2 DEF Fine

(* The members of a fine set are named outside its combinations, All, or of  *)
(* attributes.                                                               *)
LEMMA FlatIn ==
  ASSUME NEW t, Fine(t), NEW m \in Flat(t)
  PROVE  /\ m.kind = "member"
         /\ m \in NamedLoose(t) \/ IsAll(m) \/ ~ IsUser(m.hier)
<1>1. PICK e \in ToSet(t) : m \in IF e.kind = "tuple" THEN ToSet(e.args) ELSE {e}
  BY DEF Flat
<1>2. CASE e.kind # "tuple"
  BY <1>1, <1>2, FineEntry, LooseIs, PlainIs DEF NamedLoose
<1>3. CASE e.kind = "tuple"
  <2>1. m \in ToSet(e.args) /\ e.args \in Seq(Solid) /\ (IsCombination(e) => e.args \in Seq(Attr))
    BY <1>1, <1>3, FineEntry
  <2>2. m \in Solid /\ (IsCombination(e) => m \in Attr)
    BY <2>1, InSeq
  <2>3. ~ IsCombination(e) => m \in Loose(t)
    BY <1>3, <2>1, LooseIs
  <2> QED BY <2>2, <2>3, SolidIs DEF NamedLoose, Attr
<1> QED BY <1>2, <1>3

(* The members outside combinations are among its members.                   *)
LEMMA LooseFlat ==
  ASSUME NEW t, Fine(t)
  PROVE  Loose(t) \subseteq Flat(t)
<1> SUFFICES ASSUME NEW m \in Loose(t) PROVE m \in Flat(t)
  OBVIOUS
<1>1. CASE m \in ToSet(t) /\ m.kind # "tuple"
  BY <1>1, FlatHas
<1>2. ASSUME NEW e \in ToSet(t), e.kind = "tuple", m \in ToSet(e.args) PROVE m \in Flat(t)
  BY <1>2, FlatHas
<1> QED BY <1>1, <1>2, LooseIs

(* The members of a user hierarchy are outside combinations.                 *)
LEMMA NamedInIs ==
  ASSUME NEW t, Fine(t), NEW h, IsUser(h)
  PROVE  NamedIn(t, h) = {m \in NamedLoose(t) : m.hier = h}
<1>1. ASSUME NEW m \in NamedIn(t, h) PROVE m \in NamedLoose(t) /\ m.hier = h
  BY FlatIn DEF NamedIn
<1>2. ASSUME NEW m \in NamedLoose(t), m.hier = h PROVE m \in NamedIn(t, h)
  BY LooseFlat, FlatIn, <1>2 DEF NamedLoose, NamedIn
<1> QED BY <1>1, <1>2

(* What a selection promises, without its All members.                       *)
LEMMA ChosenIs ==
  ASSUME NEW t, Fine(t), NEW row
  PROVE  Chosen(row, t) <=>
           /\ \A h \in {m.hier : m \in NamedLoose(t)} : InHier(row, NamedLoose(t), h)
           /\ Fits(row, Combinations(t))
<1> DEFINE One == \A h \in {m.hier : m \in Loose(t)} : \E m \in Loose(t) : m.hier = h /\ InMember(row, m)
           Two == \A e \in Taken(t) : \E x \in Taken(t) :
                    {m.hier : m \in ToSet(x.args)} = {m.hier : m \in ToSet(e.args)} /\ Stands(row, x)
<1>1. Chosen(row, t) <=> One /\ Two
  BY DEF Chosen, Taken, Loose, Stands
<1>2. Two <=> Fits(row, Combinations(t))
  <2>1. \A e \in Taken(t) : e.args \in Seq(Attr)
    <3> SUFFICES ASSUME NEW e \in Taken(t) PROVE e.args \in Seq(Attr)
      OBVIOUS
    <3>1. e \in ToSet(t) /\ e.kind = "tuple" /\ IsCombination(e)
      BY DEF Taken, Elements
    <3> QED BY <3>1, FineEntry
  <2>2. InOrder(t)
    BY DEF Fine, SubselectTyped
  <2> HIDE DEF Two
  <2> QED BY <2>1, <2>2, CombosFit DEF Two
<1>3. \A l, m \in Loose(t) : l.hier = m.hier /\ IsAll(l) => IsAll(m)
  <2> SUFFICES ASSUME NEW l \in Loose(t), NEW m \in Loose(t), l.hier = m.hier, IsAll(l), ~ IsAll(m) PROVE FALSE
    OBVIOUS
  <2>1. l \in Flat(t) /\ m \in Flat(t)
    BY LooseFlat
  <2>2. l.kind = "member" /\ m.kind = "member"
    BY <2>1, FlatIn
  <2>3. Mixed(t)
    BY <2>1, <2>2 DEF Mixed
  <2> QED BY <2>3 DEF Fine
<1>4. ASSUME One, NEW n \in NamedLoose(t) PROVE InHier(row, NamedLoose(t), n.hier)
  <2>1. n \in Loose(t) /\ ~ IsAll(n)
    BY DEF NamedLoose
  <2>2. PICK m \in Loose(t) : m.hier = n.hier /\ InMember(row, m)
    BY <1>4, <2>1
  <2>3. m \in NamedLoose(t)
    BY <1>3, <2>1, <2>2 DEF NamedLoose
  <2> QED BY <2>2, <2>3 DEF InHier
<1>5. ASSUME \A h \in {m.hier : m \in NamedLoose(t)} : InHier(row, NamedLoose(t), h), NEW n \in Loose(t)
      PROVE  \E m \in Loose(t) : m.hier = n.hier /\ InMember(row, m)
  <2>1. CASE IsAll(n)
    BY <2>1 DEF InMember
  <2>2. CASE ~ IsAll(n)
    BY <1>5, <2>2 DEF NamedLoose, InHier
  <2> QED BY <2>1, <2>2
<1> QED BY <1>1, <1>2, <1>4, <1>5

-----------------------------------------------------------------------------

(* The scope of the axes and the subselects, source by source.               *)
LEMMA PartsAre ==
  ASSUME stm \in Statement, ~ Known
  PROVE  /\ AllPaths = UNION {TakenPaths(NamedLoose(t)) : t \in Sources}
         /\ \A row : (\A p \in Parts0 : Meets(row, p)) <=> \A t \in Sources : Meets(row, Part(t))
<1> DEFINE Axis(i) == [filters |-> _classify(stm.axes[i]).filters, combos |-> {}, paths |-> _classify(stm.axes[i]).sink]
           n == Len(stm.axes)
<1>1. Parts0 = {Subselected(s) : s \in stm.subselects} \cup {Axis(i) : i \in 1..n}
  <2> DEFINE f(st) == [filters |-> st.filters, combos |-> {}, paths |-> st.sink]
  <2>1. ToSet(Classified(stm)) = {_classify(stm.axes[i]) : i \in 1..n}
    BY ClassifiedAre DEF ToSet
  <2>2. \A i : Axis(i) = f(_classify(stm.axes[i]))
    OBVIOUS
  <2>3. Parts0 = {Subselected(s) : s \in stm.subselects} \cup {f(st) : st \in ToSet(Classified(stm))}
    BY DEF Parts0
  <2> HIDE DEF f, Axis, n
  <2> QED BY <2>1, <2>2, <2>3
<1>2. Sources = stm.subselects \cup UNION {ExistsIn(stm.axes[i]) : i \in 1..n}
  BY StatementIs DEF Sources
<1>3. \A t \in stm.subselects : Subselected(t) = Part(t)
  BY <1>2, SourceFine, SubselectedIs DEF Part, Known
<1>4. ASSUME NEW i \in 1..n, NEW t \in ExistsIn(stm.axes[i])
      PROVE  /\ FiltersOf(t) = TakenFilters(NamedLoose(t)) /\ PathsOf(t) = TakenPaths(NamedLoose(t))
             /\ Combinations(t) = {}
  BY <1>2, StatementIs, SourceFine, ExistsScopes DEF Fine, AxesTyped
<1>5. ASSUME NEW i \in 1..n
      PROVE  /\ Axis(i).paths = UNION {TakenPaths(NamedLoose(t)) : t \in ExistsIn(stm.axes[i])}
             /\ \A row : Meets(row, Axis(i)) <=> \A t \in ExistsIn(stm.axes[i]) : Meets(row, Part(t))
  <2> DEFINE A == ExistsIn(stm.axes[i])
             c == _classify(stm.axes[i])
  <2>1. stm.axes[i] \in Seq(Entry)
    BY ClassifiedAre
  <2>2. c.filters = UNION {FiltersOf(t) : t \in A} /\ c.sink = UNION {PathsOf(t) : t \in A}
    BY <2>1, ClassifiedScopes
  <2>3. \A t \in A : FiltersOf(t) = TakenFilters(NamedLoose(t)) /\ PathsOf(t) = TakenPaths(NamedLoose(t))
                       /\ Combinations(t) = {}
    BY <1>4
  <2>4. Axis(i).filters = c.filters /\ Axis(i).combos = {} /\ Axis(i).paths = c.sink
    OBVIOUS
  <2>5. \A t : Part(t).filters = TakenFilters(NamedLoose(t)) /\ Part(t).combos = Combinations(t)
    BY DEF Part
  <2> HIDE DEF A, c, Axis
  <2>6. c.filters = UNION {TakenFilters(NamedLoose(t)) : t \in A}
    BY <2>2, <2>3
  <2>7. c.sink = UNION {TakenPaths(NamedLoose(t)) : t \in A}
    BY <2>2, <2>3
  <2>8. \A row : Passes(row, c.filters) <=> \A t \in A : Passes(row, TakenFilters(NamedLoose(t)))
    BY <2>6 DEF Passes
  <2>9. \A row : Fits(row, {})
    BY DEF Fits
  <2>10. \A row : Meets(row, Axis(i)) <=> \A t \in A : Meets(row, Part(t))
    BY <2>3, <2>4, <2>5, <2>8, <2>9 DEF Meets
  <2> QED BY <2>4, <2>7, <2>10 DEF A
<1>6. \A t : Part(t).paths = TakenPaths(NamedLoose(t))
  BY DEF Part
<1> HIDE DEF Axis, n
<1>7. \A row : (\A p \in Parts0 : Meets(row, p)) <=> \A t \in Sources : Meets(row, Part(t))
  BY <1>1, <1>2, <1>3, <1>5
<1>8. AllPaths = UNION {TakenPaths(NamedLoose(t)) : t \in Sources}
  BY <1>1, <1>2, <1>5, <1>3, <1>6 DEF AllPaths
<1> QED BY <1>7, <1>8

(* The paths select what every source asks of its user hierarchies.          *)
LEMMA PathsAre ==
  ASSUME data \in Data, stm \in Statement, ~ Known, NEW row \in data
  PROVE  (\A p \in _apply_path_selections(data, AllPaths) : Meets(row, p)) <=>
           \A t \in Sources : \A h \in {m.hier : m \in NamedLoose(t)} :
             IsUser(h) => InHier(row, NamedLoose(t), h)
<1> DEFINE Ps(h) == {s.path : s \in {x \in AllPaths : x.hier = h}}
           H == {s.hier : s \in AllPaths}
           w(m) == [hier |-> m.hier, path |-> m.rest]
<1>1. _apply_path_selections(data, AllPaths) = {PathPredicate(data, h, Ps(h)) : h \in H}
  BY DEF _apply_path_selections
<1>2. \A x : x \in AllPaths <=> \E t \in Sources : \E m \in NamedLoose(t) : IsUser(m.hier) /\ x = w(m)
  <2>1. \A x : x \in AllPaths <=> \E t \in Sources : x \in TakenPaths(NamedLoose(t))
    BY PartsAre
  <2>2. \A t : \A x : x \in TakenPaths(NamedLoose(t)) <=>
          \E m \in NamedLoose(t) : IsUser(m.hier) /\ x = w(m)
    BY DEF TakenPaths
  <2> HIDE DEF w
  <2> QED BY <2>1, <2>2
<1>3. \A t \in Sources : Fine(t) /\ NamedLoose(t) \subseteq Solid
  BY SourceFine, LooseIs
<1>w. \A m : w(m).hier = m.hier /\ w(m).path = m.rest
  OBVIOUS
<1> HIDE DEF w
<1>4. \A h : h \in H <=> IsUser(h) /\ \E t \in Sources : \E m \in NamedLoose(t) : m.hier = h
  <2>1. ASSUME NEW h \in H PROVE IsUser(h) /\ \E t \in Sources : \E m \in NamedLoose(t) : m.hier = h
    <3>1. PICK x \in AllPaths : h = x.hier
      OBVIOUS
    <3>2. PICK t \in Sources : \E m \in NamedLoose(t) : IsUser(m.hier) /\ x = w(m)
      BY <1>2, <3>1
    <3> QED BY <1>w, <3>1, <3>2
  <2>2. ASSUME NEW t \in Sources, NEW m \in NamedLoose(t), IsUser(m.hier) PROVE m.hier \in H
    BY <1>2, <2>2, <1>w
  <2> QED BY <2>1, <2>2
<1>5. ASSUME NEW h \in H PROVE Ps(h) = SelectedPaths(h)
  <2>1. IsUser(h)
    BY <1>4
  <2>2. \A t \in Sources : NamedIn(t, h) = {m \in NamedLoose(t) : m.hier = h}
    BY <1>3, <2>1, NamedInIs
  <2>3. \A p : p \in SelectedPaths(h) <=> \E t \in Sources : \E m \in NamedLoose(t) : m.hier = h /\ p = m.rest
    BY <2>2 DEF SelectedPaths
  <2>4. \A p : p \in Ps(h) <=> \E x \in AllPaths : x.hier = h /\ p = x.path
    OBVIOUS
  <2> HIDE DEF Ps
  <2>5. \A p : p \in Ps(h) <=> \E t \in Sources : \E m \in NamedLoose(t) : m.hier = h /\ p = m.rest
    <3> SUFFICES ASSUME NEW p PROVE p \in Ps(h) <=> \E t \in Sources : \E m \in NamedLoose(t) : m.hier = h /\ p = m.rest
      OBVIOUS
    <3>1. ASSUME p \in Ps(h) PROVE \E t \in Sources : \E m \in NamedLoose(t) : m.hier = h /\ p = m.rest
      <4>1. PICK x \in AllPaths : x.hier = h /\ p = x.path
        BY <2>4, <3>1
      <4>2. PICK t \in Sources : \E m \in NamedLoose(t) : IsUser(m.hier) /\ x = w(m)
        BY <1>2, <4>1
      <4> QED BY <1>w, <4>1, <4>2
    <3>2. ASSUME NEW t \in Sources, NEW m \in NamedLoose(t), m.hier = h, p = m.rest PROVE p \in Ps(h)
      BY <1>2, <2>1, <3>2, <1>w, <2>4
    <3> QED BY <3>1, <3>2
  <2> QED BY <2>3, <2>5
<1> HIDE DEF Ps, H
<1>6. ASSUME NEW h \in H PROVE Meets(row, PathPredicate(data, h, Ps(h))) <=> \E p \in SelectedPaths(h) : Under(row, h, p)
  <2> DEFINE P == SelectedPaths(h)
  <2>1. IsUser(h)
    BY <1>4
  <2>2. PICK t0 \in Sources, m0 \in UNION {NamedLoose(t) : t \in Sources} : m0 \in NamedLoose(t0) /\ m0.hier = h
    BY <1>4
  <2>3. \A p \in P : \E t \in Sources : \E m \in NamedLoose(t) : m.hier = h /\ p = m.rest
    BY <1>3, <2>1, NamedInIs DEF SelectedPaths
  <2>4. m0 \in Solid /\ h \in Hierarchy
    BY <1>3, <2>2, SolidIs
  <2>5. \A p \in P : p \in PathsIn(h) /\ Blank \notin ToSet(p)
    <3> HIDE DEF P
    <3> SUFFICES ASSUME NEW p \in P PROVE p \in PathsIn(h) /\ Blank \notin ToSet(p)
      OBVIOUS
    <3>1. PICK t \in Sources : \E m \in NamedLoose(t) : m.hier = h /\ p = m.rest
      BY <2>3
    <3>2. PICK m \in NamedLoose(t) : m.hier = h /\ p = m.rest
      BY <3>1
    <3>3. m \in Solid
      BY <1>3, <3>1, <3>2
    <3> QED BY <3>2, <3>3, SolidIs
  <2>6. P # {}
    BY <1>3, <2>1, <2>2, NamedInIs DEF SelectedPaths
  <2>7. ~ TwoSources(h) /\ ~ PathsGone(h) /\ ~ NullBelow(h)
    BY <1>3, <2>2, LooseFlat, FlatIn, <2>1 DEF NamedLoose, Known
  <2>8. (\E p \in P : Len(p) > 1) => \E r \in data : \E p \in P : Under(r, h, p)
    BY <2>7 DEF PathsGone
  <2>9. \A r \in data : \A p, q \in P : Under(r, h, p) => Null \notin {r[h[i]] : i \in DOMAIN q}
    BY <2>7 DEF NullBelow
  <2>10. data \in Table
    BY DataIs
  <2> HIDE DEF P
  <2>11. Meets(row, PathPredicate(data, h, P)) <=> \E p \in P : Under(row, h, p)
    BY <2>4, <2>5, <2>6, <2>8, <2>9, <2>10, PathsSelect
  <2> QED BY <1>5, <2>11 DEF P
<1>7. (\A p \in _apply_path_selections(data, AllPaths) : Meets(row, p)) <=>
        \A h \in H : \E p \in SelectedPaths(h) : Under(row, h, p)
  BY <1>1, <1>6
<1>8. ASSUME NEW t \in Sources, NEW m0 \in NamedLoose(t), IsUser(m0.hier), NEW p \in SelectedPaths(m0.hier)
      PROVE  \E m \in NamedLoose(t) : m.hier = m0.hier /\ p = m.rest
  <2> DEFINE h == m0.hier
  <2>1. h \in H
    BY <1>4, <1>8
  <2>2. \A s \in Sources : NamedIn(s, h) = {m \in NamedLoose(s) : m.hier = h}
    BY <1>3, <1>8, NamedInIs
  <2>3. PICK s \in Sources : \E m \in NamedIn(s, h) : p = m.rest
    BY <1>8 DEF SelectedPaths
  <2>4. PICK m \in NamedIn(s, h) : p = m.rest
    BY <2>3
  <2>5. NamedIn(s, h) # {} /\ NamedIn(t, h) # {}
    BY <2>2, <2>4
  <2>6. ~ TwoSources(h)
    BY <1>3, LooseFlat, FlatIn, <1>8 DEF NamedLoose, Known
  <2>7. s = t
    BY <2>5, <2>6 DEF TwoSources
  <2> QED BY <2>2, <2>4, <2>7
<1>9. ASSUME \A h \in H : \E p \in SelectedPaths(h) : Under(row, h, p),
             NEW t \in Sources, NEW m0 \in NamedLoose(t), IsUser(m0.hier)
      PROVE  InHier(row, NamedLoose(t), m0.hier)
  <2>1. m0.hier \in H
    BY <1>4, <1>9
  <2>2. PICK p \in SelectedPaths(m0.hier) : Under(row, m0.hier, p)
    BY <1>9, <2>1
  <2>3. PICK m \in NamedLoose(t) : m.hier = m0.hier /\ p = m.rest
    BY <1>8, <1>9
  <2> QED BY <2>2, <2>3 DEF InHier, InMember
<1>10. ASSUME \A t \in Sources : \A h \in {m.hier : m \in NamedLoose(t)} : IsUser(h) => InHier(row, NamedLoose(t), h),
              NEW h \in H
       PROVE  \E p \in SelectedPaths(h) : Under(row, h, p)
  <2>1. IsUser(h)
    BY <1>4
  <2>2. PICK t \in Sources : \E m \in NamedLoose(t) : m.hier = h
    BY <1>4
  <2>3. InHier(row, NamedLoose(t), h)
    BY <1>10, <2>1, <2>2
  <2>4. PICK m \in NamedLoose(t) : m.hier = h /\ InMember(row, m)
    BY <2>3 DEF InHier
  <2>5. Under(row, h, m.rest)
    BY <2>4 DEF InMember, NamedLoose
  <2>6. m \in NamedIn(t, h)
    BY <1>3, <2>1, <2>4, NamedInIs
  <2>7. m.rest \in SelectedPaths(h)
    BY <2>6 DEF SelectedPaths
  <2> QED BY <2>5, <2>7
<1> QED BY <1>7, <1>9, <1>10

(* What the slicer asks is that its members stand for the row.               *)
LEMMA SlicerIs ==
  ASSUME stm \in Statement, ~ Known, NEW row
  PROVE  Sliced(row, stm.slicer) <=> \A m \in Members(stm.slicer) : InMember(row, m)
<1>1. ASSUME NEW m \in Members(stm.slicer) PROVE Passes(row, _member_filter(m)) <=> InMember(row, m)
  BY StatementIs, InSeq, FlatHas, EntryIs, MemberFilters DEF Members, IsRef, Known
<1> QED BY <1>1 DEF Sliced

(* The rows an answer is about are those that every source selects.          *)
LEMMA ScopedIsSelected ==
  ASSUME data \in Data, stm \in Statement, ~ Known
  PROVE  Scoped(data, stm) = Selected
<1> DEFINE Q == _apply_path_selections(data, AllPaths)
<1>1. Scope(data, stm, Classified(stm)) = Merged(stm.slicer, Parts0 \cup Q)
  BY DEF Scope, WithPaths, Parts0, AllPaths
<1>2. Scoped(data, stm) = {row \in data : (\A p \in Parts0 \cup Q : Meets(row, p)) /\ Sliced(row, stm.slicer)}
  BY <1>1, MergedIs DEF Scoped
<1> HIDE DEF Q
<1>3. ASSUME NEW row \in data
      PROVE  (\A p \in Parts0 \cup Q : Meets(row, p)) <=> \A s \in Sources : Chosen(row, s)
  <2>1. (\A p \in Parts0 \cup Q : Meets(row, p)) <=> (\A p \in Parts0 : Meets(row, p)) /\ \A p \in Q : Meets(row, p)
    OBVIOUS
  <2>2. (\A p \in Parts0 : Meets(row, p)) <=> \A t \in Sources : Meets(row, Part(t))
    BY PartsAre
  <2>3. (\A p \in Q : Meets(row, p)) <=>
           \A t \in Sources : \A h \in {m.hier : m \in NamedLoose(t)} :
             IsUser(h) => InHier(row, NamedLoose(t), h)
    BY PathsAre DEF Q
  <2>4. ASSUME NEW t \in Sources
        PROVE  Meets(row, Part(t)) <=>
                 /\ \A h \in {m.hier : m \in NamedLoose(t)} : ~ IsUser(h) => InHier(row, NamedLoose(t), h)
                 /\ Fits(row, Combinations(t))
    BY SourceFine, LooseIs, TakenPass DEF Part, Meets
  <2>5. \A t \in Sources : Chosen(row, t) <=>
           /\ \A h \in {m.hier : m \in NamedLoose(t)} : InHier(row, NamedLoose(t), h)
           /\ Fits(row, Combinations(t))
    BY SourceFine, ChosenIs
  <2> QED BY <2>1, <2>2, <2>3, <2>4, <2>5
<1>4. \A row : Sliced(row, stm.slicer) <=> \A m \in Members(stm.slicer) : InMember(row, m)
  BY SlicerIs
<1> QED BY <1>2, <1>3, <1>4 DEF Selected

(* The cells of a pivot are at the ordinals of their places, and each is of  *)
(* the rows that are selected and that all its members stand for: for any    *)
(* table and any statement that is not Known to be answered otherwise.       *)
THEOREM CellsAreRightCorrect == PivotSpec => []CellsAreRight
<1>1. ASSUME Replied, Answered, ~ Known
      PROVE  answer.cells = RightCells(Selected, answer.axes, MeasuresOf(Classified(stm), stm.slicer))
  BY <1>1, ExecutedIs, ScopedIsSelected, CellsAre DEF Replied, Answered, Wanted, FieldsApart, Hiers2, Known, OnAxes
<1>2. Replied => CellsAreRight
  BY <1>1 DEF CellsAreRight
<1> QED BY <1>2, RepliedAlways, PTL
-----------------------------------------------------------------------------

(* Exists asks of one member what it says.                                   *)
LEMMA ExistsAlone ==
  ASSUME NEW b \in Plain, ~ IsAll(b)
  PROVE  [filters |-> FiltersOf(<<b>>), combos |-> {}, paths |-> PathsOf(<<b>>)] = OnlyOf(b)
<1>1. Below(<<b>>) = {b}
  BY OneSet, PlainIs DEF Below, Members, IsRef
<1>2. FiltersOf(<<b>>) = IF IsUser(b.hier) THEN {} ELSE {[field |-> b.hier[1], values |-> {b.rest[1]}]}
  BY <1>1 DEF FiltersOf
<1>3. PathsOf(<<b>>) = IF IsUser(b.hier) THEN {[hier |-> b.hier, path |-> b.rest]} ELSE {}
  BY <1>1 DEF PathsOf
<1> QED BY <1>2, <1>3 DEF OnlyOf

(* So does a ticked box, unless the member is taken for All.                 *)
LEMMA TickedAlone ==
  ASSUME NEW b \in Plain, ~ TakenForAll(b)
  PROVE  Subselected(<<b>>) = OnlyOf(b)
<1> DEFINE st == _classify(PlainEntries(<<b>>))
           h == b.hier
           F == {[field |-> s.hier[1], values |-> ToSet(s.members)] :
                   s \in {x \in ToSet(Specs(st)) : ~ IsUser(x.hier) /\ x.members # <<>>}}
           P == TuplePaths(<<b>>) \cup st.sink
                  \cup UNION {{[hier |-> s.hier, path |-> p] : p \in ToSet(s.paths)} : s \in ToSet(Specs(st))}
<1>1. Subselected(<<b>>) = [filters |-> F, combos |-> Combinations(<<b>>), paths |-> P]
  BY DEF Subselected, PickedBy, Picked
<1>2. b.kind = "member" /\ h \in Hierarchy /\ ~ IsAll(b)
  BY PlainIs, RefIs DEF TakenForAll
<1>3. PlainEntries(<<b>>) = <<b>>
  <2> DEFINE s == <<b>>
             rows == [i \in DOMAIN s |->
                CASE s[i].kind = "tuple" /\ IsCombination(s[i]) -> <<>>
                  [] s[i].kind = "tuple" /\ ~ IsCombination(s[i]) -> OfAttribute(s[i].args)
                  [] OTHER -> <<s[i]>>]
  <2>1. PlainEntries(s) = FlattenSeq(rows)
    BY DEF PlainEntries
  <2>2. rows = [i \in DOMAIN s |-> <<s[i]>>]
    BY <1>2
  <2>3. s \in Seq({b})
    OBVIOUS
  <2> HIDE DEF rows, s
  <2> QED BY <2>1, <2>2, <2>3, FlatSame DEF s
<1>4. Holding(st, {b})
  BY <1>3, PlainClassified, OneSet
<1>5. Elements(<<b>>, "tuple") = {}
  BY <1>2, OneSet DEF Elements
<1>6. Combinations(<<b>>) = {} /\ TuplePaths(<<b>>) = {}
  BY <1>5 DEF Combinations, TuplePaths
<1> HIDE DEF st
<1> DEFINE v == st.spec[h]
<1>7. ToSet(Specs(st)) = {v} /\ v.hier = h /\ v.members \in Seq(Value) /\ st.sink = {}
  <2>1. StateOK(st) /\ st.sink = {} /\ ToSet(st.order) = {h}
    BY <1>4 DEF Holding
  <2>2. v \in SpecIn(h)
    BY <1>2, <2>1 DEF StateOK
  <2>3. ToSet(Specs(st)) = {v}
    BY <2>1, SpecsAre
  <2> QED BY <1>2, <2>1, <2>2, <2>3, SpecIs
<1>8. ToSet(v.members) = (IF IsUser(h) THEN {} ELSE {b.rest[1]}) /\ ToSet(v.paths) = IF IsUser(h) THEN {b.rest} ELSE {}
  <2>1. ToSet(v.members) = LeafsOf({b}, h) /\ ToSet(v.paths) = StemsOf({b}, h)
    BY <1>2, <1>4 DEF Holding
  <2>2. StemsOf({b}, h) = IF IsUser(h) THEN {b.rest} ELSE {}
    BY <1>2 DEF StemsOf
  <2>3. LeafsOf({b}, h) = IF IsUser(h) THEN {} ELSE {b.rest[1]}
    BY DEF LeafsOf
  <2> QED BY <2>1, <2>2, <2>3
<1> HIDE DEF v, h
<1>9. F = OnlyOf(b).filters
  <2>1. CASE IsUser(h)
    BY <1>7, <2>1 DEF OnlyOf, h
  <2>2. CASE ~ IsUser(h)
    <3>1. v.members # <<>>
      BY <1>8, <2>2, OneSet
    <3>2. {x \in ToSet(Specs(st)) : ~ IsUser(x.hier) /\ x.members # <<>>} = {v}
      BY <1>7, <2>2, <3>1
    <3>3. F = {[field |-> v.hier[1], values |-> ToSet(v.members)]}
      BY <3>2
    <3> QED BY <1>7, <1>8, <2>2, <3>3 DEF OnlyOf, h
  <2> QED BY <2>1, <2>2
<1>10. P = OnlyOf(b).paths
  BY <1>6, <1>7, <1>8 DEF OnlyOf, h
<1> QED BY <1>1, <1>6, <1>9, <1>10 DEF OnlyOf

(* A slicer of one member keeps the rows its path stands for.                *)
LEMMA SlicedAlone ==
  ASSUME NEW d, NEW b \in Plain, ~ TakenForAll(b), b.rest \in Seq(Value)
  PROVE  KeptRows(d, WithPaths(d, <<b>>, {})) = BelowPath(d, b.hier, b.rest)
<1> DEFINE F == FiltersAlong(b.hier, b.rest)
<1>1. Members(<<b>>) = {b}
  BY OneSet, PlainIs DEF Members, IsRef
<1>2. _member_filter(b) = F
  BY DEF _member_filter, FiltersAlong
<1>3. _apply_path_selections(d, UNION {p.paths : p \in {}}) = {}
  BY DEF _apply_path_selections
<1> HIDE DEF F
<1>4. WithPaths(d, <<b>>, {}) = [filters |-> F, combos |-> {}]
  BY <1>1, <1>2, <1>3 DEF WithPaths, Merged
<1> QED BY <1>4, SlicedItself DEF F

(* Exists and a ticked box.                                                  *)
LEMMA AloneKeeps ==
  ASSUME NEW d \in Table, NEW b \in Plain, b.hier \in Hierarchy, b.rest \in Seq(Value), Len(b.rest) \in 1..Len(b.hier),
         NEW row \in d, \A i \in 1..Len(b.rest) : row[b.hier[i]] = b.rest[i]
  PROVE  KeptRows(d, WithPaths(d, <<>>, {OnlyOf(b)})) = BelowPath(d, b.hier, b.rest)
<1> DEFINE h == b.hier
           p == b.rest
           a == OnlyOf(b)
           Q == _apply_path_selections(d, a.paths)
<1>1. Members(<<>>) = {}
  BY OneSet DEF Members
<1>2. WithPaths(d, <<>>, {a}) = [filters |-> UNION {x.filters : x \in {a} \cup Q}, combos |-> UNION {x.combos : x \in {a} \cup Q}]
  <2>1. UNION {x.paths : x \in {a}} = a.paths
    OBVIOUS
  <2> HIDE DEF a
  <2>2. WithPaths(d, <<>>, {a}) = Merged(<<>>, {a} \cup Q)
    BY <2>1 DEF WithPaths
  <2> HIDE DEF Q
  <2>3. UNION {_member_filter(m) : m \in Members(<<>>)} = {}
    BY <1>1
  <2> QED BY <2>2, <2>3 DEF Merged
<1>3. CASE ~ IsUser(h)
  <2> DEFINE f == [field |-> h[1], values |-> {p[1]}]
  <2>1. a.filters = {f} /\ a.combos = {} /\ a.paths = {}
    BY <1>3 DEF OnlyOf
  <2>2. Q = {}
    BY <2>1 DEF _apply_path_selections
  <2> HIDE DEF a, Q
  <2>3. WithPaths(d, <<>>, {a}) = [filters |-> {f}, combos |-> {}]
    BY ZenonT(60), <1>2, <2>1, <2>2
  <2>4. DOMAIN p = {1}
    BY <1>3, HierIs DEF IsUser
  <2>5. FiltersAlong(h, p) = {f}
    BY <2>4 DEF FiltersAlong
  <2>6. KeptRows(d, [filters |-> FiltersAlong(h, p), combos |-> {}]) = BelowPath(d, h, p)
    BY SlicedItself
  <2> HIDE DEF f
  <2> QED BY <2>3, <2>5, <2>6 DEF a
<1>4. CASE IsUser(h)
  <2> DEFINE x == PathPredicate(d, h, {p})
             w == [hier |-> h, path |-> p]
  <2>1. a.filters = {} /\ a.combos = {} /\ a.paths = {w}
    BY <1>4 DEF OnlyOf
  <2>2. Q = {x}
    <3>1. {s.hier : s \in {w}} = {h} /\ {s.path : s \in {y \in {w} : y.hier = h}} = {p}
      OBVIOUS
    <3> HIDE DEF w, a, h, p
    <3> DEFINE G(g) == PathPredicate(d, g, {s.path : s \in {y \in {w} : y.hier = g}})
    <3>2. Q = {G(g) : g \in {s.hier : s \in {w}}}
      BY <2>1 DEF _apply_path_selections
    <3>3. G(h) = x
      BY <3>1
    <3> HIDE DEF G, Q, x
    <3>4. Q = {G(h)}
      BY <3>1, <3>2
    <3> QED BY <3>3, <3>4
  <2> HIDE DEF a, Q, w, x
  <2>3. WithPaths(d, <<>>, {a}) = [filters |-> x.filters, combos |-> x.combos]
    <3>1. UNION {y.filters : y \in {a} \cup {x}} = x.filters
      BY <2>1
    <3>2. UNION {y.combos : y \in {a} \cup {x}} = x.combos
      BY <2>1
    <3> QED BY <1>2, <2>2, <3>1, <3>2
  <2>4. KeptRows(d, [filters |-> x.filters, combos |-> x.combos]) = KeptRows(d, x)
    BY DEF KeptRows
  <2>5. KeptRows(d, x) = BelowPath(d, h, p)
    BY TickedItself DEF x
  <2> QED BY <2>3, <2>4, <2>5 DEF a
<1> QED BY <1>3, <1>4

(* What Excel sends back for a member that it was shown selects exactly the  *)
(* rows it stands for: in the slicer, as a ticked box and with Exists.  But  *)
(* for Exists, a value that is spelled "All" is excepted; and a path through *)
(* NULL everywhere.                                                          *)
THEOREM MemberSelectsItselfCorrect == PivotSpec => []MemberSelectsItself
<1>1. Replied => MemberSelectsItself
  <2> SUFFICES ASSUME Replied, Answered, NEW axis \in ToSet(answer.axes), NEW t \in ToSet(axis),
                      NEW m \in ToSet(t.members), m.path # <<>>, Null \notin ToSet(m.path),
                      {r \in data : Holds(r, m)} # {}
               PROVE  \A back \in {Back(m)}, rows \in {{r \in data : Holds(r, m)}} :
                      /\ KeptRows(data, WithPaths(data, <<>>,
                           {[filters |-> FiltersOf(<<back>>), combos |-> {}, paths |-> PathsOf(<<back>>)]})) = rows
                      /\ ~ TakenForAll(back) => KeptRows(data, WithPaths(data, <<back>>, {})) = rows
                      /\ ~ TakenForAll(back) => KeptRows(data, WithPaths(data, <<>>, {Subselected(<<back>>)})) = rows
    BY DEF MemberSelectsItself
  <2>1. data \in Data /\ stm \in Statement /\ answer = execute(data, stm) /\ ~ answer.error
    BY DEF Replied, Answered
  <2>2. answer.axes = Shown(data, stm)
    BY <2>1, ExecutedIs
  <2>3. PICK i \in 1..Len(stm.axes) : axis = AllTuples(data, stm)[i] /\ axis \in Seq(AxisTup(Classified(stm)[i]))
    <3>1. PICK k : Places(Len(stm.axes), AllTuples(data, stm), Shown(data, stm), k)
      BY <2>1, ShownIs
    <3>2. PICK j \in DOMAIN Shown(data, stm) : axis = Shown(data, stm)[j]
      BY <2>2 DEF ToSet
    <3>3. axis = AllTuples(data, stm)[k[j]] /\ k[j] \in 1..Len(stm.axes)
      BY <3>1, <3>2 DEF Places
    <3> QED BY <2>1, <3>3, ShownIs
  <2>4. t.members \in TupSet(Classified(stm)[i])
    <3>1. t \in AxisTup(Classified(stm)[i])
      BY <2>3, InSeq
    <3> QED BY <3>1 DEF AxisTup
  <2>5. m \in AnyMem
    BY <2>4 DEF TupSet, ToSet
  <2>6. PICK row \in data : Holds(row, m)
    OBVIOUS
  <2>7. data \in Table
    BY <2>1, DataIs
  <2> DEFINE p == m.path
             h == m.hier
  <2>8. /\ Len(p) \in 1..Len(h) /\ \A j \in 1..Len(p) : p[j] \in Value
        /\ canon_path(p) = p
    BY <2>5, <2>6, <2>7, TruePath
  <2>9. h \in Hierarchy /\ p \in Seq(Int) /\ DOMAIN p = 1..Len(p)
    BY <2>5, AnyMemIs, MemIs, KeyIs
  <2>10. \A r : Holds(r, m) <=> \A j \in 1..Len(p) : r[h[j]] = p[j]
    BY <2>9 DEF Holds
  <2> HIDE DEF p, h
  <2>11. p \in Seq(Value)
    BY <2>8, <2>9, ListIs DEF Lists
  <2>12. {r \in data : Holds(r, m)} = BelowPath(data, h, p)
    BY <2>10, Zenon DEF BelowPath
  <2> DEFINE b == Back(m)
  <2>13. b = [kind |-> "member", hier |-> h, rest |-> p, suffix |-> "", drilled |-> FALSE]
    BY <2>8 DEF Back, Ref, h, p
  <2> HIDE DEF b
  <2>14. b.hier = h /\ b.rest = p /\ b \in Plain /\ ~ IsAll(b)
    <3>1. b.hier = h /\ b.rest = p /\ b.kind = "member" /\ b.suffix = "" /\ ~ b.drilled
      BY <2>13
    <3>2. p \in PathsIn(h)
      BY <2>8, <2>11 DEF PathsIn
    <3>3. Null \notin ToSet(p) /\ All \notin ToSet(p)
      BY ValueAssumption, <2>8, <2>9 DEF All, ToSet, p
    <3>4. p # <<>> /\ p # <<All>>
      BY <2>8, <3>3, OneSet
    <3>5. b \in MemberRef
      BY <2>9, <2>13 DEF MemberRef
    <3>6. b \in Refs
      BY <3>1, <3>2, <3>5 DEF Refs, RefTyped
    <3> QED BY <3>1, <3>4, <3>6 DEF Plain, Names, IsRef, IsAll
  <2>15. \A j \in 1..Len(p) : row[h[j]] = p[j]
    BY <2>6, <2>10
  <2>16. KeptRows(data, WithPaths(data, <<>>, {OnlyOf(b)})) = BelowPath(data, h, p)
    BY <2>7, <2>8, <2>9, <2>11, <2>14, <2>15, AloneKeeps
  <2>17. ~ TakenForAll(b) => KeptRows(data, WithPaths(data, <<b>>, {})) = BelowPath(data, h, p)
    BY <2>11, <2>14, SlicedAlone
  <2> QED BY <2>12, <2>14, <2>16, <2>17, ExistsAlone, TickedAlone DEF b
<1> QED BY <1>1, RepliedAlways, PTL

(* What is drilled down.                                                     *)

(* Two ordered sequences, one after the other.                               *)
LEMMA ConcatOrdered ==
  ASSUME NEW S, NEW R, NEW a \in Seq(S), NEW b \in Seq(S), Ordered(a, R), Ordered(b, R),
         AllBefore(ToSet(a), ToSet(b), R)
  PROVE  Ordered(a \o b, R)
<1> DEFINE c == a \o b
           m == Len(a)
           n == Len(b)
<1>1. /\ Len(c) = m + n /\ m \in Nat /\ n \in Nat
      /\ \A i \in 1..Len(c) : c[i] = IF i <= Len(a) THEN a[i] ELSE b[i - Len(a)]
  BY ConcatProperties
<1>2. (\A i \in 1..m : a[i] \in ToSet(a)) /\ \A i \in 1..n : b[i] \in ToSet(b)
  BY InSeq
<1> HIDE DEF c
<1> SUFFICES ASSUME NEW i \in 1..Len(c), NEW j \in 1..Len(c), i < j PROVE <<c[i], c[j]>> \in R
  BY DEF Ordered, c
<1>a. i \in Nat /\ j \in Nat /\ i >= 1 /\ j <= m + n
  BY <1>1
<1>3. CASE j <= m
  BY <1>1, <1>a, <1>3 DEF Ordered
<1>4. CASE i <= m /\ ~ (j <= m)
  BY <1>1, <1>a, <1>4, <1>2 DEF AllBefore
<1>5. CASE ~ (i <= m)
  <2>1. i - m \in 1..n /\ j - m \in 1..n /\ i - m < j - m /\ ~ (j <= m)
    BY <1>1, <1>a, <1>5
  <2>2. c[i] = b[i - m] /\ c[j] = b[j - m]
    BY <1>1, <1>5, <2>1
  <2> QED BY <2>1, <2>2 DEF Ordered
<1> QED BY <1>1, <1>a, <1>3, <1>4, <1>5

(* Ordered rows, flattened, when each comes before the next.                 *)
LEMMA FlatOrdered ==
  ASSUME NEW S, NEW R, NEW n \in Nat, NEW rows, Lists(rows, n, Seq(S)),
         \A k \in 1..n : Ordered(rows[k], R),
         \A k, l \in 1..n : k < l => AllBefore(ToSet(rows[k]), ToSet(rows[l]), R)
  PROVE  Ordered(FlattenSeq(rows), R)
<1>1. Len(rows) = n /\ \A k \in 1..n : rows[k] \in Seq(S)
  BY ListIs DEF Lists
<1>2. CASE n = 0
  <2>1. FlattenSeq(rows) \in Seq(S) /\ ToSet(FlattenSeq(rows)) = {}
    BY <1>2, FlatIs DEF Joined
  <2> DEFINE fl == FlattenSeq(rows)
  <2> HIDE DEF fl
  <2>2. \A i \in 1..Len(fl) : fl[i] \in {}
    BY <2>1, InSeq DEF fl
  <2> QED BY <2>2 DEF Ordered, fl
<1>3. CASE n # 0
  <2>0. PICK g : FlatBy(rows, n, g)
    BY <1>1, <1>3, FlatSteps
  <2>1. /\ FlattenSeq(rows) = g[n]
        /\ \A k \in 1..n : g[k] = IF k = 1 THEN rows[k] ELSE g[k - 1] \o rows[k]
    BY <2>0 DEF FlatBy
  <2> DEFINE So(j) == g[j] \in Seq(S) /\ ToSet(g[j]) = Joined(rows, j) /\ Ordered(g[j], R)
             T == {j \in Nat : j + 1 <= n => So(j + 1)}
  <2>2. 0 \in T
    BY <1>3, <1>1, <2>1 DEF Joined
  <2>3. ASSUME NEW j \in Nat, j \in T PROVE j + 1 \in T
    <3> SUFFICES ASSUME (j + 1) + 1 <= n PROVE So((j + 1) + 1)
      OBVIOUS
    <3> DEFINE k == j + 1
    <3>1. k \in Nat /\ k <= n /\ k + 1 \in 1..n /\ k + 1 # 1 /\ (k + 1) - 1 = k
      OBVIOUS
    <3>2. So(k)
      BY <2>3, <3>1
    <3> HIDE DEF k
    <3>3. g[k + 1] = g[k] \o rows[k + 1]
      BY <2>1, <3>1
    <3>4. rows[k + 1] \in Seq(S) /\ Ordered(rows[k + 1], R)
      BY <1>1, <3>1
    <3>5. g[k + 1] \in Seq(S) /\ ToSet(g[k + 1]) = ToSet(g[k]) \cup ToSet(rows[k + 1])
      BY <3>2, <3>3, <3>4, ConcatSet
    <3>6. \A i \in 1..(k + 1) : i \in 1..k \/ i = k + 1
      BY <3>1
    <3>7. k + 1 \in 1..(k + 1) /\ 1..k \subseteq 1..(k + 1)
      BY <3>1
    <3>8. Joined(rows, k + 1) = Joined(rows, k) \cup ToSet(rows[k + 1])
      BY <3>6, <3>7 DEF Joined
    <3>9. AllBefore(ToSet(g[k]), ToSet(rows[k + 1]), R)
      <4>1. ASSUME NEW i \in 1..k PROVE AllBefore(ToSet(rows[i]), ToSet(rows[k + 1]), R)
        BY <3>1
      <4>2. \A x \in Joined(rows, k) : \E i \in 1..k : x \in ToSet(rows[i])
        BY DEF Joined
      <4> QED BY <3>2, <4>1, <4>2 DEF AllBefore
    <3>10. Ordered(g[k] \o rows[k + 1], R)
      BY <3>2, <3>4, <3>9, ConcatOrdered
    <3> QED BY <3>2, <3>3, <3>5, <3>8, <3>10 DEF k
  <2> HIDE DEF T
  <2>4. Nat \subseteq T
    BY <2>2, <2>3, Induction
  <2> HIDE DEF So
  <2>5. So(n)
    BY <1>3, <2>4 DEF T
  <2> QED BY <2>1, <2>5 DEF So
<1> QED BY <1>2, <1>3

(* A prefix, place by place.                                                 *)
LEMMA PrefixMeans ==
  ASSUME NEW S, NEW p \in Seq(S), NEW c \in Seq(S)
  PROVE  IsPrefix(p, c) <=> Len(p) <= Len(c) /\ \A i \in 1..Len(p) : p[i] = c[i]
<1> DEFINE n == Len(p)
           b == SubSeq(c, 1, n)
<1>1. n \in Nat /\ Len(c) \in Nat
  OBVIOUS
<1>2. CASE n <= Len(c)
  <2>1. b \in Seq(S) /\ Len(b) = n /\ \A i \in 1..n : b[i] = c[i]
    <3>1. n \in Int /\ (IF 1 <= n THEN n - 1 + 1 ELSE 0) = n /\ n - 1 + 1 = n /\ \A i \in 1..n : 1 + i - 1 = i
      BY <1>1
    <3>2. \A i \in 1..n : c[i] \in S
      BY <1>1, <1>2, InSeq
    <3> HIDE DEF b, n
    <3> QED BY <3>1, <3>2, SubSeqProperties DEF b
  <2> HIDE DEF b
  <2>2. p = b <=> \A i \in 1..n : p[i] = b[i]
    BY <2>1, SameSeq
  <2>3. IsPrefix(p, c) <=> p = b
    BY <1>2 DEF IsPrefix, b
  <2> QED BY <1>2, <2>1, <2>2, <2>3
<1>3. CASE ~ (n <= Len(c))
  BY <1>3 DEF IsPrefix
<1> QED BY <1>2, <1>3

(* The children that the members of a level have in the data.                *)
LEMMA KidsAre ==
  ASSUME NEW rows \in Table, NEW h \in Hierarchy, NEW x \in KeysIn(h)
  PROVE  /\ \A q \in KeysIn(h) : q \in Kids(rows, h, x) <=> IsKid(rows, h, x, q)
         /\ Kids(rows, h, x) \subseteq KeysIn(h)
<1> DEFINE c == canon_path(x)
           n == Len(x)
           kids == ToSet(ChildrenOf(rows, h, c))
<1>1. /\ c \in KeysIn(h) /\ Len(c) = n /\ n \in 0..Len(h) /\ Len(h) \in Nat
      /\ \A i \in 1..n : c[i] = Text(x[i])
  BY CanonIs, KeyIs, HierIs
<1>2. ChildrenOf(rows, h, c) \in Seq(KeysIn(h))
  BY <1>1, ChildrenAre
<1>3. Kids(rows, h, x) = kids
  BY DEF Kids
<1>4. kids \subseteq KeysIn(h)
  BY <1>2, InSeq
<1>5. ASSUME NEW q \in KeysIn(h) PROVE q \in kids <=> IsKid(rows, h, x, q)
  <2> DEFINE cq == canon_path(q)
             k == Len(q)
  <2>1. /\ cq \in KeysIn(h) /\ Len(cq) = k /\ k \in 0..Len(h) /\ \A i \in 1..k : cq[i] = Text(q[i])
    BY CanonIs, KeyIs
  <2>2. c \in Seq(Int) /\ cq \in Seq(Int)
    BY <1>1, <2>1 DEF KeysIn
  <2> HIDE DEF cq, c, kids, n, k
  <2>3. IsPrefix(c, cq) <=> n <= k /\ \A i \in 1..n : c[i] = cq[i]
    <3>1. IsPrefix(c, cq) <=> Len(c) <= Len(cq) /\ \A i \in 1..Len(c) : c[i] = cq[i]
      BY <2>2, PrefixMeans
    <3> QED BY <1>1, <2>1, <3>1
  <2>4. CASE n < Len(h)
    <3>1. kids = {y \in _run(rows, SubSeq(h, 1, n + 1)) : IsPrefix(c, canon_path(y))} /\ n + 1 \in 0..Len(h)
      BY <1>1, <2>4, ChildrenAre DEF kids
    <3>2. \A y \in _run(rows, SubSeq(h, 1, n + 1)) : Len(y) = n + 1
      BY ZenonT(60), <3>1, PrefixIs, AlongIs DEF _run, Table
    <3>3. q \in kids => k = n + 1
      BY <3>1, <3>2 DEF k
    <3>4. k = n + 1 => (q \in kids <=> InData(rows, h, q) /\ IsPrefix(c, cq))
      BY <3>1 DEF InData, k, cq
    <3>5. k = n + 1 => (IsPrefix(c, cq) <=> \A i \in 1..n : Text(x[i]) = Text(q[i]))
      BY <1>1, <2>1, <2>3
    <3> QED BY <3>3, <3>4, <3>5 DEF IsKid, n, k
  <2>5. CASE ~ (n < Len(h))
    BY <1>1, <2>1, <2>5, ChildrenAre DEF kids, IsKid, n, k
  <2> QED BY <2>4, <2>5
<1> QED BY <1>3, <1>4, <1>5

(* What the walk below a key finds.                                          *)

(* The nodes under an open one are those of its children.                    *)
LEMMA NodesUnderHas ==
  ASSUME NEW rows \in Table, NEW h \in Hierarchy, NEW s \in SpecIn(h), NEW x \in Nodes(h)
  PROVE  \A z : z \in ToSet(NodesUnder(rows, s, x)) <=> x.open /\ \E q \in Kids(rows, h, x.key) : z = Node(s, q)
<1> DEFINE keys == ChildrenOf(rows, s.hier, canon_path(x.key))
           f == [i \in DOMAIN keys |-> Node(s, keys[i])]
<1>1. x.key \in KeysIn(h) /\ s.hier = h /\ x.open \in BOOLEAN
  BY SpecIs DEF Nodes
<1>2. keys \in Seq(KeysIn(h))
  BY <1>1, CanonIs, ChildrenAre
<1>3. NodesUnder(rows, s, x) = IF x.open THEN f ELSE <<>>
  BY DEF NodesUnder
<1>a. Kids(rows, h, x.key) = ToSet(keys)
  BY <1>1 DEF Kids
<1> HIDE DEF keys
<1>4. DOMAIN keys = 1..Len(keys) /\ ToSet(keys) = {keys[i] : i \in 1..Len(keys)}
  BY <1>2, InSeq
<1>5. ToSet(f) = {Node(s, keys[i]) : i \in 1..Len(keys)}
  BY <1>4 DEF ToSet
<1> HIDE DEF f
<1>6. CASE x.open
  BY <1>3, <1>4, <1>5, <1>6, <1>a
<1>7. CASE ~ x.open
  BY <1>3, <1>7, OneSet
<1> QED BY <1>1, <1>6, <1>7

(* What comes later is what is deeper than where the descent started.        *)
LEMMA LaterIs ==
  ASSUME NEW h \in Hierarchy, NEW prefix \in KeysIn(h), NEW a \in Nodes(h), NEW b \in Nodes(h)
  PROVE  <<a, b>> \in Later(h, prefix) <=> Len(b.key) > Len(prefix)
  BY DEF Later

(* The node of a key.                                                        *)
LEMMA NodeIs ==
  ASSUME NEW h \in Hierarchy, NEW s \in SpecIn(h), NEW q \in KeysIn(h)
  PROVE  Node(s, q) \in Nodes(h) /\ Node(s, q).key = q /\ Node(s, q).open = Opens(s, q)
<1>1. IsDrilled(s, canon_path(q)) \in BOOLEAN
  BY SpecIs
<1> QED BY <1>1 DEF Node, Nodes, Opens

(* Shutting a node keeps its key.                                            *)
LEMMA ShutIs ==
  ASSUME NEW h, NEW x \in Nodes(h)
  PROVE  Shut(x) \in Nodes(h) /\ Shut(x).key = x.key /\ Shut(x).open = FALSE
  BY DEF Shut, Nodes

(* The lengths of keys.                                                      *)
LEMMA KidLength ==
  ASSUME NEW rows \in Table, NEW h \in Hierarchy, NEW x \in KeysIn(h), NEW q \in Kids(rows, h, x)
  PROVE  /\ q \in KeysIn(h) /\ Len(q) = Len(x) + 1 /\ IsKid(rows, h, x, q)
         /\ Len(x) \in Nat /\ Len(x) < Len(h) /\ Len(h) \in Nat
<1>1. q \in KeysIn(h) /\ IsKid(rows, h, x, q)
  BY KidsAre
<1>2. Len(q) = Len(x) + 1 /\ Len(x) \in 0..Len(h) /\ Len(q) \in 0..Len(h) /\ Len(h) \in Nat
  BY <1>1, KeyIs, HierIs DEF IsKid
<1> QED BY <1>1, <1>2

(* A round of a descent: the nodes that come of it, and their order.         *)
LEMMA DeeperHas ==
  ASSUME NEW rows \in Table, NEW h \in Hierarchy, NEW s \in SpecIn(h), NEW nodes \in Seq(Nodes(h)),
         NEW prefix \in KeysIn(h), Ordered(nodes, Later(h, prefix)),
         \A x \in ToSet(nodes) : Len(x.key) >= Len(prefix)
  PROVE  /\ \A z : z \in ToSet(Deeper(rows, s, nodes)) <=> NodeStep(rows, h, s, ToSet(nodes), z)
         /\ Ordered(Deeper(rows, s, nodes), Later(h, prefix))
<1> DEFINE n == Len(nodes)
           R == Later(h, prefix)
           parts == [i \in DOMAIN nodes |-> <<Shut(nodes[i])>> \o NodesUnder(rows, s, nodes[i])]
<1>1. n \in Nat /\ DOMAIN nodes = 1..n /\ ToSet(nodes) = {nodes[i] : i \in 1..n} /\ \A i \in 1..n : nodes[i] \in Nodes(h)
  BY InSeq
<1>0. Len(prefix) \in Nat
  BY KeyIs
<1>2. ASSUME NEW i \in 1..n
      PROVE  /\ parts[i] \in Seq(Nodes(h)) /\ Ordered(parts[i], R)
             /\ \A z : z \in ToSet(parts[i]) <=>
                  z = Shut(nodes[i]) \/ (nodes[i].open /\ \E q \in Kids(rows, h, nodes[i].key) : z = Node(s, q))
             /\ \A z \in ToSet(parts[i]) : z = Shut(nodes[i]) \/ Len(z.key) > Len(prefix)
  <2> DEFINE x == nodes[i]
             a == <<Shut(x)>>
             b == NodesUnder(rows, s, x)
  <2>1. x \in Nodes(h) /\ x \in ToSet(nodes) /\ x.key \in KeysIn(h)
    BY <1>1 DEF Nodes
  <2>2. parts[i] = a \o b
    BY <1>1
  <2>3. Len(x.key) >= Len(prefix)
    BY <2>1
  <2> HIDE DEF parts, x
  <2>4. Shut(x) \in Nodes(h)
    BY <2>1, ShutIs
  <2>5. a \in Seq(Nodes(h)) /\ ToSet(a) = {Shut(x)} /\ Len(a) = 1
    BY <2>4, OneSet
  <2>6. b \in Seq(Nodes(h)) /\ \A z : z \in ToSet(b) <=> x.open /\ \E q \in Kids(rows, h, x.key) : z = Node(s, q)
    BY <2>1, NodesUnderAre, NodesUnderHas
  <2> HIDE DEF a, b
  <2>7. ASSUME NEW z \in ToSet(b) PROVE z \in Nodes(h) /\ Len(z.key) > Len(prefix)
    <3>1. PICK q \in Kids(rows, h, x.key) : z = Node(s, q)
      BY <2>6
    <3>2. q \in KeysIn(h) /\ Len(q) = Len(x.key) + 1 /\ Len(x.key) \in Nat
      BY <2>1, KidLength
    <3>3. z \in Nodes(h) /\ z.key = q
      BY <3>1, <3>2, NodeIs
    <3> QED BY <1>0, <2>3, <3>2, <3>3
  <2>8. Ordered(a, R)
    BY <2>5 DEF Ordered
  <2>9. Ordered(b, R)
    <3>1. \A k \in 1..Len(b) : b[k] \in ToSet(b)
      BY <2>6, InSeq
    <3>2. \A y, z \in ToSet(b) : <<y, z>> \in R
      BY <2>7, LaterIs
    <3> QED BY <3>1, <3>2 DEF Ordered
  <2>10. AllBefore(ToSet(a), ToSet(b), R)
    <3>1. \A z \in ToSet(b) : <<Shut(x), z>> \in R
      BY <2>4, <2>7, LaterIs
    <3> QED BY <2>5, <3>1 DEF AllBefore
  <2>11. a \o b \in Seq(Nodes(h)) /\ ToSet(a \o b) = ToSet(a) \cup ToSet(b)
    BY <2>5, <2>6, ConcatSet
  <2>12. Ordered(a \o b, R)
    BY <2>5, <2>6, <2>8, <2>9, <2>10, ConcatOrdered
  <2> QED BY <2>2, <2>5, <2>6, <2>7, <2>11, <2>12 DEF x
<1>3. Lists(parts, n, Seq(Nodes(h)))
  BY <1>1, <1>2 DEF Lists
<1>4. Deeper(rows, s, nodes) = FlattenSeq(parts)
  BY DEF Deeper, Shut
<1> HIDE DEF parts
<1>5. ASSUME NEW k \in 1..n, NEW l \in 1..n, k < l PROVE AllBefore(ToSet(parts[k]), ToSet(parts[l]), R)
  <2>1. Len(nodes[l].key) > Len(prefix)
    <3>1. <<nodes[k], nodes[l]>> \in R
      BY <1>5 DEF Ordered
    <3> QED BY <1>1, <3>1, LaterIs
  <2>2. \A y \in ToSet(parts[k]) : y \in Nodes(h)
    BY <1>2, InSeq
  <2>3. ASSUME NEW z \in ToSet(parts[l]) PROVE z \in Nodes(h) /\ Len(z.key) > Len(prefix)
    <3>1. z \in Nodes(h)
      BY <1>2, InSeq
    <3>2. Shut(nodes[l]).key = nodes[l].key
      BY <1>1, ShutIs
    <3> QED BY <1>2, <2>1, <3>1, <3>2
  <2> QED BY <2>2, <2>3, LaterIs DEF AllBefore
<1>6. Ordered(FlattenSeq(parts), R)
  <2> HIDE DEF R, n
  <2> QED BY <1>1, <1>2, <1>3, <1>5, FlatOrdered
<1>7. ToSet(FlattenSeq(parts)) = Joined(parts, n)
  BY <1>1, <1>3, FlatIs
<1>8. \A z : z \in Joined(parts, n) <=> \E i \in 1..n : z \in ToSet(parts[i])
  BY DEF Joined
<1>9. \A z : z \in Joined(parts, n) <=> NodeStep(rows, h, s, ToSet(nodes), z)
  <2> HIDE DEF n
  <2> DEFINE puts(x, z) == z = Shut(x) \/ (x.open /\ \E q \in Kids(rows, h, x.key) : z = Node(s, q))
  <2>1. \A z : NodeStep(rows, h, s, ToSet(nodes), z) <=> \E i \in 1..n : puts(nodes[i], z)
    BY <1>1 DEF NodeStep
  <2>2. \A i \in 1..n : \A z : z \in ToSet(parts[i]) <=> puts(nodes[i], z)
    BY <1>2
  <2> HIDE DEF puts
  <2> QED BY <1>8, <2>1, <2>2
<1> QED BY <1>4, <1>6, <1>7, <1>9

(* Every round keeps that.                                                   *)
LEMMA SpreadStep ==
  ASSUME NEW rows \in Table, NEW h \in Hierarchy, NEW s \in SpecIn(h), NEW prefix \in KeysIn(h),
         NEW nodes, NEW n \in Nat, Spread(rows, h, s, prefix, nodes, n)
  PROVE  Spread(rows, h, s, prefix, Deeper(rows, s, nodes), n + 1)
<1> DEFINE more == Deeper(rows, s, nodes)
           N == ToSet(nodes)
           M == ToSet(more)
<1>1. nodes \in Seq(Nodes(h)) /\ Ordered(nodes, Later(h, prefix)) /\ prefix \in KeysOf(N)
  BY DEF Spread
<1>2. ASSUME NEW x \in N
      PROVE  /\ x \in Nodes(h) /\ x.key \in KeysIn(h) /\ x.open \in BOOLEAN /\ Len(x.key) >= Len(prefix)
             /\ x.open => Len(x.key) = Len(prefix) + n /\ Source(s, prefix, x.key)
             /\ ~ x.open /\ Source(s, prefix, x.key) => Kids(rows, h, x.key) \subseteq KeysOf(N)
             /\ x.key = prefix \/ \E y \in N : Source(s, prefix, y.key) /\ x.key \in Kids(rows, h, y.key)
  <2>1. x \in Nodes(h)
    BY <1>1, InSeq
  <2> QED BY <2>1 DEF Spread, Nodes
<1>3. more \in Seq(Nodes(h))
  BY <1>1, DeeperIs
<1>4. (\A z : z \in M <=> NodeStep(rows, h, s, N, z)) /\ Ordered(more, Later(h, prefix))
  BY <1>1, <1>2, DeeperHas
<1>0. Len(prefix) \in Nat
  BY KeyIs
<1> HIDE DEF M, N, more
<1>5. ASSUME NEW x \in N PROVE Shut(x) \in M /\ Shut(x).key = x.key /\ ~ Shut(x).open
  BY <1>2, <1>4, ShutIs DEF NodeStep
<1>6. KeysOf(N) \subseteq KeysOf(M)
  BY <1>5 DEF KeysOf
<1>7. ASSUME NEW x \in N, x.open PROVE Kids(rows, h, x.key) \subseteq KeysOf(M)
  <2> SUFFICES ASSUME NEW q \in Kids(rows, h, x.key) PROVE q \in KeysOf(M)
    OBVIOUS
  <2>1. Node(s, q) \in M
    BY <1>4, <1>7 DEF NodeStep
  <2>2. Node(s, q).key = q
    BY DEF Node
  <2> QED BY <2>1, <2>2 DEF KeysOf
<1>8. ASSUME NEW x \in N, Source(s, prefix, x.key) PROVE Kids(rows, h, x.key) \subseteq KeysOf(M)
  BY <1>2, <1>6, <1>7, <1>8
<1>9. ASSUME NEW z \in M
      PROVE  /\ Len(z.key) >= Len(prefix)
             /\ z.open => Len(z.key) = Len(prefix) + (n + 1) /\ Source(s, prefix, z.key)
             /\ ~ z.open /\ Source(s, prefix, z.key) => Kids(rows, h, z.key) \subseteq KeysOf(M)
             /\ z.key = prefix \/ \E y \in M : Source(s, prefix, y.key) /\ z.key \in Kids(rows, h, y.key)
  <2>1. PICK x \in N : z = Shut(x) \/ (x.open /\ \E q \in Kids(rows, h, x.key) : z = Node(s, q))
    BY <1>4 DEF NodeStep
  <2>2. CASE z = Shut(x)
    <3>1. z.key = x.key /\ ~ z.open
      BY <1>5, <2>2
    <3>2. z.key = prefix \/ \E y \in M : Source(s, prefix, y.key) /\ z.key \in Kids(rows, h, y.key)
      <4> SUFFICES ASSUME x.key # prefix PROVE \E y \in M : Source(s, prefix, y.key) /\ x.key \in Kids(rows, h, y.key)
        BY <3>1
      <4>1. PICK y \in N : Source(s, prefix, y.key) /\ x.key \in Kids(rows, h, y.key)
        BY <1>2
      <4>2. Shut(y) \in M /\ Shut(y).key = y.key
        BY <1>5
      <4> QED BY <4>1, <4>2
    <3> QED BY <1>2, <1>8, <3>1, <3>2
  <2>3. CASE x.open /\ \E q \in Kids(rows, h, x.key) : z = Node(s, q)
    <3>1. PICK q \in Kids(rows, h, x.key) : z = Node(s, q)
      BY <2>3
    <3>2. q \in KeysIn(h) /\ Len(q) = Len(x.key) + 1 /\ Len(x.key) \in Nat
      BY <1>2, KidLength
    <3>3. z.key = q /\ z.open = Opens(s, q)
      BY <3>1, <3>2, NodeIs
    <3>4. Len(x.key) = Len(prefix) + n /\ Source(s, prefix, x.key)
      BY <1>2, <2>3
    <3>5. Len(q) = Len(prefix) + (n + 1) /\ Len(q) > Len(prefix)
      BY <1>0, <3>2, <3>4
    <3>6. q # prefix
      BY <1>0, <3>5
    <3>7. Shut(x) \in M /\ Shut(x).key = x.key
      BY <1>5
    <3>8. \E y \in M : Source(s, prefix, y.key) /\ z.key \in Kids(rows, h, y.key)
      BY <3>1, <3>3, <3>4, <3>7
    <3>9. Source(s, prefix, z.key) <=> z.open
      BY <3>3, <3>6 DEF Source
    <3> QED BY <1>0, <3>3, <3>5, <3>8, <3>9
  <2> QED BY <2>1, <2>2, <2>3
<1>10. prefix \in KeysOf(M)
  BY <1>1, <1>6
<1> QED BY <1>3, <1>4, <1>9, <1>10 DEF Spread, M, more

(* A descent ends with the children of its start, and of all that is drilled *)
(* and reached.                                                              *)
LEMMA DescendHas ==
  ASSUME NEW rows \in Table, NEW h \in Hierarchy, NEW s \in SpecIn(h), NEW prefix \in KeysIn(h)
  PROVE  Descended(rows, h, s, prefix, ToSet(Descend(rows, s, prefix)))
<1> DEFINE L == Len(h)
           K == ToSet(Descend(rows, s, prefix))
<1>1. L \in Nat /\ s.hier = h /\ Len(prefix) \in 0..L
  BY HierIs, SpecIs, KeyIs
<1>a. PICK g : Descends(rows, s, prefix, g)
  BY <1>1, DescendLoop
<1>2. /\ g[0] = <<[key |-> prefix, open |-> TRUE]>>
      /\ \A n \in 1..L : g[n] = Deeper(rows, s, g[n - 1])
      /\ Descend(rows, s, prefix) = [i \in 1..(Len(g[L]) - 1) |-> g[L][i + 1].key]
  BY <1>1, <1>a DEF Descends
<1> DEFINE T == {n \in Nat : n <= L => Spread(rows, h, s, prefix, g[n], n)}
<1>3. 0 \in T
  <2> DEFINE x == [key |-> prefix, open |-> TRUE]
  <2>1. x \in Nodes(h) /\ x.key = prefix /\ x.open = TRUE
    BY DEF Nodes
  <2> HIDE DEF x
  <2>2. g[0] = <<x>>
    BY <1>2 DEF x
  <2>3. <<x>> \in Seq(Nodes(h)) /\ ToSet(<<x>>) = {x} /\ Len(<<x>>) = 1
    BY <2>1, OneSet
  <2>4. Ordered(<<x>>, Later(h, prefix))
    BY <2>3 DEF Ordered
  <2>5. Len(prefix) = Len(prefix) + 0 /\ Len(prefix) >= Len(prefix)
    BY <1>1
  <2>6. Spread(rows, h, s, prefix, <<x>>, 0)
    BY <2>1, <2>3, <2>4, <2>5 DEF Spread, KeysOf, Source
  <2> QED BY <2>2, <2>6
<1>4. ASSUME NEW n \in Nat, n \in T PROVE n + 1 \in T
  <2> SUFFICES ASSUME n + 1 <= L PROVE Spread(rows, h, s, prefix, g[n + 1], n + 1)
    OBVIOUS
  <2>1. n <= L /\ n + 1 \in 1..L /\ (n + 1) - 1 = n
    BY <1>1
  <2>2. g[n + 1] = Deeper(rows, s, g[n])
    BY <1>2, <2>1
  <2> QED BY <1>4, <2>1, <2>2, SpreadStep
<1> HIDE DEF T
<1>5. Nat \subseteq T
  BY <1>3, <1>4, Induction
<1> DEFINE found == g[L]
           N == ToSet(found)
           f == [i \in 1..(Len(found) - 1) |-> found[i + 1].key]
<1>6. Spread(rows, h, s, prefix, found, L)
  BY <1>1, <1>5 DEF T
<1>7. Descend(rows, s, prefix) = f
  BY <1>2
<1> HIDE DEF found, L
<1>8. /\ found \in Seq(Nodes(h)) /\ Ordered(found, Later(h, prefix)) /\ prefix \in KeysOf(N)
      /\ Len(found) \in Nat /\ N = {found[i] : i \in 1..Len(found)} /\ \A i \in 1..Len(found) : found[i] \in Nodes(h)
  BY <1>6, InSeq DEF Spread
<1>9. ASSUME NEW x \in N
      PROVE  /\ x.key \in KeysIn(h) /\ x.open \in BOOLEAN
             /\ Source(s, prefix, x.key) => Kids(rows, h, x.key) \subseteq KeysOf(N)
             /\ x.key = prefix \/ \E y \in N : Source(s, prefix, y.key) /\ x.key \in Kids(rows, h, y.key)
  <2>1. x \in Nodes(h)
    BY <1>8
  <2>2. x.key \in KeysIn(h) /\ x.open \in BOOLEAN
    BY <2>1 DEF Nodes
  <2>3. x.open => Kids(rows, h, x.key) = {}
    <3> SUFFICES ASSUME x.open, NEW q \in Kids(rows, h, x.key) PROVE FALSE
      OBVIOUS
    <3>1. Len(x.key) = Len(prefix) + L
      BY <1>6 DEF Spread
    <3>2. Len(x.key) < Len(h) /\ Len(x.key) \in Nat
      BY <2>2, KidLength
    <3> QED BY <1>1, <3>1, <3>2 DEF L
  <2>4. ~ x.open /\ Source(s, prefix, x.key) => Kids(rows, h, x.key) \subseteq KeysOf(N)
    BY <1>6 DEF Spread
  <2>5. x.key = prefix \/ \E y \in N : Source(s, prefix, y.key) /\ x.key \in Kids(rows, h, y.key)
    BY <1>6 DEF Spread
  <2> QED BY <2>2, <2>3, <2>4, <2>5
<1>10. ASSUME NEW i \in 1..Len(found), i # 1 PROVE Len(found[i].key) > Len(prefix)
  <2>1. 1 \in 1..Len(found) /\ 1 < i
    BY <1>8, <1>10
  <2>2. <<found[1], found[i]>> \in Later(h, prefix)
    BY <1>8, <2>1 DEF Ordered
  <2> QED BY <1>8, <2>1, <2>2, LaterIs
<1>11. Len(found) # 0 /\ found[1].key = prefix
  <2>1. PICK i \in 1..Len(found) : found[i].key = prefix
    BY <1>8 DEF KeysOf
  <2>2. ~ (Len(prefix) > Len(prefix))
    BY <1>1
  <2>3. i = 1
    BY <1>10, <2>1, <2>2
  <2>4. Len(found) # 0
    BY <1>8, <2>1
  <2> QED BY <2>1, <2>3, <2>4
<1>12. K = {found[i].key : i \in {j \in 1..Len(found) : j # 1}}
  <2>1. K = {f[i] : i \in 1..(Len(found) - 1)}
    BY <1>7 DEF ToSet
  <2>2. \A i \in 1..(Len(found) - 1) : f[i] = found[i + 1].key
    OBVIOUS
  <2>3. /\ \A i \in 1..(Len(found) - 1) : i + 1 \in 1..Len(found) /\ i + 1 # 1
        /\ \A i \in 1..Len(found) : i # 1 => i - 1 \in 1..(Len(found) - 1) /\ (i - 1) + 1 = i
    BY <1>8
  <2> HIDE DEF f, K
  <2>4. ASSUME NEW q \in K PROVE q \in {found[i].key : i \in {j \in 1..Len(found) : j # 1}}
    BY <2>1, <2>2, <2>3
  <2>5. ASSUME NEW i \in 1..Len(found), i # 1 PROVE found[i].key \in K
    <3>1. i - 1 \in 1..(Len(found) - 1) /\ (i - 1) + 1 = i
      BY <2>3, <2>5
    <3>2. f[i - 1] = found[i].key
      BY <2>2, <3>1
    <3> QED BY <2>1, <3>1, <3>2
  <2> QED BY <2>4, <2>5
<1> HIDE DEF K, f
<1>13. KeysOf(N) = K \cup {prefix}
  BY <1>8, <1>11, <1>12 DEF KeysOf
<1>14. \A q \in K : Len(q) > Len(prefix)
  BY <1>10, <1>12
<1>15. ASSUME NEW x \in K \cup {prefix}
       PROVE  /\ x \in KeysIn(h)
              /\ Source(s, prefix, x) => Kids(rows, h, x) \subseteq K
              /\ x = prefix \/ \E y \in K \cup {prefix} : Source(s, prefix, y) /\ x \in Kids(rows, h, y)
  <2>1. PICK z \in N : x = z.key
    BY <1>13 DEF KeysOf
  <2>2. x \in KeysIn(h) /\ (Source(s, prefix, x) => Kids(rows, h, x) \subseteq K \cup {prefix})
    BY <1>9, <1>13, <2>1
  <2>3. Len(x) >= Len(prefix) /\ Len(x) \in Nat
    BY <2>2, KeyIs, HierIs, <1>1, <1>14
  <2>4. ASSUME NEW q \in Kids(rows, h, x) PROVE q # prefix
    BY <2>2, KidLength, <1>1, <2>3
  <2>5. x = prefix \/ \E y \in K \cup {prefix} : Source(s, prefix, y) /\ x \in Kids(rows, h, y)
    <3> SUFFICES ASSUME x # prefix PROVE \E y \in K \cup {prefix} : Source(s, prefix, y) /\ x \in Kids(rows, h, y)
      OBVIOUS
    <3>1. PICK y \in N : Source(s, prefix, y.key) /\ x \in Kids(rows, h, y.key)
      BY <1>9, <2>1
    <3>2. y.key \in K \cup {prefix}
      BY <1>13 DEF KeysOf
    <3> QED BY <3>1, <3>2
  <2> QED BY <2>2, <2>4, <2>5
<1>16. \A q \in K : q # prefix
  BY <1>1, <1>14
<1> QED BY <1>14, <1>15, <1>16 DEF Descended, K

(* The keys that a user hierarchy shows.                                     *)

(* Names and keys differ by NULL only.                                       *)
LEMMA CanonSelf ==
  ASSUME NEW h \in Hierarchy, NEW p \in KeysIn(h), Null \notin ToSet(p)
  PROVE  canon_path(p) = p
<1>1. p \in Seq(Int) /\ DOMAIN p = 1..Len(p) /\ \A i \in 1..Len(p) : p[i] # Null
  BY KeyIs DEF ToSet
<1>2. canon_path(p) = [i \in 1..Len(p) |-> p[i]]
  BY <1>1 DEF canon_path, Text
<1> QED BY <1>1, <1>2

(* The path that a member is named by is its key.                            *)
LEMMA PathNoNull ==
  ASSUME NEW h \in Hierarchy, NEW p \in PathsIn(h)
  PROVE  p \in KeysIn(h) /\ Null \notin ToSet(p) /\ canon_path(p) = p
<1>1. p \in KeysIn(h) /\ p \in Seq(Value)
  BY PathIsKey DEF PathsIn
<1>2. ToSet(p) \subseteq Value /\ Null \notin Value
  BY <1>1, InSeq, ValueAssumption DEF Null
<1> QED BY <1>1, <1>2, CanonSelf

(* A path by name is the key that the data has for it, if it has one.        *)
LEMMA ResolvedHas ==
  ASSUME NEW rows \in Table, NEW h \in Hierarchy, NEW p \in PathsIn(h), NEW q, q = _resolve_path(rows, h, p)
  PROVE  /\ q \in KeysIn(h) /\ canon_path(q) = p
         /\ \A k \in KeysIn(h) : InData(rows, h, k) /\ canon_path(k) = p => InData(rows, h, q)
<1> DEFINE keys == {k \in _run(rows, SubSeq(h, 1, Len(p))) : canon_path(k) = p}
<1>1. q = IF keys = {} THEN p ELSE Sorted(keys)[1]
  BY DEF _resolve_path
<1>2. p \in KeysIn(h) /\ canon_path(p) = p
  BY PathNoNull
<1>a. q \in KeysIn(h)
  BY <1>2, ResolvedIs
<1>3. keys \in SUBSET _run(rows, SubSeq(h, 1, Len(p))) /\ Len(p) \in 0..Len(h)
  BY <1>2, KeyIs
<1>4. \A k \in keys : k \in _run(rows, SubSeq(h, 1, Len(p))) /\ canon_path(k) = p
  OBVIOUS
<1>5. ASSUME NEW k \in KeysIn(h), InData(rows, h, k), canon_path(k) = p PROVE k \in keys
  <2>1. Len(k) = Len(p)
    BY <1>5, CanonIs
  <2> QED BY <1>5, <2>1 DEF InData
<1> HIDE DEF keys
<1>6. Sorted(keys) \in Seq(KeysIn(h)) /\ ToSet(Sorted(keys)) = keys
  BY <1>3, SortedKeys
<1>7. CASE keys = {}
  BY <1>1, <1>2, <1>5, <1>7, <1>a
<1>8. CASE keys # {}
  <2>1. q \in keys
    BY <1>1, <1>6, <1>8, InSeq
  <2>2. canon_path(q) = p /\ Len(q) = Len(p)
    BY <1>4, <1>a, <2>1, CanonIs
  <2>3. InData(rows, h, q)
    BY <1>4, <2>1, <2>2 DEF InData
  <2> QED BY <1>a, <2>2, <2>3
<1> QED BY <1>7, <1>8

(* What is shown below a drilled member is closed under children of drilled  *)
(* ones, and has nothing else.                                               *)
LEMMA IntoHas ==
  ASSUME NEW rows \in Table, NEW h \in Hierarchy, NEW s \in SpecIn(h), NEW prefix \in KeysIn(h),
         Null \notin ToSet(prefix), NEW K, K = ToSet(DescendInto(rows, s, prefix))
  PROVE  /\ K \subseteq KeysIn(h) /\ Closed(rows, h, s, K)
         /\ Opens(s, prefix) => Kids(rows, h, prefix) \subseteq K
         /\ \A q \in K : UnderOpen(rows, h, s, q)
<1>1. canon_path(prefix) = prefix
  BY CanonSelf
<1>2. CASE IsDrilled(s, prefix)
  <2>1. K = ToSet(Descend(rows, s, prefix))
    BY <1>2 DEF DescendInto
  <2>2. Descended(rows, h, s, prefix, K)
    BY <2>1, DescendHas
  <2>3. Opens(s, prefix)
    BY <1>1, <1>2 DEF Opens
  <2>4. ASSUME NEW q \in K PROVE UnderOpen(rows, h, s, q)
    <3>1. PICK y \in K \cup {prefix} : Source(s, prefix, y) /\ q \in Kids(rows, h, y)
      BY <2>2 DEF Descended
    <3>2. y \in KeysIn(h) /\ Opens(s, y)
      BY <2>2, <2>3, <3>1 DEF Descended, Source
    <3> QED BY <3>1, <3>2 DEF UnderOpen
  <2> QED BY <2>2, <2>4 DEF Descended, Source, Closed
<1>3. CASE ~ IsDrilled(s, prefix)
  BY <1>3, OneSet, <1>1 DEF DescendInto, Opens, Closed
<1> QED BY <1>2, <1>3

(* No level is listed flat: no keys of it.                                   *)
LEMMA FlatNone ==
  ASSUME NEW rows, NEW h \in Hierarchy, NEW s \in SpecIn(h), s.flat = {}
  PROVE  ToSet(FlatKeys(rows, s)) = {}
<1> DEFINE n == Len(h)
           parts == [i \in DOMAIN h |-> IF i \in s.flat THEN Sorted(_run(rows, SubSeq(h, 1, i))) ELSE <<>>]
<1>1. n \in Nat /\ DOMAIN h = 1..n /\ s.hier = h
  BY HierIs, SpecIs
<1>2. \A i \in 1..n : parts[i] = <<>>
  BY <1>1
<1>3. Lists(parts, n, Seq({}))
  <2>1. DOMAIN parts = 1..n
    BY <1>1
  <2>2. parts = [i \in 1..n |-> parts[i]]
    BY <2>1
  <2>3. <<>> \in Seq({})
    OBVIOUS
  <2> HIDE DEF parts, n
  <2> QED BY <1>2, <2>2, <2>3 DEF Lists
<1>4. FlatKeys(rows, s) = FlattenSeq(parts)
  BY <1>1 DEF FlatKeys
<1> HIDE DEF parts, n
<1>5. ToSet(FlattenSeq(parts)) = Joined(parts, n)
  BY <1>1, <1>3, FlatIs
<1>6. Joined(parts, n) = {}
  BY <1>2, OneSet DEF Joined
<1> QED BY <1>4, <1>5, <1>6

(* The keys of the named members and below them.                             *)
LEMMA NamedKeysHave ==
  ASSUME NEW rows \in Table, NEW h \in Hierarchy, NEW s \in SpecIn(h), NEW K, K = ToSet(NamedKeys(rows, s))
  PROVE  /\ K \subseteq KeysIn(h) /\ Closed(rows, h, s, K)
         /\ \A q \in K : Resolved(rows, h, s, q) \/ UnderOpen(rows, h, s, q)
<1> DEFINE n == Len(s.paths)
           parts == [i \in DOMAIN s.paths |->
                       <<_resolve_path(rows, h, s.paths[i])>> \o DescendInto(rows, s, s.paths[i])]
<1>0. s.paths \in Seq(PathsIn(h)) /\ s.hier = h
  BY SpecIs
<1>1. n \in Nat /\ DOMAIN s.paths = 1..n /\ (\A i \in 1..n : s.paths[i] \in PathsIn(h)) /\ ToSet(s.paths) = {s.paths[i] : i \in 1..n}
  BY <1>0, InSeq
<1>2. ASSUME NEW i \in 1..n
      PROVE  /\ parts[i] \in Seq(KeysIn(h)) /\ Closed(rows, h, s, ToSet(parts[i]))
             /\ \A q \in ToSet(parts[i]) : Resolved(rows, h, s, q) \/ UnderOpen(rows, h, s, q)
  <2> DEFINE p == s.paths[i]
             a == _resolve_path(rows, h, p)
             b == DescendInto(rows, s, p)
             B == ToSet(b)
  <2>1. p \in PathsIn(h) /\ p \in ToSet(s.paths)
    BY <1>1
  <2>2. parts[i] = <<a>> \o b
    BY <1>1
  <2> HIDE DEF parts, p
  <2>3. p \in KeysIn(h) /\ Null \notin ToSet(p) /\ canon_path(p) = p
    BY <2>1, PathNoNull
  <2>4. a \in KeysIn(h) /\ canon_path(a) = p
    BY <2>1, ResolvedHas
  <2>5. b \in Seq(KeysIn(h)) /\ <<a>> \in Seq(KeysIn(h)) /\ ToSet(<<a>>) = {a}
    BY <2>3, <2>4, IntoIs, OneSet
  <2>6. /\ Closed(rows, h, s, B) /\ (Opens(s, p) => Kids(rows, h, p) \subseteq B)
        /\ \A q \in B : UnderOpen(rows, h, s, q)
    BY <2>3, IntoHas
  <2>7. Resolved(rows, h, s, a)
    BY <2>1 DEF Resolved
  <2>8. Opens(s, a) = Opens(s, p) /\ Kids(rows, h, a) = Kids(rows, h, p)
    BY <2>3, <2>4 DEF Opens, Kids
  <2> DEFINE c == <<a>>
  <2>c. c \in Seq(KeysIn(h)) /\ ToSet(c) = {a} /\ b \in Seq(KeysIn(h))
    BY <2>5
  <2> HIDE DEF a, b, B, c
  <2>9. c \o b \in Seq(KeysIn(h)) /\ ToSet(c \o b) = {a} \cup B
    BY <2>c, ConcatSet DEF B
  <2>10. Closed(rows, h, s, {a} \cup B)
    BY <2>6, <2>8 DEF Closed
  <2>11. \A q \in {a} \cup B : Resolved(rows, h, s, q) \/ UnderOpen(rows, h, s, q)
    BY <2>6, <2>7
  <2> QED BY <2>2, <2>9, <2>10, <2>11 DEF c
<1>3. Lists(parts, n, Seq(KeysIn(h)))
  BY <1>1, <1>2 DEF Lists
<1>4. NamedKeys(rows, s) = FlattenSeq(parts)
  BY <1>0 DEF NamedKeys
<1> HIDE DEF parts, n
<1>5. FlattenSeq(parts) \in Seq(KeysIn(h)) /\ K = Joined(parts, n)
  BY <1>1, <1>3, <1>4, FlatIs
<1>6. \A q \in K : \E i \in 1..n : q \in ToSet(parts[i])
  BY <1>5 DEF Joined
<1>7. \A i \in 1..n : ToSet(parts[i]) \subseteq K
  BY <1>5 DEF Joined
<1>8. K \subseteq KeysIn(h)
  BY <1>4, <1>5, InSeq
<1>9. Closed(rows, h, s, K)
  BY <1>2, <1>6, <1>7 DEF Closed
<1> QED BY <1>2, <1>6, <1>8, <1>9

(* The keys before the hidden paths are added.                               *)
LEMMA ShownHave ==
  ASSUME NEW rows \in Table, NEW h \in Hierarchy, NEW s \in SpecIn(h), s.flat = {},
         NEW K, K = ToSet(ShownKeys(rows, s))
  PROVE  /\ K \subseteq KeysIn(h) /\ Closed(rows, h, s, K)
         /\ \A q \in K : Resolved(rows, h, s, q) \/ UnderOpen(rows, h, s, q)
<1> DEFINE a == FlatKeys(rows, s)
           b == DescendInto(rows, s, <<>>)
           c == NamedKeys(rows, s)
           S == KeysIn(h)
<1>1. a \in Seq(S) /\ b \in Seq(S) /\ c \in Seq(S)
  BY FlatKeysAre, NamedKeysAre, IntoIs, EmptyKey
<1>2. ShownKeys(rows, s) = a \o b \o c
  BY DEF ShownKeys
<1>3. ToSet(a) = {}
  BY FlatNone
<1>4. ToSet(b) \subseteq S /\ Closed(rows, h, s, ToSet(b)) /\ \A q \in ToSet(b) : UnderOpen(rows, h, s, q)
  BY EmptyKey, OneSet, IntoHas
<1>5. ToSet(c) \subseteq S /\ Closed(rows, h, s, ToSet(c)) /\ \A q \in ToSet(c) : Resolved(rows, h, s, q) \/ UnderOpen(rows, h, s, q)
  BY NamedKeysHave
<1> HIDE DEF a, b, c, S
<1>6. a \o b \in Seq(S) /\ ToSet(a \o b) = ToSet(a) \cup ToSet(b)
  BY <1>1, ConcatSet
<1> DEFINE ab == a \o b
<1>7. ab \o c \in Seq(S) /\ ToSet(ab \o c) = ToSet(ab) \cup ToSet(c)
  <2>1. ab \in Seq(S)
    BY <1>6
  <2> HIDE DEF ab
  <2> QED BY <1>1, <2>1, ConcatSet
<1>8. K = ToSet(b) \cup ToSet(c)
  BY <1>2, <1>3, <1>6, <1>7
<1> QED BY <1>4, <1>5, <1>8 DEF Closed, S

(* The hidden paths are taken from the shortest on.                          *)
LEMMA ByLengthHas ==
  ASSUME NEW h \in Hierarchy, NEW s \in SpecIn(h)
  PROVE  Ordered(ByLength(s), Shorter(h)) /\ ToSet(ByLength(s)) \subseteq s.drilled
<1> DEFINE n == Len(h)
           parts == [i \in DOMAIN h |-> Sorted({p \in s.drilled : Len(p) = i})]
           R == Shorter(h)
<1>1. n \in Nat /\ DOMAIN h = 1..n /\ s.hier = h
  BY HierIs, SpecIs
<1>2. ASSUME NEW i \in 1..n
      PROVE  parts[i] \in Seq(KeysIn(h)) /\ ToSet(parts[i]) = {p \in s.drilled : Len(p) = i}
  <2> DEFINE keys == {p \in s.drilled : Len(p) = i}
  <2>1. parts[i] = Sorted(keys)
    BY <1>1
  <2>2. keys \in SUBSET s.drilled /\ s.drilled \in SUBSET KeysIn(h) /\ IsFiniteSet(s.drilled)
    BY SpecIs
  <2>3. IsFiniteSet(keys)
    BY <2>2, FS_Subset
  <2>4. \A p \in keys : p \in Keys(i)
    <3> SUFFICES ASSUME NEW p \in keys PROVE p \in Keys(i)
      OBVIOUS
    <3>1. p \in Seq(Int) /\ Len(p) = i
      BY <2>2 DEF KeysIn
    <3> QED BY <3>1 DEF Keys
  <2>a. keys = {p \in s.drilled : Len(p) = i}
    OBVIOUS
  <2> HIDE DEF parts, keys
  <2>5. Sorted(keys) \in Seq(keys) /\ ToSet(Sorted(keys)) = keys
    BY <1>1, <2>3, <2>4, SortedIs
  <2>6. keys \subseteq KeysIn(h)
    BY <2>2
  <2> QED BY <2>1, <2>5, <2>6, <2>a, SeqMonotonic
<1>3. Lists(parts, n, Seq(KeysIn(h)))
  BY <1>1, <1>2 DEF Lists
<1>4. ByLength(s) = FlattenSeq(parts)
  BY <1>1 DEF ByLength
<1>5. s.drilled \in SUBSET KeysIn(h)
  BY SpecIs
<1> HIDE DEF parts
<1>6. ASSUME NEW x \in KeysIn(h), NEW y \in KeysIn(h) PROVE <<x, y>> \in R <=> Len(x) <= Len(y)
  BY DEF Shorter
<1> HIDE DEF R, n
<1>7. ASSUME NEW k \in 1..n PROVE Ordered(parts[k], R)
  <2>1. k \in Nat
    BY <1>1
  <2>2. \A i \in 1..Len(parts[k]) : parts[k][i] \in KeysIn(h) /\ Len(parts[k][i]) = k
    <3> SUFFICES ASSUME NEW i \in 1..Len(parts[k]) PROVE parts[k][i] \in KeysIn(h) /\ Len(parts[k][i]) = k
      OBVIOUS
    <3>1. parts[k][i] \in ToSet(parts[k])
      BY <1>2, InSeq
    <3> QED BY <1>2, <1>5, <3>1
  <2>3. \A x, y \in KeysIn(h) : Len(x) = k /\ Len(y) = k => <<x, y>> \in R
    BY <1>6, <2>1
  <2> QED BY <2>2, <2>3 DEF Ordered
<1>8. ASSUME NEW k \in 1..n, NEW l \in 1..n, k < l PROVE AllBefore(ToSet(parts[k]), ToSet(parts[l]), R)
  <2>1. \A x \in ToSet(parts[k]) : x \in KeysIn(h) /\ Len(x) = k
    BY <1>2, <1>5
  <2>2. \A y \in ToSet(parts[l]) : y \in KeysIn(h) /\ Len(y) = l
    BY <1>2, <1>5
  <2>3. k <= l
    BY <1>1, <1>8
  <2> QED BY <1>6, <2>1, <2>2, <2>3 DEF AllBefore
<1>9. Ordered(FlattenSeq(parts), R)
  BY <1>1, <1>3, <1>7, <1>8, FlatOrdered
<1>10. ToSet(FlattenSeq(parts)) = Joined(parts, n)
  BY <1>1, <1>3, FlatIs
<1>11. Joined(parts, n) \subseteq s.drilled
  BY <1>2 DEF Joined
<1> QED BY <1>4, <1>9, <1>10, <1>11 DEF R

(* The next hidden path keeps that.                                          *)
LEMMA GrownOn ==
  ASSUME NEW rows \in Table, NEW h \in Hierarchy, NEW s \in SpecIn(h), NEW b, b = ByLength(s),
         NEW n \in Nat, n + 1 <= Len(b), NEW keys, Grown(rows, h, s, b, n, keys)
  PROVE  Grown(rows, h, s, b, n + 1, WithHidden(rows, s, keys, b[n + 1]))
<1> DEFINE K == ToSet(keys)
           p == b[n + 1]
           d == Descend(rows, s, p)
           D == ToSet(d)
<1>1. keys \in Seq(KeysIn(h)) /\ Closed(rows, h, s, K)
  BY DEF Grown
<1>2. b \in Seq(KeysIn(h)) /\ Ordered(b, Shorter(h)) /\ ToSet(b) \subseteq s.drilled /\ Len(b) \in Nat
  BY ByLengthIs, ByLengthHas
<1>3. n + 1 \in 1..Len(b) /\ p \in KeysIn(h) /\ p \in ToSet(b)
  BY <1>2, InSeq
<1>4. canon_path(p) = p
  BY <1>2, <1>3, SpecIs, CanonSelf DEF NoneNull
<1>5. d \in Seq(KeysIn(h)) /\ Descended(rows, h, s, p, D)
  BY <1>3, DescendIs, DescendHas
<1>6. K \subseteq KeysIn(h) /\ D \subseteq KeysIn(h)
  BY <1>1, <1>5, InSeq
<1>7. \A m \in 1..Len(b) : m > n + 1 => Len(p) <= Len(b[m])
  <2> SUFFICES ASSUME NEW m \in 1..Len(b), m > n + 1 PROVE Len(p) <= Len(b[m])
    OBVIOUS
  <2>1. n + 1 < m
    BY <1>2
  <2>2. <<b[n + 1], b[m]>> \in Shorter(h)
    BY <1>2, <1>3, <2>1 DEF Ordered
  <2> QED BY <2>2 DEF Shorter
<1>8. WithHidden(rows, s, keys, p) = IF p \in canon_paths(K) THEN keys ELSE keys \o d
  BY DEF WithHidden
<1>9. \A q \in K : Resolved(rows, h, s, q) \/ UnderOpen(rows, h, s, q) \/ Unshown(rows, h, K, b, n, q)
  BY DEF Grown
<1>10. \A y \in KeysIn(h) : Len(y) \in Nat /\ Len(canon_path(y)) = Len(y)
  BY CanonIs
<1> HIDE DEF K, p, d, D
<1>11. CASE p \in canon_paths(K)
  <2>1. \A q : Unshown(rows, h, K, b, n, q) => Unshown(rows, h, K, b, n + 1, q)
    <3> SUFFICES ASSUME NEW q, NEW y \in KeysIn(h), q \in Kids(rows, h, y), canon_path(y) \notin canon_paths(K),
                        \A m \in 1..Len(b) : m > n => Len(y) <= Len(b[m])
                 PROVE  Unshown(rows, h, K, b, n + 1, q)
      BY DEF Unshown
    <3>1. \A m \in 1..Len(b) : m > n + 1 => m > n
      BY <1>2
    <3> QED BY <3>1 DEF Unshown
  <2>2. Grown(rows, h, s, b, n + 1, keys)
    BY <1>1, <1>9, <2>1 DEF Grown, K
  <2> QED BY <1>8, <1>11, <2>2 DEF p
<1>12. CASE p \notin canon_paths(K)
  <2> DEFINE more == keys \o d
             M == K \cup D
  <2>1. more \in Seq(KeysIn(h)) /\ ToSet(more) = M
    BY <1>1, <1>5, ConcatSet DEF K, D
  <2>2. \A q \in D : Len(q) > Len(p)
    BY <1>5 DEF Descended
  <2>3. Len(p) \in Nat
    BY <1>3, <1>10
  <2>4. ASSUME NEW y \in KeysIn(h), canon_path(y) \notin canon_paths(K), Len(y) <= Len(p)
        PROVE  canon_path(y) \notin canon_paths(M)
    <3> SUFFICES ASSUME NEW q \in M, canon_path(q) = canon_path(y) PROVE FALSE
      BY DEF canon_paths
    <3>1. q \in D
      BY <2>4 DEF canon_paths
    <3>2. Len(q) = Len(y) /\ Len(y) \in Nat
      BY <1>6, <1>10, <3>1
    <3> QED BY <2>2, <2>3, <2>4, <3>1, <3>2
  <2>5. ASSUME NEW q, Unshown(rows, h, K, b, n, q) PROVE Unshown(rows, h, M, b, n + 1, q)
    <3>1. PICK y \in KeysIn(h) : /\ q \in Kids(rows, h, y) /\ canon_path(y) \notin canon_paths(K)
                                 /\ \A m \in 1..Len(b) : m > n => Len(y) <= Len(b[m])
      BY <2>5 DEF Unshown
    <3>2. n + 1 > n /\ \A m \in 1..Len(b) : m > n + 1 => m > n
      BY <1>2
    <3>3. Len(y) <= Len(p)
      BY <1>3, <3>1, <3>2 DEF p
    <3>4. canon_path(y) \notin canon_paths(M)
      BY <2>4, <3>1, <3>3
    <3> QED BY <3>1, <3>2, <3>4 DEF Unshown
  <2>6. ASSUME NEW q \in D PROVE UnderOpen(rows, h, s, q) \/ Unshown(rows, h, M, b, n + 1, q)
    <3>1. PICK y \in D \cup {p} : Source(s, p, y) /\ q \in Kids(rows, h, y)
      BY <1>5 DEF Descended
    <3>2. y \in KeysIn(h)
      BY <1>3, <1>6, <3>1
    <3>3. CASE Opens(s, y)
      BY <3>1, <3>2, <3>3 DEF UnderOpen
    <3>4. CASE y = p
      <4>1. Len(p) <= Len(p)
        BY <2>3
      <4>2. canon_path(p) \notin canon_paths(M)
        BY <1>3, <1>4, <1>12, <2>4, <4>1
      <4> QED BY <1>3, <1>7, <3>1, <3>4, <4>2 DEF Unshown
    <3> QED BY <3>1, <3>3, <3>4 DEF Source
  <2>7. Closed(rows, h, s, M)
    BY <1>5, <1>1 DEF Descended, Source, Closed, K
  <2> HIDE DEF more, M
  <2>8. \A q \in M : Resolved(rows, h, s, q) \/ UnderOpen(rows, h, s, q) \/ Unshown(rows, h, M, b, n + 1, q)
    BY <1>9, <2>5, <2>6 DEF M
  <2>9. Grown(rows, h, s, b, n + 1, more)
    BY <2>1, <2>7, <2>8 DEF Grown
  <2> QED BY <1>8, <1>12, <2>9 DEF p, more
<1> QED BY <1>11, <1>12 DEF p

(* All keys of a user hierarchy: children of what is drilled are there,      *)
(* others are named.                                                         *)
LEMMA AllKeysHave ==
  ASSUME NEW rows \in Table, NEW h \in Hierarchy, NEW s \in SpecIn(h), s.flat = {}
  PROVE  Parted(rows, h, s, ToSet(AllKeys(rows, s)))
<1> DEFINE b == ByLength(s)
<1>1. b \in Seq(KeysIn(h)) /\ Len(b) \in Nat
  BY ByLengthIs
<1>2. PICK g : /\ g[0] = ShownKeys(rows, s) /\ AllKeys(rows, s) = g[Len(b)]
               /\ \A n \in 1..Len(b) : g[n] = WithHidden(rows, s, g[n - 1], b[n])
  BY <1>1, HiddenLoop
<1>3. b = ByLength(s)
  OBVIOUS
<1> HIDE DEF b
<1> DEFINE T == {n \in Nat : n <= Len(b) => Grown(rows, h, s, b, n, g[n])}
<1>4. 0 \in T
  <2> DEFINE keys == ShownKeys(rows, s)
             K == ToSet(keys)
  <2>1. keys \in Seq(KeysIn(h))
    BY ShownKeysAre
  <2>2. Closed(rows, h, s, K) /\ \A q \in K : Resolved(rows, h, s, q) \/ UnderOpen(rows, h, s, q)
    BY ShownHave
  <2> HIDE DEF keys
  <2>3. Grown(rows, h, s, b, 0, keys)
    BY <2>1, <2>2 DEF Grown
  <2> QED BY <1>2, <2>3 DEF keys
<1>5. ASSUME NEW n \in Nat, n \in T PROVE n + 1 \in T
  <2> SUFFICES ASSUME n + 1 <= Len(b) PROVE Grown(rows, h, s, b, n + 1, g[n + 1])
    OBVIOUS
  <2>1. n <= Len(b) /\ n + 1 \in 1..Len(b) /\ (n + 1) - 1 = n
    BY <1>1
  <2>2. g[n + 1] = WithHidden(rows, s, g[n], b[n + 1])
    BY <1>2, <2>1
  <2>3. Grown(rows, h, s, b, n, g[n])
    BY <1>5, <2>1
  <2> QED BY <1>3, <2>2, <2>3, GrownOn
<1> HIDE DEF T
<1>6. Nat \subseteq T
  BY <1>4, <1>5, Induction
<1>7. Grown(rows, h, s, b, Len(b), g[Len(b)])
  BY <1>1, <1>6 DEF T
<1> QED BY <1>2, <1>7, InSeq DEF Grown, Parted, Unshown

(* Of the keys with one name the first is emitted.                           *)
LEMMA EmittedHas ==
  ASSUME NEW h \in Hierarchy, NEW keys \in Seq(KeysIn(h))
  PROVE  /\ ToSet(Emitted(keys)) \subseteq ToSet(keys)
         /\ \A k \in ToSet(keys) : \E e \in ToSet(Emitted(keys)) : canon_path(e) = canon_path(k)
<1> DEFINE n == Len(keys)
           again(i) == \E j \in 1..(i - 1) : canon_path(keys[j]) = canon_path(keys[i])
           parts == [i \in DOMAIN keys |-> IF again(i) THEN <<>> ELSE <<keys[i]>>]
<1>1. n \in Nat /\ DOMAIN keys = 1..n /\ (\A i \in 1..n : keys[i] \in KeysIn(h)) /\ ToSet(keys) = {keys[i] : i \in 1..n}
  BY InSeq
<1>2. ASSUME NEW i \in 1..n
      PROVE  parts[i] \in Seq(KeysIn(h)) /\ ToSet(parts[i]) = IF again(i) THEN {} ELSE {keys[i]}
  <2>1. parts[i] = IF again(i) THEN <<>> ELSE <<keys[i]>>
    BY <1>1
  <2> HIDE DEF parts, again
  <2>2. <<>> \in Seq(KeysIn(h)) /\ <<keys[i]>> \in Seq(KeysIn(h)) /\ ToSet(<<>>) = {} /\ ToSet(<<keys[i]>>) = {keys[i]}
    BY <1>1, OneSet
  <2> QED BY <2>1, <2>2
<1>3. Lists(parts, n, Seq(KeysIn(h)))
  BY <1>1, <1>2 DEF Lists
<1>4. Emitted(keys) = FlattenSeq(parts)
  BY DEF Emitted
<1> HIDE DEF parts, n
<1>5. ToSet(Emitted(keys)) = Joined(parts, n)
  BY <1>1, <1>3, <1>4, FlatIs
<1>6. ToSet(Emitted(keys)) \subseteq ToSet(keys)
  <2> SUFFICES ASSUME NEW x \in Joined(parts, n) PROVE x \in ToSet(keys)
    BY <1>5
  <2>1. PICK i \in 1..n : x \in ToSet(parts[i])
    BY DEF Joined
  <2>2. x = keys[i]
    <3>1. x \in IF again(i) THEN {} ELSE {keys[i]}
      BY <1>2, <2>1
    <3> HIDE DEF again
    <3> QED BY <3>1
  <2> QED BY <1>1, <2>2
<1>7. ASSUME NEW k \in ToSet(keys) PROVE \E e \in ToSet(Emitted(keys)) : canon_path(e) = canon_path(k)
  <2> DEFINE I == {i \in 1..n : canon_path(keys[i]) = canon_path(k)}
  <2>1. I \in SUBSET Nat /\ I # {}
    BY <1>1, <1>7
  <2>2. PICK i \in I : \A j \in I : i <= j
    <3> HIDE DEF I
    <3> QED BY <2>1, LeastNat
  <2>3. i \in 1..n /\ canon_path(keys[i]) = canon_path(k)
    BY <2>2
  <2>4. ~ again(i)
    <3> SUFFICES ASSUME NEW j \in 1..(i - 1), canon_path(keys[j]) = canon_path(keys[i]) PROVE FALSE
      OBVIOUS
    <3>1. j \in 1..n /\ ~ (i <= j)
      BY <1>1, <2>3
    <3> QED BY <2>2, <2>3, <3>1
  <2>5. keys[i] \in Joined(parts, n)
    BY <1>2, <2>3, <2>4 DEF Joined
  <2> QED BY <1>5, <2>3, <2>5
<1> QED BY <1>6, <1>7

(* A key is in the data when a row has it.                                   *)
LEMMA InDataIs ==
  ASSUME NEW rows \in Table, NEW h \in Hierarchy, NEW q \in KeysIn(h)
  PROVE  InData(rows, h, q) <=> \E r \in rows : \A i \in 1..Len(q) : q[i] = r[h[i]]
<1> DEFINE k == Len(q)
           levels == SubSeq(h, 1, k)
<1>1. k \in 0..Len(h) /\ k \in Nat /\ q \in Seq(Int)
  BY KeyIs
<1>2. levels \in Seq(Field) /\ Len(levels) = k /\ \A i \in 1..k : levels[i] = h[i]
  BY <1>1, PrefixIs
<1>3. InData(rows, h, q) <=> \E r \in rows : q = Along(levels, r)
  BY DEF InData, _run
<1> HIDE DEF levels
<1>4. ASSUME NEW r \in rows PROVE q = Along(levels, r) <=> \A i \in 1..k : q[i] = r[h[i]]
  <2> DEFINE a == Along(levels, r)
  <2>1. r \in [Field -> Value \cup {Null}]
    BY DEF Table
  <2>2. a \in Seq(Int) /\ Len(a) = k /\ \A i \in 1..k : a[i] = r[h[i]]
    BY <1>2, <2>1, AlongIs
  <2> HIDE DEF a, k
  <2>3. q = a <=> \A i \in 1..k : q[i] = a[i]
    BY <1>1, <2>2, SameSeq DEF k
  <2> QED BY <2>2, <2>3 DEF a
<1> QED BY <1>3, <1>4

(* Without NULL beside the empty text, one name is one key.                  *)
LEMMA SameName ==
  ASSUME NEW rows \in Table, NEW h \in Hierarchy, ~ OneName(rows, h), NEW e \in KeysIn(h), NEW q \in KeysIn(h),
         InData(rows, h, e), InData(rows, h, q), canon_path(e) = canon_path(q)
  PROVE  e = q
<1> DEFINE k == Len(q)
<1>1. /\ e \in Seq(Int) /\ q \in Seq(Int) /\ Len(e) = k /\ k \in 0..Len(h)
      /\ \A i \in 1..k : e[i] \in Int /\ q[i] \in Int /\ i \in 1..Len(h) /\ Text(e[i]) = Text(q[i])
  BY CanonIs, KeyIs
<1>2. PICK r \in rows : \A i \in 1..k : q[i] = r[h[i]]
  BY InDataIs
<1>3. PICK x \in rows : \A i \in 1..k : e[i] = x[h[i]]
  BY <1>1, InDataIs
<1>4. ASSUME NEW i \in 1..k PROVE e[i] = q[i]
  <2> SUFFICES ASSUME e[i] # q[i] PROVE FALSE
    OBVIOUS
  <2>1. {e[i], q[i]} = {Null, Blank}
    BY <1>1 DEF Text
  <2>2. h[i] \in ToSet(h)
    BY <1>1, HierIs, InSeq
  <2>3. {Null, Blank} \subseteq {y[h[i]] : y \in rows}
    BY <1>2, <1>3, <2>1
  <2> QED BY <2>2, <2>3 DEF OneName
<1> HIDE DEF k
<1> QED BY <1>1, <1>4, SameSeq DEF k

(* What the emitted keys show: all children of a drilled member, and under   *)
(* others none but named ones.                                               *)
LEMMA UserKeys ==
  ASSUME NEW rows \in Table, NEW h \in Hierarchy, NEW s \in SpecIn(h), s.flat = {},
         NEW E, E = ToSet(Emitted(AllKeys(rows, s)))
  PROVE  /\ E \subseteq KeysIn(h)
         /\ ~ OneName(rows, h) => \A k \in E : Opens(s, k) => Kids(rows, h, k) \subseteq E
         /\ \A k, p \in E : Step(k, p) /\ ~ Opens(s, k) => canon_path(p) \in ToSet(s.paths)
<1> DEFINE keys == AllKeys(rows, s)
           K == ToSet(keys)
<1>1. keys \in Seq(KeysIn(h)) /\ Parted(rows, h, s, K)
  BY AllKeysAre, AllKeysHave
<1> HIDE DEF keys
<1>2. E \subseteq K /\ \A k \in K : \E e \in E : canon_path(e) = canon_path(k)
  BY <1>1, EmittedHas DEF keys
<1>3. /\ K \subseteq KeysIn(h) /\ Closed(rows, h, s, K)
      /\ \A q \in K :
           \/ Resolved(rows, h, s, q) \/ UnderOpen(rows, h, s, q)
           \/ \E y \in KeysIn(h) : q \in Kids(rows, h, y) /\ canon_path(y) \notin canon_paths(K)
  BY <1>1 DEF Parted
<1>4. s.paths \in Seq(PathsIn(h)) /\ ToSet(s.paths) \subseteq PathsIn(h)
  BY SpecIs, InSeq
<1> HIDE DEF K
<1>5. ASSUME ~ OneName(rows, h), NEW k \in E, Opens(s, k), NEW q \in Kids(rows, h, k) PROVE q \in E
  <2>1. q \in K
    BY <1>2, <1>3, <1>5 DEF Closed
  <2>2. InData(rows, h, q) /\ q \in KeysIn(h)
    BY <1>2, <1>3, KidLength DEF IsKid
  <2>3. PICK e \in E : canon_path(e) = canon_path(q)
    BY <1>2, <2>1
  <2>4. e \in K /\ e \in KeysIn(h)
    BY <1>2, <1>3
  <2>5. CASE Resolved(rows, h, s, e)
    <3>1. PICK p \in PathsIn(h) : e = _resolve_path(rows, h, p)
      BY <1>4, <2>5 DEF Resolved
    <3>2. canon_path(e) = p /\ (InData(rows, h, q) /\ canon_path(q) = p => InData(rows, h, e))
      BY <2>2, <3>1, ResolvedHas
    <3> QED BY <1>5, <2>2, <2>3, <2>4, <3>2, SameName
  <2>6. CASE \E y \in KeysIn(h) : e \in Kids(rows, h, y)
    BY <2>6, KidLength, <1>5, <2>2, <2>3, <2>4, SameName DEF IsKid
  <2> QED BY <1>3, <2>4, <2>5, <2>6 DEF UnderOpen
<1>6. ASSUME NEW k \in E, NEW p \in E, Step(k, p), ~ Opens(s, k) PROVE canon_path(p) \in ToSet(s.paths)
  <2>1. k \in K /\ p \in K /\ k \in KeysIn(h) /\ p \in KeysIn(h)
    BY <1>2, <1>3
  <2>2. ASSUME NEW y \in KeysIn(h), p \in Kids(rows, h, y) PROVE canon_path(y) = canon_path(k)
    <3>1. Len(p) = Len(y) + 1 /\ \A i \in 1..Len(y) : Text(p[i]) = Text(y[i])
      BY <2>2, KidLength DEF IsKid
    <3>2. Len(k) = Len(y) /\ Len(y) \in Nat
      BY <1>6, <2>1, <3>1, KeyIs DEF Step
    <3>3. \A i \in 1..Len(y) : Text(y[i]) = Text(k[i])
      BY <1>6, <3>1, <3>2 DEF Step
    <3>4. DOMAIN y = 1..Len(y) /\ DOMAIN k = 1..Len(y)
      BY <2>1, <3>2, KeyIs
    <3> QED BY <3>3, <3>4 DEF canon_path
  <2>3. CASE Resolved(rows, h, s, p)
    <3>1. PICK x \in ToSet(s.paths) : p = _resolve_path(rows, h, x)
      BY <2>3 DEF Resolved
    <3> QED BY <1>4, <3>1, ResolvedHas
  <2>4. CASE UnderOpen(rows, h, s, p)
    <3>1. PICK y \in KeysIn(h) : Opens(s, y) /\ p \in Kids(rows, h, y)
      BY <2>4 DEF UnderOpen
    <3> QED BY <1>6, <2>2, <3>1 DEF Opens
  <2>5. CASE \E y \in KeysIn(h) : p \in Kids(rows, h, y) /\ canon_path(y) \notin canon_paths(K)
    BY <2>1, <2>2, <2>5 DEF canon_paths
  <2> QED BY <1>3, <2>1, <2>3, <2>4, <2>5
<1>7. E \subseteq KeysIn(h)
  BY <1>2, <1>3
<1> QED BY <1>5, <1>6, <1>7

(* The same of the members of a user hierarchy.                              *)
LEMMA UserColumn ==
  ASSUME NEW rows \in Table, NEW h \in Hierarchy, NEW s \in SpecIn(h), s.flat = {}
  PROVE  Told(rows, h, s, ToSet(_userhier_members(rows, s)))
<1> DEFINE top == IF s.all THEN << <<>> >> ELSE <<>>
           em == Emitted(AllKeys(rows, s))
           E == ToSet(em)
           keys == top \o em
           f == [i \in DOMAIN keys |-> UserMemberOf(s, keys[i])]
           M == ToSet(_userhier_members(rows, s))
<1>1. top \in Seq(KeysIn(h)) /\ ToSet(top) \subseteq {<<>>}
  BY EmptyKey, OneSet
<1>2. em \in Seq(KeysIn(h))
  BY AllKeysAre, EmittedIs
<1>3. /\ E \subseteq KeysIn(h)
      /\ ~ OneName(rows, h) => \A k \in E : Opens(s, k) => Kids(rows, h, k) \subseteq E
      /\ \A k, p \in E : Step(k, p) /\ ~ Opens(s, k) => canon_path(p) \in ToSet(s.paths)
  BY UserKeys
<1>4. _userhier_members(rows, s) = f
  BY DEF _userhier_members
<1> HIDE DEF top, em
<1>5. keys \in Seq(KeysIn(h)) /\ ToSet(keys) = ToSet(top) \cup E
  BY <1>1, <1>2, ConcatSet
<1> HIDE DEF keys, E
<1>6. M = {UserMemberOf(s, k) : k \in ToSet(keys)}
  <2>1. DOMAIN keys = 1..Len(keys) /\ ToSet(keys) = {keys[i] : i \in 1..Len(keys)}
    BY <1>5, InSeq
  <2>2. ToSet(f) = {UserMemberOf(s, keys[i]) : i \in 1..Len(keys)}
    BY <2>1 DEF ToSet
  <2> HIDE DEF f
  <2> QED BY <1>4, <2>1, <2>2
<1>7. s.hier = h
  BY SpecIs
<1>8. ASSUME NEW k PROVE /\ UserMemberOf(s, k).path = k /\ UserMemberOf(s, k).hier = h
                         /\ UserMemberOf(s, k).drilled = (Len(k) < Len(h) /\ Opens(s, k))
  BY <1>7 DEF UserMemberOf, Member, Opens
<1> HIDE DEF M
<1>9. ASSUME NEW m \in M
      PROVE  /\ m.path \in KeysIn(h) /\ m.hier = h /\ m = UserMemberOf(s, m.path)
             /\ m.drilled = (Len(m.path) < Len(h) /\ Opens(s, m.path))
             /\ m.path # <<>> => m.path \in E
  <2>1. PICK k \in ToSet(keys) : m = UserMemberOf(s, k)
    BY <1>6
  <2>2. m.path = k /\ k \in KeysIn(h)
    BY <1>1, <1>3, <1>5, <1>8, <2>1, InSeq
  <2>3. k # <<>> => k \in E
    BY <1>1, <1>5
  <2> QED BY <1>8, <2>1, <2>2, <2>3
<1>10. ASSUME NEW m \in M, m.path # <<>>, m.drilled, ~ OneName(rows, h), NEW q \in KeysIn(h), IsKid(rows, h, m.path, q)
       PROVE  UserMemberOf(s, q) \in M
  BY <1>9, <1>10, KidsAre, <1>3, <1>5, <1>6
<1>11. ASSUME NEW m \in M, NEW l \in M, m.path # <<>>, ~ m.drilled, Step(m.path, l.path)
       PROVE  canon_path(l.path) \in ToSet(s.paths)
  <2>1. m.path \in E /\ m.path \in KeysIn(h) /\ l.path \in KeysIn(h)
    BY <1>9, <1>11
  <2>2. Len(l.path) = Len(m.path) + 1 /\ Len(m.path) \in Nat /\ Len(l.path) \in 0..Len(h) /\ Len(h) \in Nat
    BY <1>11, <2>1, KeyIs, HierIs DEF Step
  <2>3. Len(m.path) < Len(h)
    BY <2>2
  <2>4. ~ Opens(s, m.path)
    BY <1>9, <1>11, <2>3
  <2>5. l.path # <<>>
    BY <2>2
  <2>6. l.path \in E
    BY <1>9, <2>5
  <2> QED BY <1>3, <1>11, <2>1, <2>4, <2>6
<1>12. Told(rows, h, s, M)
  BY <1>9, <1>10, <1>11 DEF Told
<1> QED BY <1>12 DEF M

(* What is on an axis.                                                       *)

(* The elements of a list.                                                   *)
LEMMA ListSet ==
  ASSUME NEW n \in Nat, NEW s, s = [i \in 1..n |-> s[i]]
  PROVE  Len(s) = n /\ DOMAIN s = 1..n /\ ToSet(s) = {s[i] : i \in 1..n}
<1>1. DOMAIN s = 1..n
  OBVIOUS
<1>2. ToSet(s) = {s[i] : i \in 1..n}
  BY <1>1, Zenon DEF ToSet
<1> DEFINE S == {s[i] : i \in 1..n}
<1>3. Lists(s, n, S)
  BY DEF Lists
<1> HIDE DEF S
<1>4. Len(s) = n
  BY <1>3, ListIs
<1> QED BY <1>1, <1>2, <1>4

(* The tuples of an axis are those of its columns that occur.                *)
LEMMA CrossedHas ==
  ASSUME NEW rows \in Table, NEW st, StateOK(st), NEW t
  PROVE  t \in ToSet(Crossed(rows, Columns(rows, Specs(st)), Specs(st))) <=>
           Row(t, Columns(rows, Specs(st)), Len(st.order)) /\ Occurs(rows, Specs(st), Assigned(t))
<1> DEFINE n == Len(st.order)
           columns == Columns(rows, Specs(st))
           S == UNION {DOMAIN columns[i] : i \in DOMAIN columns}
           at(ix) == [i \in DOMAIN columns |-> columns[i][ix[i]]]
           ok(u) == Occurs(rows, Specs(st), Assigned(u))
           places == {ix \in [DOMAIN columns -> S] :
                        (\A i \in DOMAIN columns : ix[i] \in DOMAIN columns[i]) /\ ok(at(ix))}
           order == Sorted(places)
           f == [k \in DOMAIN order |-> at(order[k])]
<1>1. n \in Nat /\ DOMAIN columns = 1..n /\ \A i \in 1..n : columns[i] \in Seq(Mems(st.order[i])) /\ st.order[i] \in Hierarchy
  BY SpecsAre, ColumnsAre
<1>2. Crossed(rows, columns, Specs(st)) = f
  BY DEF Crossed
<1> HIDE DEF columns
<1>a. \A i \in 1..n : /\ DOMAIN columns[i] = 1..Len(columns[i]) /\ Len(columns[i]) \in Nat
                      /\ ToSet(columns[i]) = {columns[i][j] : j \in 1..Len(columns[i])}
  BY <1>1, InSeq
<1>3. IsFiniteSet(S) /\ S \subseteq Int
  <2> DEFINE doms == {DOMAIN columns[i] : i \in DOMAIN columns}
             g == [i \in 1..n |-> DOMAIN columns[i]]
  <2>1. g \in Surjection(1..n, doms)
    BY <1>1 DEF Surjection
  <2>2. IsFiniteSet(1..n)
    BY <1>1, FS_Interval
  <2> HIDE DEF g
  <2>3. IsFiniteSet(doms)
    BY <2>1, <2>2, FS_Surjection
  <2>4. \A D \in doms : IsFiniteSet(D) /\ D \subseteq Int
    BY FS_Interval, <1>1, <1>a
  <2> HIDE DEF doms
  <2>5. IsFiniteSet(UNION doms) /\ UNION doms \subseteq Int
    BY <2>3, <2>4, FS_UNION
  <2> QED BY <2>5 DEF doms
<1>4. IsFiniteSet(places) /\ places \in SUBSET Keys(n)
  <2>1. IsFiniteSet(1..n)
    BY <1>1, FS_Interval
  <2> HIDE DEF S
  <2>2. IsFiniteSet([1..n -> S])
    BY <1>3, <2>1, FiniteFunctions
  <2> HIDE DEF ok
  <2>3. places \in SUBSET [1..n -> S]
    BY <1>1
  <2>4. [1..n -> S] \subseteq Keys(n)
    BY <1>3 DEF Keys
  <2> HIDE DEF places
  <2> QED BY <2>2, <2>3, <2>4, FS_Subset
<1> HIDE DEF ok
<1>5. \A ix : ix \in places <=> ix \in [1..n -> S] /\ (\A i \in 1..n : ix[i] \in DOMAIN columns[i]) /\ ok(at(ix))
  BY <1>1
<1> HIDE DEF places
<1>6. ToSet(order) = places
  BY <1>1, <1>4, SortedIs
<1>7. order \in Seq(places)
  BY <1>1, <1>4, SortedIs
<1> HIDE DEF order
<1>8. ToSet(f) = {at(ix) : ix \in places}
  <2>1. DOMAIN order = 1..Len(order) /\ ToSet(order) = {order[k] : k \in 1..Len(order)}
    BY <1>7, InSeq
  <2>2. ToSet(f) = {at(order[k]) : k \in 1..Len(order)}
    BY <2>1, Zenon DEF ToSet
  <2> HIDE DEF f, at
  <2> QED BY <1>6, <2>1, <2>2
<1> HIDE DEF f
<1>9. ASSUME NEW ix \in places, t = at(ix) PROVE Row(t, columns, n) /\ ok(t)
  BY <1>1, <1>5, <1>9, <1>a DEF Row
<1>10. ASSUME Row(t, columns, n), ok(t) PROVE \E ix \in places : t = at(ix)
  <2> DEFINE ix == [i \in 1..n |-> CHOOSE j \in DOMAIN columns[i] : columns[i][j] = t[i]]
  <2>1. ASSUME NEW i \in 1..n PROVE ix[i] \in DOMAIN columns[i] /\ columns[i][ix[i]] = t[i]
    <3>1. \E j \in DOMAIN columns[i] : columns[i][j] = t[i]
      BY <1>a, <1>10 DEF Row
    <3>2. ix[i] = CHOOSE j \in DOMAIN columns[i] : columns[i][j] = t[i]
      OBVIOUS
    <3> HIDE DEF ix
    <3> QED BY <3>1, <3>2
  <2>2. \A i \in 1..n : ix[i] \in S
    <3>1. \A i \in 1..n : DOMAIN columns[i] \subseteq S
      BY <1>1
    <3> HIDE DEF ix, S
    <3> QED BY <2>1, <3>1
  <2>a. ix = [i \in 1..n |-> ix[i]]
    OBVIOUS
  <2> HIDE DEF ix, S
  <2>3. ix \in [1..n -> S]
    BY <2>2, <2>a
  <2>4. at(ix) = t
    BY <1>1, <2>1, <1>10 DEF Row
  <2>5. ix \in places
    BY <1>5, <1>10, <2>1, <2>3, <2>4
  <2> QED BY <2>4, <2>5
<1>11. t \in ToSet(f) <=> \E ix \in places : t = at(ix)
  BY <1>8
<1> HIDE DEF at
<1>12. t \in ToSet(f) <=> Row(t, columns, n) /\ ok(t)
  BY <1>9, <1>10, <1>11
<1> QED BY <1>2, <1>12 DEF ok, columns

(* A tuple with its measures.                                                *)
LEMMA MeasuredHas ==
  ASSUME NEW t, NEW has \in BOOLEAN, NEW measures \in Seq(Nat), NEW a
  PROVE  a \in ToSet(Measured(t, has, measures)) <=>
           IF has THEN \E m \in ToSet(measures) : a = [members |-> t, measure |-> m]
           ELSE t # <<>> /\ a = [members |-> t, measure |-> NoMetric]
<1> DEFINE n == Len(measures)
           with(m) == [members |-> t, measure |-> m]
           f == [k \in DOMAIN measures |-> with(measures[k])]
<1>1. n \in Nat /\ DOMAIN measures = 1..n /\ ToSet(measures) = {measures[k] : k \in 1..n}
  BY InSeq
<1>2. ToSet(f) = {with(measures[k]) : k \in 1..n}
  BY <1>1, Zenon DEF ToSet
<1>3. Measured(t, has, measures) = IF has THEN f ELSE IF t # <<>> THEN <<with(NoMetric)>> ELSE <<>>
  BY DEF Measured
<1>4. ToSet(<<with(NoMetric)>>) = {with(NoMetric)} /\ ToSet(<<>>) = {}
  BY OneSet
<1> HIDE DEF f, with
<1>5. CASE has
  BY <1>1, <1>2, <1>3, <1>5 DEF with
<1>6. CASE ~ has
  BY <1>3, <1>4, <1>6 DEF with
<1> QED BY <1>5, <1>6

(* All tuples with their measures.                                           *)
LEMMA EachMeasuredHas ==
  ASSUME NEW S, NEW ts \in Seq(S), NEW has, NEW measures \in Seq(Nat), NEW a
  PROVE  a \in ToSet(EachMeasured(ts, has, measures)) <=>
           \E t \in ToSet(ts) : a \in ToSet(Measured(t, has, measures))
<1> DEFINE n == Len(ts)
           parts == [i \in DOMAIN ts |-> Measured(ts[i], has, measures)]
           A == [members : S, measure : Nat]
<1>1. n \in Nat /\ DOMAIN ts = 1..n /\ (\A i \in 1..n : ts[i] \in S) /\ ToSet(ts) = {ts[i] : i \in 1..n}
  BY InSeq
<1>2. \A i \in 1..n : Measured(ts[i], has, measures) \in Seq(A)
  <2> HIDE DEF n
  <2> QED BY <1>1, MeasuredIs
<1> HIDE DEF A
<1>3. Lists(parts, n, Seq(A))
  BY <1>1, <1>2 DEF Lists
<1>4. EachMeasured(ts, has, measures) = FlattenSeq(parts)
  BY DEF EachMeasured
<1>5. \A i \in 1..n : parts[i] = Measured(ts[i], has, measures)
  BY <1>1
<1> HIDE DEF parts, n
<1>6. ToSet(FlattenSeq(parts)) = Joined(parts, n)
  BY <1>1, <1>3, FlatIs
<1>7. a \in Joined(parts, n) <=> \E i \in 1..n : a \in ToSet(parts[i])
  BY DEF Joined
<1>8. (\E i \in 1..n : a \in ToSet(parts[i])) <=> \E i \in 1..n : a \in ToSet(Measured(ts[i], has, measures))
  BY <1>5
<1> HIDE DEF Measured
<1> QED BY <1>1, <1>4, <1>6, <1>7, <1>8

(* A measure beside one tuple is beside all of them.                         *)
LEMMA TuplesHave ==
  ASSUME NEW rows \in Table, NEW st, StateOK(st), NEW measures \in Seq(Nat),
         NEW a \in ToSet(Tuples(rows, st, measures)),
         NEW C, C = ToSet(Crossed(rows, Columns(rows, Specs(st)), Specs(st)))
  PROVE  /\ a \in AxisTup(st) /\ a.members \in C
         /\ \A u \in C : u # <<>> => [members |-> u, measure |-> a.measure] \in ToSet(Tuples(rows, st, measures))
<1> DEFINE ts == Crossed(rows, Columns(rows, Specs(st)), Specs(st))
           has == st.measures # <<>>
           X == ToSet(Tuples(rows, st, measures))
<1>1. ts \in Seq(TupSet(st)) /\ has \in BOOLEAN /\ C = ToSet(ts)
  BY CrossedAre
<1>2. Tuples(rows, st, measures) = EachMeasured(ts, has, measures)
  BY DEF Tuples
<1>3. a \in AxisTup(st)
  BY TuplesAre, InSeq
<1> HIDE DEF ts, has
<1>4. \A x : x \in X <=> \E t \in C : x \in ToSet(Measured(t, has, measures))
  BY <1>1, <1>2, EachMeasuredHas
<1> HIDE DEF X
<1>5. PICK t \in C : a \in ToSet(Measured(t, has, measures))
  BY <1>4 DEF X
<1>6. a.members = t /\ IF has THEN a.measure \in ToSet(measures) ELSE a.measure = NoMetric
  BY <1>1, <1>5, MeasuredHas
<1>7. ASSUME NEW u \in C, u # <<>> PROVE [members |-> u, measure |-> a.measure] \in X
  <2> DEFINE b == [members |-> u, measure |-> a.measure]
  <2>1. IF has THEN \E m \in ToSet(measures) : b = [members |-> u, measure |-> m]
        ELSE u # <<>> /\ b = [members |-> u, measure |-> NoMetric]
    BY <1>6, <1>7
  <2>2. b \in ToSet(Measured(u, has, measures))
    <3> HIDE DEF b
    <3> QED BY <1>1, <2>1, MeasuredHas
  <2> QED BY <1>4, <2>2
<1> QED BY <1>3, <1>5, <1>6, <1>7 DEF X

(* What a tuple assigns.                                                     *)

(* The last one that assigns a field has it.                                 *)
LEMMA AssignedHas ==
  ASSUME NEW n \in Nat, NEW L, DOMAIN L = 1..n
  PROVE  /\ \A f : f \in DOMAIN Assigned(L) <=> Gives(L, n, f) # {}
         /\ \A f \in DOMAIN Assigned(L) :
              /\ Assigned(L)[f] = L[CHOOSE i \in Gives(L, n, f) : \A j \in Gives(L, n, f) : j <= i].assignment[f]
              /\ (CHOOSE i \in Gives(L, n, f) : \A j \in Gives(L, n, f) : j <= i) \in Gives(L, n, f)
<1> DEFINE has(f) == {i \in DOMAIN L : f \in DOMAIN L[i].assignment}
           last(f) == CHOOSE i \in has(f) : \A j \in has(f) : j <= i
           U == UNION {DOMAIN L[i].assignment : i \in DOMAIN L}
           A == [f \in U |-> L[last(f)].assignment[f]]
<1>1. Assigned(L) = A
  BY DEF Assigned
<1>2. \A f : has(f) = Gives(L, n, f)
  BY DEF Gives
<1>3. DOMAIN A = U /\ \A f \in U : A[f] = L[last(f)].assignment[f]
  OBVIOUS
<1>4. \A f : f \in U <=> has(f) # {}
  OBVIOUS
<1> HIDE DEF A, U, has
<1>5. ASSUME NEW f \in U PROVE last(f) \in has(f)
  <2> DEFINE S == has(f)
  <2>1. S \in SUBSET (1..n) /\ S # {}
    BY <1>2, <1>4 DEF Gives
  <2> HIDE DEF S
  <2>2. \E i \in S : \A j \in S : j <= i
    BY <2>1, Greatest
  <2> QED BY <2>2 DEF S
<1>6. \A f : last(f) = CHOOSE i \in Gives(L, n, f) : \A j \in Gives(L, n, f) : j <= i
  BY <1>2
<1> HIDE DEF last
<1> QED BY <1>1, <1>2, <1>3, <1>4, <1>5, <1>6

(* A member assigns the fields of its path.                                  *)
LEMMA MemGives ==
  ASSUME NEW m \in AnyMem
  PROVE  /\ DOMAIN m.assignment = {m.hier[j] : j \in 1..Len(m.path)} /\ DOMAIN m.assignment \subseteq ToSet(m.hier)
         /\ \A j \in 1..Len(m.path) : m.assignment[m.hier[j]] = m.path[j] /\ m.hier[j] \in ToSet(m.hier)
         /\ m.hier \in Hierarchy /\ m.path \in KeysIn(m.hier)
<1>1. m.hier \in Hierarchy /\ m \in Mems(m.hier)
  BY AnyMemIs
<1>2. /\ m.path \in KeysIn(m.hier) /\ DOMAIN m.assignment = {m.hier[j] : j \in 1..Len(m.path)}
      /\ \A j \in 1..Len(m.path) : m.assignment[m.hier[j]] = m.path[j]
  BY <1>1, MemIs
<1>3. \A j \in 1..Len(m.path) : j \in 1..Len(m.hier)
  BY <1>1, <1>2, KeyIs
<1>4. \A j \in 1..Len(m.path) : m.hier[j] \in ToSet(m.hier)
  BY <1>1, <1>3, HierIs DEF ToSet
<1> QED BY <1>1, <1>2, <1>4

(* The same of one level.                                                    *)
LEMMA MemGivesAt ==
  ASSUME NEW m \in AnyMem, NEW j \in 1..Len(m.path)
  PROVE  /\ m.assignment[m.hier[j]] = m.path[j] /\ m.hier[j] \in ToSet(m.hier)
         /\ m.hier[j] \in DOMAIN m.assignment
  BY MemGives

(* Fields of a hierarchy that shares none are assigned by its member.        *)
LEMMA AssignedAt ==
  ASSUME NEW n \in Nat, NEW L, Tup(L, n), NEW i \in 1..n, Alone(L, n, i), NEW f \in ToSet(L[i].hier)
  PROVE  /\ f \in DOMAIN Assigned(L) <=> f \in DOMAIN L[i].assignment
         /\ f \in DOMAIN L[i].assignment => Assigned(L)[f] = L[i].assignment[f]
<1> DEFINE G == Gives(L, n, f)
           k == CHOOSE j \in G : \A l \in G : l <= j
<1>1. DOMAIN L = 1..n /\ \A j \in 1..n : L[j] \in AnyMem
  BY DEF Tup
<1>2. G \subseteq {i} /\ (i \in G <=> f \in DOMAIN L[i].assignment)
  <2>1. \A j \in G : j \in 1..n /\ f \in ToSet(L[j].hier)
    <3> SUFFICES ASSUME NEW j \in G PROVE j \in 1..n /\ f \in ToSet(L[j].hier)
      OBVIOUS
    <3>1. j \in 1..n /\ f \in DOMAIN L[j].assignment
      BY DEF Gives
    <3> QED BY <1>1, <3>1, MemGives
  <2>2. G \subseteq {i}
    BY <2>1 DEF Alone
  <2> QED BY <2>2 DEF Gives
<1> HIDE DEF G
<1>3. f \in DOMAIN Assigned(L) <=> G # {}
  BY <1>1, AssignedHas DEF G
<1>4. f \in DOMAIN Assigned(L) => Assigned(L)[f] = L[k].assignment[f] /\ k \in G
  BY <1>1, AssignedHas DEF G
<1> HIDE DEF k
<1> QED BY <1>2, <1>3, <1>4

(* Other members assign the other fields as before.                          *)
LEMMA AssignedElse ==
  ASSUME NEW n \in Nat, NEW L, Tup(L, n), NEW M, Tup(M, n), NEW i \in 1..n, M[i].hier = L[i].hier,
         \A j \in 1..n : j # i => M[j] = L[j], NEW f, f \notin ToSet(L[i].hier)
  PROVE  /\ f \in DOMAIN Assigned(L) <=> f \in DOMAIN Assigned(M)
         /\ f \in DOMAIN Assigned(L) => Assigned(L)[f] = Assigned(M)[f]
<1> DEFINE G == Gives(L, n, f)
           k == CHOOSE j \in G : \A l \in G : l <= j
<1>1. DOMAIN L = 1..n /\ DOMAIN M = 1..n /\ L[i] \in AnyMem /\ M[i] \in AnyMem
  BY DEF Tup
<1>2. f \notin DOMAIN L[i].assignment /\ f \notin DOMAIN M[i].assignment
  BY <1>1, MemGives
<1>3. Gives(M, n, f) = G /\ i \notin G /\ G \subseteq 1..n
  BY <1>2 DEF Gives
<1> HIDE DEF G
<1>4. f \in DOMAIN Assigned(L) <=> G # {}
  BY <1>1, AssignedHas DEF G
<1>5. f \in DOMAIN Assigned(M) <=> G # {}
  BY <1>1, <1>3, AssignedHas
<1>6. f \in DOMAIN Assigned(L) => Assigned(L)[f] = L[k].assignment[f] /\ k \in G
  BY <1>1, AssignedHas DEF G
<1>7. f \in DOMAIN Assigned(M) => Assigned(M)[f] = M[k].assignment[f]
  BY <1>1, AssignedHas, <1>3
<1> HIDE DEF k
<1> QED BY <1>3, <1>4, <1>5, <1>6, <1>7

(* The rows of a tuple.                                                      *)
LEMMA OccurringIs == \A rows, A : Occurring(rows, A) = {r \in rows : Agrees(r, A)}
  BY DEF Occurring, Agrees

(* A member is replaced by one that is a level below it.                     *)
LEMMA OneDeeper ==
  ASSUME NEW n \in Nat, NEW L, Tup(L, n), NEW M, Tup(M, n), NEW i \in 1..n, M[i].hier = L[i].hier,
         \A j \in 1..n : j # i => M[j] = L[j], Alone(L, n, i), Step(L[i].path, M[i].path), NEW r
  PROVE  Agrees(r, Assigned(M)) <=>
           Agrees(r, Assigned(L)) /\ \A j \in 1..Len(M[i].path) : M[i].path[j] = r[M[i].hier[j]]
<1> DEFINE h == L[i].hier
           k == L[i].path
           q == M[i].path
           F == ToSet(h)
<1>1. L[i] \in AnyMem /\ M[i] \in AnyMem
  BY DEF Tup
<1>2. /\ DOMAIN L[i].assignment = {h[j] : j \in 1..Len(k)} /\ \A j \in 1..Len(k) : L[i].assignment[h[j]] = k[j] /\ h[j] \in F
  BY <1>1, MemGives
<1>3. /\ DOMAIN M[i].assignment = {h[j] : j \in 1..Len(q)} /\ \A j \in 1..Len(q) : M[i].assignment[h[j]] = q[j] /\ h[j] \in F
  BY <1>1, MemGives
<1>4. Alone(M, n, i)
  BY DEF Alone
<1>5. /\ \A f \in F : f \in DOMAIN Assigned(L) <=> f \in DOMAIN L[i].assignment
      /\ \A f \in F : f \in DOMAIN L[i].assignment => Assigned(L)[f] = L[i].assignment[f]
  BY AssignedAt
<1>6. /\ \A f \in F : f \in DOMAIN Assigned(M) <=> f \in DOMAIN M[i].assignment
      /\ \A f \in F : f \in DOMAIN M[i].assignment => Assigned(M)[f] = M[i].assignment[f]
  BY <1>4, AssignedAt
<1> DEFINE A == Assigned(L)
           B == Assigned(M)
<1>14. ASSUME NEW f, f \notin F PROVE (f \in DOMAIN A <=> f \in DOMAIN B) /\ (f \in DOMAIN A => A[f] = B[f])
  BY <1>14, AssignedElse
<1>8. Len(k) \in Nat /\ Len(q) = Len(k) + 1 /\ \A j \in 1..Len(k) : j \in 1..Len(q) /\ q[j] = k[j]
  BY <1>1, MemGives, KeyIs DEF Step
<1>9. M[i].hier = h
  OBVIOUS
<1> HIDE DEF h, k, q, F, A, B
<1>10. ASSUME Agrees(r, B) PROVE \A j \in 1..Len(q) : q[j] = r[h[j]]
  BY <1>3, <1>6, <1>10 DEF Agrees, B
<1>11. ASSUME Agrees(r, B), NEW f \in DOMAIN A PROVE r[f] = A[f]
  <2>1. CASE f \in F
    <3>1. PICK j \in 1..Len(k) : f = h[j] /\ A[f] = k[j]
      BY <1>2, <1>5, <1>11, <2>1 DEF A
    <3> QED BY <1>8, <1>10, <1>11, <3>1
  <2>2. CASE f \notin F
    BY <1>11, <1>14, <2>2 DEF Agrees
  <2> QED BY <2>1, <2>2
<1>12. ASSUME Agrees(r, A), \A j \in 1..Len(q) : q[j] = r[h[j]], NEW f \in DOMAIN B PROVE r[f] = B[f]
  <2>1. CASE f \in F
    <3>1. PICK j \in 1..Len(q) : f = h[j] /\ B[f] = q[j]
      BY <1>3, <1>6, <1>12, <2>1 DEF B
    <3> QED BY <1>12, <3>1
  <2>2. CASE f \notin F
    BY <1>12, <1>14, <2>2 DEF Agrees
  <2> QED BY <2>1, <2>2
<1>13. Agrees(r, B) <=> Agrees(r, A) /\ \A j \in 1..Len(q) : q[j] = r[h[j]]
  BY <1>10, <1>11, <1>12 DEF Agrees
<1> QED BY <1>9, <1>13 DEF A, B, q

(* The parents that a hierarchy's children show under are on its axis.       *)

(* Only a limit sets the parent of a hierarchy, to the one it names.         *)
LEMMA ParentKept ==
  ASSUME NEW m \in Move, m.kind \notin {"measure", "exists"}, NEW s \in SpecIn(m.hier)
  PROVE  Specified(s, m).parent = IF m.kind = "limit" THEN LimitedBy(m) ELSE s.parent
<1> DEFINE h == m.hier
<1>1. \/ m \in Refs \/ m \in Marks \/ m \in Targets \/ m \in Limits
  BY EntryIs DEF Move
<1>2. s \in SpecSet(h)
  BY DEF SpecIn
<1>3. CASE m \in Refs
  <2>1. Specified(s, m) = on_member(s, m) /\ m.kind = "member" /\ m.suffix \in {"", "CHILDREN", "MEMBERS"}
    BY <1>3, RefIs DEF Specified
  <2>2. UserMember(s, m).parent = s.parent
    <3> HIDE DEF h
    <3>1. CASE m.suffix = "CHILDREN"
      BY <3>1, <1>2 DEF UserMember, SpecSet
    <3>2. CASE m.suffix = "MEMBERS" /\ IsAll(m)
      <4> DEFINE x == s.drilled \cup (IF m.rest = <<>> THEN {<<>>} ELSE {})
      <4>1. UserMember(s, m) = [s EXCEPT !.all = TRUE, !.drilled = x]
        BY <3>2 DEF UserMember
      <4> HIDE DEF x
      <4> QED BY <1>2, <4>1 DEF SpecSet
    <3>3. CASE m.suffix = "MEMBERS" /\ ~ IsAll(m)
      <4> DEFINE x == s.flat \cup {i \in DOMAIN m.hier : m.rest = <<Level(i)>>}
      <4>1. UserMember(s, m) = [s EXCEPT !.flat = x]
        BY <3>3 DEF UserMember
      <4> HIDE DEF x
      <4> QED BY <1>2, <4>1 DEF SpecSet
    <3>4. CASE m.suffix = ""
      <4> DEFINE a == s.all \/ IsAll(m)
                 p == IF IsAll(m) THEN s.paths ELSE AddNew(s.paths, m.rest)
                 d == s.drilled \cup (IF m.drilled THEN {Path(m)} ELSE {})
      <4>1. UserMember(s, m) = [s EXCEPT !.all = a, !.paths = p, !.drilled = d]
        BY <3>4 DEF UserMember
      <4> HIDE DEF a, p, d
      <4> QED BY <1>2, <4>1 DEF SpecSet
    <3> QED BY <2>1, <3>1, <3>2, <3>3, <3>4
  <2>3. AttributeMember(s, m).parent = s.parent
    <3> HIDE DEF h
    <3>1. CASE m.suffix = "CHILDREN"
      BY <3>1, <1>2 DEF AttributeMember, SpecSet
    <3>2. CASE m.suffix = "MEMBERS"
      <4> DEFINE a == s.all \/ TakenForAll(m)
                 c == s.children \/ m.rest \in {<<>>, <<Level(1)>>}
      <4>1. AttributeMember(s, m) = [s EXCEPT !.all = a, !.children = c]
        BY <3>2 DEF AttributeMember
      <4> HIDE DEF a, c
      <4> QED BY <1>2, <4>1 DEF SpecSet
    <3>3. CASE m.suffix = "" /\ TakenForAll(m)
      <4> DEFINE c == s.children \/ m.drilled
      <4>1. AttributeMember(s, m) = [s EXCEPT !.all = TRUE, !.children = c]
        BY <3>3 DEF AttributeMember
      <4> HIDE DEF c
      <4> QED BY <1>2, <4>1 DEF SpecSet
    <3>4. CASE m.suffix = "" /\ ~ TakenForAll(m)
      <4> DEFINE x == AddNew(s.members, m.rest[1])
      <4>1. AttributeMember(s, m) = [s EXCEPT !.members = x]
        BY <3>4 DEF AttributeMember
      <4> HIDE DEF x
      <4> QED BY <1>2, <4>1 DEF SpecSet
    <3> QED BY <2>1, <3>1, <3>2, <3>3, <3>4
  <2> QED BY <2>1, <2>2, <2>3 DEF on_member
<1>4. CASE m \in Marks
  <2>1. m.kind \in {"open", "close"}
    BY <1>4 DEF Marks, Mark
  <2>2. CASE m.kind = "open"
    <3> DEFINE x == s.drilled \cup {m.rest}
    <3>1. Specified(s, m) = [s EXCEPT !.drilled = x]
      BY <2>2 DEF Specified
    <3> HIDE DEF x, h
    <3>2. Specified(s, m).parent = s.parent
      BY <1>2, <3>1 DEF SpecSet
    <3> QED BY <2>2, <3>2
  <2>3. CASE m.kind = "close"
    <3> DEFINE x == s.undrilled \cup {m.rest}
               y == s.depths \cup {Len(m.rest)}
    <3>1. Specified(s, m) = [s EXCEPT !.undrilled = x, !.depths = y]
      BY <2>3 DEF Specified
    <3> HIDE DEF x, y, h
    <3>2. Specified(s, m).parent = s.parent
      BY <1>2, <3>1 DEF SpecSet
    <3> QED BY <2>3, <3>2
  <2> QED BY <2>1, <2>2, <2>3
<1>5. CASE m \in Targets
  <2>1. m.kind = "children"
    BY <1>5 DEF Targets
  <2>2. Specified(s, m) = [s EXCEPT !.children = TRUE]
    BY <2>1 DEF Specified
  <2> HIDE DEF h
  <2>3. Specified(s, m).parent = s.parent
    BY <1>2, <2>2 DEF SpecSet
  <2> QED BY <2>1, <2>3
<1>6. CASE m \in Limits
  <2>1. m.kind = "limit"
    BY <1>6 DEF Limits
  <2> DEFINE a == LimitedBy(m)
             b == \E e \in ToSet(m.drill) : IsRef(e)
             c == Leaves(Named(m.drill))
             d == Leaves(Excepted(m.drill))
  <2>2. Specified(s, m) = [s EXCEPT !.parent = a, !.limited = b, !.include = c, !.exclude = d]
    BY <2>1 DEF Specified, Limited, LimitedBy
  <2> HIDE DEF a, b, c, d, h
  <2>3. Specified(s, m).parent = a
    BY <1>2, <2>2 DEF SpecSet
  <2> QED BY <2>1, <2>3 DEF a
<1> QED BY <1>1, <1>3, <1>4, <1>5, <1>6

(* One more move keeps the parents among the hierarchies that were moved.    *)
LEMMA FollowingOn ==
  ASSUME NEW st, NEW M, Following(st, M), NEW m \in Move
  PROVE  Following(Apply(st, m), M \cup {m})
<1> DEFINE a == Apply(st, m)
           h == m.hier
           o == AddNew(st.order, h)
           v == Specified(st.spec[h], m)
<1>1. StateOK(st) /\ StateOK(a)
  BY ApplyOK DEF Following
<1>0. st = [measures |-> st.measures, order |-> st.order, spec |-> st.spec, filters |-> st.filters, sink |-> st.sink]
  BY <1>1 DEF StateOK
<1>2. CASE m.kind \in {"measure", "exists"}
  <2>1. a.order = st.order /\ a.spec = st.spec
    <3> DEFINE x == Append(st.measures, m.name)
               y == st.filters \cup FiltersOf(m.among)
               z == st.sink \cup PathsOf(m.among)
    <3>1. m.kind = "measure" => a = [st EXCEPT !.measures = x]
      BY DEF Apply
    <3>2. m.kind = "exists" => a = [st EXCEPT !.filters = y, !.sink = z]
      BY DEF Apply
    <3> HIDE DEF a, x, y, z
    <3> QED BY <1>0, <1>2, <3>1, <3>2
  <2> HIDE DEF a
  <2> QED BY <1>1, <1>2, <2>1 DEF Following, a
<1>3. CASE m.kind \notin {"measure", "exists"}
  <2>1. h \in Hierarchy
    BY <1>3, EntryIs, RefIs DEF Move, Marks, Mark, Targets, Limits
  <2>2. st.spec[h] \in SpecIn(h) /\ st.order \in Seq(Hierarchy) /\ DOMAIN st.spec = Hierarchy
    BY <1>1, <2>1 DEF StateOK
  <2>3. v.parent = IF m.kind = "limit" THEN LimitedBy(m) ELSE st.spec[h].parent
    BY <1>3, <2>2, ParentKept
  <2>4. a = [st EXCEPT !.order = o, !.spec[h] = v]
    BY <1>3 DEF Apply
  <2>5. ToSet(o) = ToSet(st.order) \cup {h}
    BY <2>1, <2>2, AddNewIs
  <2> HIDE DEF a, o, v
  <2>6. a.order = o /\ a.spec = [st.spec EXCEPT ![h] = v]
    BY <1>0, <2>4
  <2>7. \A g \in Hierarchy : a.spec[g] = IF g = h THEN v ELSE st.spec[g]
    BY <2>2, <2>6
  <2>8. \A x \in M \cup {m} : x.kind \notin {"measure", "exists"} => x.hier \in ToSet(a.order)
    BY <2>5, <2>6 DEF Following
  <2>9. ASSUME NEW g \in Hierarchy, a.spec[g].parent # <<>>
        PROVE  \E x \in M \cup {m} : x.kind = "limit" /\ a.spec[g].parent = LimitedBy(x)
    <3>1. CASE g = h /\ m.kind = "limit"
      BY <2>3, <2>7, <3>1
    <3>2. CASE ~ (g = h /\ m.kind = "limit")
      BY <2>3, <2>7, <3>2, <2>9 DEF Following
    <3> QED BY <3>1, <3>2
  <2> QED BY <1>1, <2>8, <2>9 DEF Following, a
<1> QED BY <1>2, <1>3

(* A drill that shows a hierarchy under parents moves them as members too.   *)
LEMMA ParentsMove ==
  ASSUME NEW walked \in Seq(Entry), NEW m \in ToSet(AllMoves(walked)), m.kind = "limit"
  PROVE  \E x \in ToSet(AllMoves(walked)) : x.kind = "member" /\ x.hier = LimitedBy(m)
<1>1. ToSet(AllMoves(walked)) = UNION {ToSet(Moves(e)) : e \in ToSet(walked)}
  BY AllMovesAre
<1>2. PICK e \in ToSet(walked) : m \in ToSet(Moves(e))
  BY <1>1
<1>3. e \in Entry
  BY InSeq
<1>4. e.kind = "drillmember"
  <2>1. CASE e.kind \in {"measure", "member", "exists"}
    BY <2>1, <1>2, OneSet DEF Moves
  <2>2. CASE e.kind \notin {"measure", "member", "exists", "drillmember"}
    BY <2>2, <1>2, OneSet DEF Moves
  <2> QED BY <2>1, <2>2
<1>5. e.drill \in Seq(Entry) /\ e.target \in Hierarchy \cup {<<>>}
  BY <1>3, <1>4, EntryIs
<1> DEFINE P == Parents(e.drill)
           S == {x \in Refs : x.rest # <<>> /\ ~ IsUser(x.hier)}
           one == [kind |-> "children", hier |-> e.target, drill |-> e.drill]
           two == [kind |-> "limit", hier |-> e.target, drill |-> e.drill]
           last == IF P = <<>> THEN <<>> ELSE <<two>>
           oc == OpenedOrClosed(e.drill)
<1>6. P \in Seq(S) /\ oc \in Seq(Marks)
  BY <1>5, ParentsAre, OpenedOrClosedIs
<1>7. Moves(e) = oc \o Targeted(e)
  BY <1>4 DEF Moves, on_drillmember
<1>a. Seq(S) \subseteq Seq(Refs)
  OBVIOUS
<1>b. \A x \in S : x.kind = "member"
  BY RefIs
<1>8. Seq(S) \subseteq Seq(Refs) /\ \A x \in S : x.kind = "member"
  BY <1>a, <1>b
<1>9. Marks \subseteq DrillMove /\ Refs \subseteq DrillMove /\ Targets \subseteq DrillMove /\ Limits \subseteq DrillMove
  BY DEF DrillMove
<1>10. \A T : T \subseteq DrillMove => Seq(T) \subseteq Seq(DrillMove)
  OBVIOUS
<1>11. \A x \in Marks : x.kind # "limit"
  BY DEF Marks, Mark
<1>12. e.target # <<>> => one \in Targets /\ (P # <<>> => two \in Limits)
  BY <1>5 DEF Targets, Limits
<1>13. one.kind = "children" /\ two.drill = e.drill
  OBVIOUS
<1>14. Targeted(e) = IF e.target = <<>> THEN <<>> ELSE <<one>> \o P \o last
  BY DEF Targeted, OnTarget
<1> HIDE DEF P, S, one, two, oc
<1>15. \A x \in ToSet(P) : x \in S
  BY <1>6, InSeq
<1>16. CASE e.target = <<>>
  BY <1>7, <1>14, <1>16, <1>6, ConcatEmptySeq, <1>2, InSeq, <1>11
<1>17. CASE e.target # <<>>
  <2> DEFINE first == <<one>>
  <2>1. first \in Seq(DrillMove) /\ ToSet(first) = {one}
    BY <1>9, <1>12, <1>17, OneSet
  <2>2. last \in Seq(DrillMove) /\ ToSet(last) = IF P = <<>> THEN {} ELSE {two}
    BY <1>9, <1>12, <1>17, OneSet
  <2>3. P \in Seq(DrillMove) /\ oc \in Seq(DrillMove)
    BY <1>6, <1>8, <1>9, <1>10
  <2>4. Moves(e) = oc \o (first \o P \o last)
    BY <1>7, <1>14, <1>17
  <2> HIDE DEF first, last
  <2> DEFINE fp == first \o P
             fpl == fp \o last
  <2>5. fp \in Seq(DrillMove) /\ ToSet(fp) = ToSet(first) \cup ToSet(P)
    BY <2>1, <2>3, ConcatSet
  <2> HIDE DEF fp
  <2>6. fpl \in Seq(DrillMove) /\ ToSet(fpl) = ToSet(fp) \cup ToSet(last)
    BY <2>2, <2>5, ConcatSet
  <2>7. Moves(e) = oc \o fpl
    BY <2>4 DEF fp
  <2> HIDE DEF fpl
  <2>8. ToSet(Moves(e)) = ToSet(oc) \cup ToSet(fpl)
    BY <2>3, <2>6, <2>7, ConcatSet
  <2>9. \A x \in ToSet(oc) : x.kind # "limit"
    BY <1>6, <1>11, InSeq
  <2>10. P # <<>> /\ m = two
    BY <1>2, <1>8, <1>13, <1>15, <2>1, <2>2, <2>5, <2>6, <2>8, <2>9
  <2>11. Last(P) \in ToSet(P) /\ LimitedBy(m) = Last(P).hier
    BY <1>6, <2>10, InSeq, <1>13 DEF Last, LimitedBy, P
  <2>12. Last(P) \in ToSet(Moves(e)) /\ Last(P).kind = "member"
    BY <1>8, <1>15, <2>5, <2>6, <2>8, <2>11
  <2> QED BY <1>1, <2>11, <2>12
<1> QED BY <1>16, <1>17

(* A hierarchy that shows under a parent has it on its axis.                 *)
LEMMA ClassifiedParents ==
  ASSUME NEW entries \in Seq(Entry), NEW h \in Hierarchy, _classify(entries).spec[h].parent # <<>>
  PROVE  _classify(entries).spec[h].parent \in ToSet(_classify(entries).order)
<1> DEFINE moves == AllMoves(walk(entries))
           N == Len(moves)
           D(n) == {moves[i] : i \in 1..n}
<1>0. walk(entries) \in Seq(Entry)
  BY WalkIs
<1>1. moves \in Seq(Move)
  BY <1>0, AllMovesAre
<1>2. _classify(entries) = Made(moves)
  BY DEF _classify
<1>5. \A m \in ToSet(moves) : m.kind = "limit" => \E x \in ToSet(moves) : x.kind = "member" /\ x.hier = LimitedBy(m)
  BY <1>0, ParentsMove
<1> HIDE DEF moves
<1>3. N \in Nat /\ ToSet(moves) = {moves[i] : i \in 1..N} /\ \A i \in 1..N : moves[i] \in Move
  BY <1>1, InSeq
<1>4. PICK g : /\ g[0] = Unspecified /\ Made(moves) = g[N]
               /\ \A n \in 1..N : g[n] = Apply(g[n - 1], moves[n])
  BY <1>3, MadeLoop
<1> DEFINE T == {n \in Nat : n <= N => Following(g[n], D(n))}
<1>6. 0 \in T
  <2>1. D(0) = {}
    OBVIOUS
  <2>2. \A x \in Hierarchy : Unspecified.spec[x].parent = <<>>
    BY DEF Unspecified, HierSpec
  <2> HIDE DEF D
  <2> QED BY <1>4, <2>1, <2>2, UnspecifiedOK DEF Following
<1>7. ASSUME NEW n \in Nat, n \in T PROVE n + 1 \in T
  <2> SUFFICES ASSUME n + 1 <= N PROVE Following(g[n + 1], D(n + 1))
    OBVIOUS
  <2>1. n <= N /\ n + 1 \in 1..N /\ (n + 1) - 1 = n
    BY <1>3
  <2>2. g[n + 1] = Apply(g[n], moves[n + 1]) /\ moves[n + 1] \in Move
    BY <1>3, <1>4, <2>1
  <2>3. Following(g[n], D(n))
    BY <1>7, <2>1
  <2>4. D(n + 1) = D(n) \cup {moves[n + 1]}
    OBVIOUS
  <2> HIDE DEF D
  <2> QED BY <2>2, <2>3, <2>4, FollowingOn
<1> HIDE DEF T
<1>8. Nat \subseteq T
  BY <1>6, <1>7, Induction
<1>9. N \in T /\ N <= N
  BY <1>3, <1>8
<1>10. Following(Made(moves), ToSet(moves))
  BY <1>3, <1>4, <1>9 DEF T
<1>11. PICK m \in ToSet(moves) : m.kind = "limit" /\ Made(moves).spec[h].parent = LimitedBy(m)
  BY <1>2, <1>10 DEF Following
<1>12. PICK x \in ToSet(moves) : x.kind = "member" /\ x.hier = LimitedBy(m)
  BY <1>5, <1>11
<1>13. x.hier \in ToSet(Made(moves).order)
  BY <1>10, <1>12 DEF Following
<1> QED BY <1>2, <1>11, <1>12, <1>13

(* The children of a member on its axis.                                     *)

(* A list has finitely many elements.                                        *)
LEMMA ListFinite ==
  ASSUME NEW n \in Nat, NEW f, DOMAIN f = 1..n
  PROVE  IsFiniteSet({f[i] : i \in 1..n})
<1> DEFINE T == {f[i] : i \in 1..n}
           g == [i \in 1..n |-> f[i]]
<1>1. g \in Surjection(1..n, T)
  BY DEF Surjection
<1>2. IsFiniteSet(1..n)
  BY FS_Interval
<1> HIDE DEF g, T
<1> QED BY <1>1, <1>2, FS_Surjection DEF T

(* A tuple assigns finitely many fields.                                     *)
LEMMA AssignedFinite ==
  ASSUME NEW n \in Nat, NEW L, Tup(L, n)
  PROVE  IsFiniteSet(DOMAIN Assigned(L))
<1> DEFINE D == [i \in 1..n |-> DOMAIN L[i].assignment]
           S == {D[i] : i \in 1..n}
<1>1. DOMAIN L = 1..n /\ \A i \in 1..n : L[i] \in AnyMem
  BY DEF Tup
<1>2. ASSUME NEW i \in 1..n PROVE IsFiniteSet(DOMAIN L[i].assignment)
  <2> DEFINE k == Len(L[i].path)
             h == L[i].hier
             f == [j \in 1..k |-> h[j]]
  <2>1. DOMAIN L[i].assignment = {h[j] : j \in 1..k} /\ h \in Hierarchy /\ L[i].path \in KeysIn(h)
    BY <1>1, MemGives
  <2>2. k \in Nat
    BY <2>1, KeyIs
  <2>3. DOMAIN f = 1..k /\ {f[j] : j \in 1..k} = {h[j] : j \in 1..k}
    OBVIOUS
  <2> HIDE DEF f, k, h
  <2>4. IsFiniteSet({f[j] : j \in 1..k})
    BY <2>2, <2>3, ListFinite
  <2> QED BY <2>1, <2>3, <2>4
<1>3. DOMAIN D = 1..n
  OBVIOUS
<1>4. \A T \in S : IsFiniteSet(T)
  BY <1>2
<1>5. DOMAIN Assigned(L) \in SUBSET UNION S
  <2>1. ASSUME NEW f \in DOMAIN Assigned(L) PROVE f \in UNION S
    <3>1. Gives(L, n, f) # {}
      BY <1>1, AssignedHas
    <3>2. PICK i \in 1..n : f \in DOMAIN L[i].assignment
      BY <3>1 DEF Gives
    <3> QED BY <3>2
  <2> QED BY <2>1
<1> HIDE DEF D
<1>6. IsFiniteSet(S)
  BY <1>3, ListFinite
<1> HIDE DEF S
<1>7. IsFiniteSet(UNION S)
  BY <1>4, <1>6, FS_UNION
<1> QED BY <1>5, <1>7, FS_Subset

(* Two elements are more than one.                                           *)
LEMMA TwoIn ==
  ASSUME NEW D, IsFiniteSet(D), NEW x \in D, NEW y \in D, x # y
  PROVE  Cardinality(D) > 1
<1> DEFINE S == {x}
           T == S \cup {y}
<1>1. IsFiniteSet(S) /\ Cardinality(S) = 1
  BY FS_Singleton
<1>2. y \notin S /\ T \subseteq D
  OBVIOUS
<1> HIDE DEF S
<1>3. IsFiniteSet(T) /\ Cardinality(T) = Cardinality(S) + 1
  BY <1>1, <1>2, FS_AddElement
<1> HIDE DEF T
<1>4. Cardinality(T) <= Cardinality(D) /\ Cardinality(D) \in Nat
  BY <1>2, FS_Subset, FS_CardinalityType
<1> QED BY <1>1, <1>3, <1>4

(* Another member of a user hierarchy drills no less.                        *)
LEMMA DrillKept ==
  ASSUME NEW st, Parented(st), NEW n, n = Len(st.order), NEW L \in TupSet(st), NEW M \in TupSet(st), NEW i \in 1..n,
         \A j \in 1..n : j # i => M[j] = L[j], Alone(L, n, i), IsUser(L[i].hier),
         _drill_allowed(Specs(st), Assigned(L))
  PROVE  _drill_allowed(Specs(st), Assigned(M))
<1> DEFINE A == Assigned(L)
           B == Assigned(M)
           F == ToSet(L[i].hier)
<1>1. StateOK(st) /\ n \in Nat
  BY SpecsAre DEF Parented
<1>2. Tup(L, n) /\ Tup(M, n) /\ \A j \in 1..n : L[j].hier = st.order[j] /\ M[j].hier = st.order[j]
  BY DEF TupSet, Tup
<1>3. \A f : f \notin F => (f \in DOMAIN A <=> f \in DOMAIN B) /\ (f \in DOMAIN A => A[f] = B[f])
  BY <1>1, <1>2, AssignedElse
<1>4. ToSet(st.order) = {st.order[j] : j \in 1..n} /\ ToSet(Specs(st)) = {st.spec[h] : h \in ToSet(st.order)}
  <2>1. st.order \in Seq(Hierarchy)
    BY <1>1 DEF StateOK
  <2> QED BY <1>1, <2>1, InSeq, SpecsAre
<1>5. ASSUME NEW g \in ToSet(st.order), ~ IsUser(g) PROVE g[1] \notin F
  <2>1. PICK j \in 1..n : g = st.order[j]
    BY <1>4
  <2>2. j # i /\ L[j].hier = g
    BY <1>2, <1>5, <2>1
  <2>3. ToSet(g) \cap F = {}
    BY <2>2 DEF Alone
  <2>4. g \in Hierarchy
    BY <1>1, <2>1, SpecsAre
  <2>5. g[1] \in ToSet(g)
    BY <2>4, HierIs DEF ToSet
  <2> QED BY <2>3, <2>5
<1> HIDE DEF A, B, F
<1> SUFFICES ASSUME NEW s \in ToSet(Specs(st)),
                    s.parent # <<>>, s.hier[1] \in DOMAIN B, ~ IsUser(s.hier), s.parent[1] \in DOMAIN B, B[s.parent[1]] # Null
             PROVE  (s.limited => B[s.parent[1]] \in s.include) /\ B[s.parent[1]] \notin s.exclude
  BY DEF _drill_allowed, B
<1>6. PICK h \in ToSet(st.order) : s = st.spec[h]
  BY <1>4
<1>7. h \in Hierarchy /\ s \in SpecIn(h) /\ s.hier = h
  BY <1>1, <1>4, SpecsAre, <1>6, SpecIs DEF StateOK
<1>8. s.parent \in ToSet(st.order) /\ ~ IsUser(s.parent)
  BY <1>6, <1>7, SpecIs DEF Parented
<1>9. h[1] \notin F /\ s.parent[1] \notin F
  BY <1>5, <1>7, <1>8
<1>10. s.hier[1] \in DOMAIN A /\ s.parent[1] \in DOMAIN A /\ A[s.parent[1]] = B[s.parent[1]]
  BY <1>3, <1>7, <1>9
<1> QED BY <1>8, <1>10 DEF _drill_allowed, A

(* The columns.                                                              *)
LEMMA ColumnIs ==
  ASSUME NEW rows \in Table, NEW st, StateOK(st), NEW i \in 1..Len(st.order)
  PROVE  Columns(rows, Specs(st))[i] = Marked(Specs(st), i, MembersOf(rows, Specs(st)[i]))
  BY SpecsAre DEF Columns

(* The last column of an axis is as its hierarchy made it.                   *)
LEMMA UserColumnIs ==
  ASSUME NEW rows \in Table, NEW st, StateOK(st), NEW n, n = Len(st.order), n # 0, NEW h, h = st.order[n], IsUser(h)
  PROVE  Columns(rows, Specs(st))[n] = _userhier_members(rows, st.spec[h])
<1>1. n \in 1..n /\ Len(Specs(st)) = n /\ Specs(st)[n] = st.spec[h] /\ h \in Hierarchy /\ st.spec[h] \in SpecIn(h)
  BY SpecsAre
<1>2. st.spec[h].hier = h
  BY <1>1, SpecIs
<1>3. Columns(rows, Specs(st))[n] = Marked(Specs(st), n, MembersOf(rows, Specs(st)[n]))
  BY <1>1, ColumnIs
<1>4. \A ms : Marked(Specs(st), n, ms) = ms
  BY <1>1 DEF Marked
<1>5. MembersOf(rows, st.spec[h]) = _userhier_members(rows, st.spec[h])
  BY <1>2 DEF MembersOf
<1> QED BY <1>1, <1>3, <1>4, <1>5

(* A column before another is told to be drilled by that one.                *)
LEMMA MarkedHave ==
  ASSUME NEW rows \in Table, NEW st, StateOK(st), NEW i \in 1..Len(st.order), i # Len(st.order),
         NEW m \in ToSet(Columns(rows, Specs(st))[i]), m.path # <<>>
  PROVE  m.drilled = _parent_drilled(Specs(st)[i + 1], Specs(st)[i], m.path[1])
<1> DEFINE ms == MembersOf(rows, Specs(st)[i])
           new(j) == IF ms[j].path = <<>> THEN ms[j]
                     ELSE [ms[j] EXCEPT !.drilled = _parent_drilled(Specs(st)[i + 1], Specs(st)[i], ms[j].path[1])]
           f == [j \in DOMAIN ms |-> IF ms[j].path = <<>> THEN ms[j]
                     ELSE [ms[j] EXCEPT !.drilled = _parent_drilled(Specs(st)[i + 1], Specs(st)[i], ms[j].path[1])]]
<1>1. Columns(rows, Specs(st))[i] = f /\ Len(Specs(st)) = Len(st.order)
  BY ColumnIs, SpecsAre DEF Marked
<1>2. st.order[i] \in Hierarchy /\ ms \in Seq(Mems(st.order[i]))
  BY SpecsAre, MembersAre
<1>3. PICK j \in DOMAIN ms : m = new(j)
  <2>1. DOMAIN f = DOMAIN ms /\ \A j \in DOMAIN ms : f[j] = new(j)
    OBVIOUS
  <2> HIDE DEF f, new
  <2> QED BY <1>1, <2>1 DEF ToSet
<1>4. ms[j] \in Mems(st.order[i])
  <2> HIDE DEF ms
  <2> QED BY <1>2, <1>3
<1> DEFINE x == ms[j]
<1>5. x = Member(st.order[i], x.path, x.drilled)
  BY <1>2, <1>4, MemIs
<1> HIDE DEF ms, new
<1>6. x.path # <<>>
  BY <1>3 DEF new
<1> DEFINE d == _parent_drilled(Specs(st)[i + 1], Specs(st)[i], x.path[1])
<1>7. m = [x EXCEPT !.drilled = d]
  BY <1>3, <1>6 DEF new
<1> HIDE DEF x, d
<1>8. m.drilled = d /\ m.path = x.path
  BY <1>5, <1>7 DEF Member
<1> QED BY <1>8 DEF d, x

(* The key that a row has at k levels, and it is the only one.               *)
LEMMA AlongPath ==
  ASSUME NEW rows \in Table, NEW r \in rows, NEW h \in Hierarchy, NEW k \in 0..Len(h), NEW q, q = Along(SubSeq(h, 1, k), r)
  PROVE  /\ q \in KeysIn(h) /\ Len(q) = k /\ \A j \in 1..k : q[j] = r[h[j]]
         /\ \A p \in KeysIn(h) : Len(p) = k /\ (\A j \in 1..k : p[j] = r[h[j]]) => p = q
<1> DEFINE levels == SubSeq(h, 1, k)
<1>1. levels \in Seq(Field) /\ Len(levels) = k /\ \A j \in 1..k : levels[j] = h[j]
  BY PrefixIs
<1>2. r \in [Field -> Value \cup {Null}] /\ k \in Nat /\ k <= Len(h)
  <2>1. Len(h) \in Nat
    BY HierIs
  <2>2. r \in [Field -> Value \cup {Null}]
    BY DEF Table
  <2> QED BY <2>1, <2>2
<1>3. q = Along(levels, r)
  OBVIOUS
<1> HIDE DEF levels
<1>4. q \in Seq(Int) /\ Len(q) = k /\ \A j \in 1..k : q[j] = r[h[j]]
  BY <1>1, <1>2, <1>3, AlongIs
<1>5. q \in KeysIn(h)
  BY <1>2, <1>4 DEF KeysIn
<1>6. ASSUME NEW p \in KeysIn(h), Len(p) = k, \A j \in 1..k : p[j] = r[h[j]] PROVE p = q
  <2>1. p \in Seq(Int)
    BY KeyIs
  <2>2. \A j \in 1..Len(p) : p[j] = q[j]
    BY <1>4, <1>6
  <2> QED BY <1>4, <1>6, <2>1, <2>2, SameSeq
<1> QED BY <1>4, <1>5, <1>6

(* A key that a row has is the one along its levels.                         *)
LEMMA AlongOnly ==
  ASSUME NEW rows \in Table, NEW r \in rows, NEW h \in Hierarchy, NEW k \in 0..Len(h), NEW p \in KeysIn(h),
         Len(p) = k, Matches(r, h, p)
  PROVE  p = Along(SubSeq(h, 1, k), r)
  BY AlongPath DEF Matches

(* A row of a tuple that has a child of its member is one of the tuple with  *)
(* the child.                                                                *)
LEMMA StillAgrees ==
  ASSUME NEW n \in Nat, NEW L, Tup(L, n), NEW M, Tup(M, n), NEW i \in 1..n, M[i].hier = L[i].hier,
         \A j \in 1..n : j # i => M[j] = L[j], Alone(L, n, i), Step(L[i].path, M[i].path), NEW r,
         Agrees(r, Assigned(L)), Matches(r, M[i].hier, M[i].path)
  PROVE  Agrees(r, Assigned(M))
  BY OneDeeper DEF Matches

(* What the tuples of an axis show under the last member of one, a user      *)
(* hierarchy's.                                                              *)
LEMMA ChildrenShown ==
  ASSUME NEW rows \in Table, NEW st, Parented(st), NEW n, n = Len(st.order), n # 0, NEW h, h = st.order[n], IsUser(h),
         st.spec[h].flat = {}, NEW C, C = ToSet(Crossed(rows, Columns(rows, Specs(st)), Specs(st))),
         NEW t \in C, t[n].path # <<>>, Alone(t, n, n),
         NEW O, O = Occurring(rows, Assigned(t))
  PROVE  /\ ChildrenTrue(st, h, C, t, n, O)
         /\ t[n].drilled /\ ~ OneName(rows, h) => ChildrenAll(st, h, C, t, n, O)
<1> DEFINE k == Len(t[n].path)
           s == st.spec[h]
           cols == Columns(rows, Specs(st))
           M == ToSet(cols[n])
           Occ(u) == Occurs(rows, Specs(st), Assigned(u))
<1>1. StateOK(st) /\ n \in Nat /\ n \in 1..n
  BY SpecsAre DEF Parented
<1>2. h \in Hierarchy /\ s \in SpecIn(h) /\ s.hier = h
  BY <1>1, SpecsAre, SpecIs DEF StateOK
<1>3. \A u : u \in C <=> Row(u, cols, n) /\ Occ(u)
  BY <1>1, CrossedHas
<1>4. cols[n] = _userhier_members(rows, s)
  BY <1>1, UserColumnIs
<1>5. Told(rows, h, s, M)
  BY <1>2, <1>4, UserColumn
<1>6. C \subseteq TupSet(st)
  <2>1. Crossed(rows, cols, Specs(st)) \in Seq(TupSet(st))
    BY <1>1, CrossedAre
  <2> HIDE DEF cols
  <2> QED BY <2>1, InSeq DEF cols
<1>7. \A u \in TupSet(st) : Tup(u, n) /\ u[n].hier = h /\ \A j \in 1..n : u[j].hier = st.order[j]
  BY <1>1 DEF TupSet, Tup
<1>8. t \in TupSet(st) /\ Tup(t, n) /\ t[n].hier = h /\ t[n] \in M /\ Occ(t) /\ Row(t, cols, n)
  BY <1>1, <1>3, <1>6, <1>7 DEF Row
<1>9. t[n].path \in KeysIn(h) /\ k \in 0..Len(h) /\ Len(h) \in Nat /\ k # 0
  BY <1>5, <1>8, <1>2, KeyIs, HierIs, EmptySeq DEF Told
<1>14. k = Len(t[n].path)
  OBVIOUS
<1> HIDE DEF s, cols, Occ, M, k
<1>10. ASSUME NEW u \in C, Same(t, u, n, n), Step(t[n].path, u[n].path)
       PROVE  /\ \E r \in O : u[n].path = Along(SubSeq(h, 1, k + 1), r)
              /\ ~ t[n].drilled => canon_path(u[n].path) \in ToSet(s.paths)
  <2> DEFINE q == u[n].path
  <2>1. Tup(u, n) /\ u[n].hier = h /\ u[n] \in M /\ Occ(u)
    BY <1>1, <1>3, <1>6, <1>7 DEF Row, M
  <2>2. q \in KeysIn(h) /\ Len(q) = k + 1
    BY <1>5, <1>10, <2>1 DEF Told, Step, k
  <2>3. k + 1 \in 0..Len(h) /\ k + 1 \in 1..Len(h) /\ 1 \in 1..Len(q) /\ 2 \in 1..Len(q) /\ 2 \in 1..Len(h) /\ 1 \in 1..Len(h)
    <3>1. Len(q) \in 0..Len(h)
      BY <1>2, <2>2, KeyIs
    <3> HIDE DEF q
    <3> QED BY <1>9, <2>2, <3>1
  <2>4. Cardinality(DOMAIN Assigned(u)) > 1
    <3>1. u[n] \in AnyMem /\ Alone(u, n, n)
      BY <1>10, <1>1, <2>1, <1>8 DEF Same, Tup, Alone
    <3>2. DOMAIN u[n].assignment = {h[j] : j \in 1..Len(q)} /\ DOMAIN u[n].assignment \subseteq ToSet(h)
      BY <2>1, <3>1, MemGives
    <3>3. h[1] \in DOMAIN u[n].assignment /\ h[2] \in DOMAIN u[n].assignment
      BY <2>3, <3>2
    <3>4. h[1] \in DOMAIN Assigned(u) /\ h[2] \in DOMAIN Assigned(u)
      BY <1>1, <2>1, <3>1, <3>2, <3>3, AssignedAt
    <3>5. h[1] # h[2]
      BY <1>2, <2>3, HierIs
    <3>6. IsFiniteSet(DOMAIN Assigned(u))
      BY <1>1, <2>1, AssignedFinite
    <3> QED BY <3>4, <3>5, <3>6, TwoIn
  <2>5. PICK r \in rows : Agrees(r, Assigned(u))
    BY <2>1, <2>4, OccurringIs DEF Occurs, Occ
  <2>6. Agrees(r, Assigned(t)) /\ \A j \in 1..Len(q) : q[j] = r[h[j]]
    BY SMTT(60), <1>10, <1>1, <1>8, <2>1, <2>5, OneDeeper DEF Same
  <2>7. r \in O
    BY <2>6, OccurringIs
  <2>8. q = Along(SubSeq(h, 1, k + 1), r)
    <3>1. Matches(r, h, q)
      BY <2>6 DEF Matches
    <3> HIDE DEF q
    <3> QED BY <1>2, <2>2, <2>3, <2>5, <3>1, AlongOnly
  <2>9. ~ t[n].drilled => canon_path(q) \in ToSet(s.paths)
    BY <1>5, <1>8, <1>10, <2>1 DEF Told
  <2> QED BY <2>7, <2>8, <2>9
<1>11. ASSUME t[n].drilled, ~ OneName(rows, h), NEW r \in O
       PROVE  \E u \in C : /\ u \in TupSet(st) /\ Same(t, u, n, n) /\ Step(t[n].path, u[n].path)
                           /\ u[n].path = Along(SubSeq(h, 1, k + 1), r)
  <2> DEFINE q == Along(SubSeq(h, 1, k + 1), r)
             m == UserMemberOf(s, q)
             p == t[n].path
  <2>1. r \in rows /\ Agrees(r, Assigned(t))
    BY OccurringIs
  <2>2. k < Len(h)
    <3>1. t[n] = UserMemberOf(s, p)
      BY <1>5, <1>8 DEF Told
    <3>2. UserMemberOf(s, p).drilled = (Len(p) < Len(s.hier) /\ IsDrilled(s, canon_path(p)))
      BY DEF UserMemberOf, Member
    <3>3. Len(p) < Len(s.hier)
      BY <1>11, <3>1, <3>2
    <3> QED BY <1>2, <1>14, <3>3 DEF p
  <2>3. k + 1 \in 0..Len(h) /\ \A j \in 1..k : j \in 1..(k + 1)
    BY <1>9, <2>2
  <2>4. q \in KeysIn(h) /\ Len(q) = k + 1 /\ \A j \in 1..(k + 1) : q[j] = r[h[j]]
    BY <1>2, <2>1, <2>3, AlongPath
  <2>5. \A j \in 1..k : p[j] = r[h[j]]
    <3> SUFFICES ASSUME NEW j \in 1..k PROVE p[j] = r[h[j]]
      OBVIOUS
    <3>1. t[n] \in AnyMem
      BY <1>1, <1>8 DEF Tup
    <3>2. t[n].assignment[h[j]] = p[j] /\ h[j] \in ToSet(h) /\ h[j] \in DOMAIN t[n].assignment
      BY <1>8, <1>14, <3>1, MemGivesAt DEF p
    <3>3. h[j] \in DOMAIN Assigned(t) /\ Assigned(t)[h[j]] = p[j]
      BY <1>1, <1>8, <3>2, AssignedAt
    <3> QED BY <2>1, <3>3 DEF Agrees
  <2> HIDE DEF q, p
  <2>6. Step(p, q)
    BY <1>14, <2>3, <2>4, <2>5 DEF Step, p
  <2>7. IsKid(rows, h, p, q)
    BY <1>2, <2>1, <2>4, InDataIs, <2>6 DEF IsKid, Step
  <2>8. m \in M
    BY <1>5, <1>8, <1>11, <2>4, <2>7 DEF Told, p
  <2>9. m.path = q /\ m.hier = h
    BY <1>2 DEF UserMemberOf, Member
  <2> HIDE DEF m
  <2>10. m \in AnyMem
    BY <1>1, ColumnsAre, <2>8, InSeq, <1>2 DEF cols, M, AnyMem
  <2>11. t = [j \in 1..n |-> t[j]]
    BY <1>8 DEF Row
  <2>12. PICK u : u = [j \in 1..n |-> u[j]] /\ u[n] = m /\ \A j \in 1..n : j # n => u[j] = t[j]
    <3> DEFINE v == [t EXCEPT ![n] = m]
    <3>1. v = [j \in 1..n |-> v[j]] /\ v[n] = m /\ \A j \in 1..n : j # n => v[j] = t[j]
      BY <1>1, <2>11
    <3> HIDE DEF v
    <3> QED BY <3>1
  <2>13. u \in TupSet(st)
    BY <1>7, <1>8, <2>9, <2>10, <2>12 DEF Tup, TupSet
  <2>14. Row(u, cols, n)
    BY <1>8, <2>8, <2>12 DEF Row, M
  <2>15. Tup(u, n) /\ u[n].hier = h
    BY <1>7, <2>13
  <2>16. Agrees(r, Assigned(u))
    <3>1. Step(t[n].path, u[n].path)
      BY <2>6, <2>9, <2>12 DEF p
    <3>2. Matches(r, u[n].hier, u[n].path)
      BY <2>4, <2>9, <2>12 DEF Matches
    <3>3. u[n].hier = t[n].hier
      BY <1>8, <2>15
    <3>4. Tup(t, n) /\ Tup(u, n) /\ n \in Nat /\ n \in 1..n
      BY <1>1, <1>8, <2>15
    <3> QED BY <2>1, <2>12, <3>1, <3>2, <3>3, <3>4, StillAgrees
  <2>17. _drill_allowed(Specs(st), Assigned(u))
    <3>1. _drill_allowed(Specs(st), Assigned(t))
      BY <1>8 DEF Occ, Occurs
    <3>2. IsUser(t[n].hier) /\ t \in TupSet(st) /\ \A j \in 1..n : j # n => u[j] = t[j]
      BY <1>8, <2>12
    <3> QED BY <1>1, <2>13, <3>1, <3>2, DrillKept
  <2>18. Occ(u)
    BY <2>1, <2>16, OccurringIs, <2>17 DEF Occ, Occurs
  <2>19. u \in C /\ Same(t, u, n, n)
    BY <1>3, <2>12, <2>14, <2>18 DEF Same
  <2> QED BY <2>6, <2>9, <2>12, <2>13, <2>19 DEF p, q
<1>12. ChildrenTrue(st, h, C, t, n, O)
  BY <1>10 DEF ChildrenTrue, s, k
<1>13. ASSUME t[n].drilled, ~ OneName(rows, h) PROVE ChildrenAll(st, h, C, t, n, O)
  <2> SUFFICES ASSUME NEW r \in O
               PROVE  \E u \in C : /\ Same(t, u, n, n) /\ Step(t[n].path, u[n].path)
                                   /\ u[n].path = Along(SubSeq(h, 1, k + 1), r)
    BY DEF ChildrenAll, k
  <2> QED BY <1>11, <1>13
<1> QED BY <1>12, <1>13

(* What a member tells.                                                      *)

(* A tuple of an axis has a member of each of its hierarchies.               *)
LEMMA TupIs ==
  ASSUME NEW st, StateOK(st), NEW T \in TupSet(st), NEW n, n = Len(st.order)
  PROVE  /\ n \in Nat /\ Tup(T, n) /\ Len(T) = n /\ DOMAIN T = 1..n
         /\ \A j \in 1..n : T[j].hier = st.order[j] /\ T[j].hier \in Hierarchy /\ T[j].path \in KeysIn(T[j].hier)
<1>1. n \in Nat
  BY SpecsAre
<1>2. T = [j \in 1..n |-> T[j]] /\ Tup(T, n) /\ \A j \in 1..n : T[j].hier = st.order[j]
  BY DEF TupSet, Tup
<1>3. Len(T) = n /\ DOMAIN T = 1..n
  BY <1>1, <1>2, ListSet
<1>4. \A j \in 1..n : T[j].hier \in Hierarchy /\ T[j].path \in KeysIn(T[j].hier)
  BY <1>2, MemGives DEF Tup
<1> QED BY <1>1, <1>2, <1>3, <1>4

(* A member whose fields no other one has.                                   *)
LEMMA AloneIs ==
  ASSUME NEW n, NEW t, DOMAIN t.members = 1..n, NEW i, ~ Shares(t, i)
  PROVE  Alone(t.members, n, i)
  BY DEF Shares, Alone

(* One level under a key.                                                    *)
LEMMA StepPrefix ==
  ASSUME NEW a \in Seq(Int), NEW b \in Seq(Int)
  PROVE  (Len(b) = Len(a) + 1 /\ IsPrefix(a, b)) <=> Step(a, b)
<1> DEFINE l == Len(a)
           m == Len(b)
           eq == \A j \in 1..l : a[j] = b[j]
<1>1. IsPrefix(a, b) <=> l <= m /\ eq
  BY PrefixMeans
<1>2. l \in Nat /\ m \in Nat
  OBVIOUS
<1>3. Step(a, b) <=> m = l + 1 /\ eq
  BY DEF Step
<1> HIDE DEF l, m, eq
<1>4. m = l + 1 => l <= m
  BY <1>2
<1> QED BY <1>1, <1>3, <1>4 DEF l, m

(* What an axis shows under a member is in the tuples that its columns make. *)
LEMMA ShownUnderIs ==
  ASSUME NEW rows \in Table, NEW st, StateOK(st), NEW measures \in Seq(Nat),
         NEW axis, axis = Tuples(rows, st, measures), NEW t \in ToSet(axis), NEW n, n = Len(st.order), n # 0,
         NEW C, C = ToSet(Crossed(rows, Columns(rows, Specs(st)), Specs(st))), NEW p
  PROVE  /\ t.members \in C
         /\ p \in ShownUnder(axis, t, n) <=>
              \E u \in C : Same(t.members, u, n, n) /\ Step(t.members[n].path, u[n].path) /\ p = u[n].path
<1> DEFINE T == t.members
           h == T[n].hier
           Above(q) == Len(q) = Len(T[n].path) + 1 /\ IsPrefix(T[n].path, q)
<1>1. C \subseteq TupSet(st)
  <2> DEFINE cr == Crossed(rows, Columns(rows, Specs(st)), Specs(st))
  <2>1. cr \in Seq(TupSet(st))
    BY CrossedAre
  <2> HIDE DEF cr
  <2> QED BY <2>1, InSeq DEF cr
<1>2. T \in C /\ \A u \in C : u # <<>> => [members |-> u, measure |-> t.measure] \in ToSet(axis)
  BY TuplesHave
<1>3. \A u \in ToSet(axis) : u.members \in C
  BY TuplesHave
<1>4. n \in Nat /\ n \in 1..n
  BY SpecsAre
<1>5. \A u \in C : Len(u) = n /\ DOMAIN u = 1..n /\ u[n].hier = st.order[n] /\ u[n].path \in KeysIn(u[n].hier) /\ u[n].hier \in Hierarchy
  BY <1>1, <1>4, TupIs
<1>6. \A u \in C : Above(u[n].path) <=> Step(T[n].path, u[n].path)
  <2> SUFFICES ASSUME NEW u \in C PROVE Above(u[n].path) <=> Step(T[n].path, u[n].path)
    OBVIOUS
  <2> DEFINE a == T[n].path
             b == u[n].path
  <2>1. a \in Seq(Int) /\ b \in Seq(Int) /\ Len(a) \in Nat /\ Len(b) \in Nat
    <3>1. h \in Hierarchy /\ a \in KeysIn(h) /\ b \in KeysIn(h)
      BY <1>2, <1>5
    <3> HIDE DEF h, a, b
    <3> QED BY <3>1, KeyIs
  <2> HIDE DEF a, b
  <2> QED BY <2>1, StepPrefix DEF a, b
<1>7. ASSUME NEW u \in ToSet(axis)
      PROVE  u \in Beside(axis, t, n) <=> u.measure = t.measure /\ Same(T, u.members, n, n)
  BY <1>2, <1>3, <1>5 DEF Beside, Same
<1> HIDE DEF Above
<1>8. p \in ShownUnder(axis, t, n) <=> \E u \in Beside(axis, t, n) : p = u.members[n].path /\ Above(p)
  BY DEF ShownUnder, Above
<1>9. ASSUME NEW u \in Beside(axis, t, n), p = u.members[n].path, Above(p)
      PROVE  \E v \in C : Same(T, v, n, n) /\ Step(T[n].path, v[n].path) /\ p = v[n].path
  BY <1>3, <1>7, <1>6, <1>9 DEF Beside
<1>10. ASSUME NEW v \in C, Same(T, v, n, n), Step(T[n].path, v[n].path), p = v[n].path
       PROVE  \E u \in Beside(axis, t, n) : p = u.members[n].path /\ Above(p)
  <2> DEFINE b == [members |-> v, measure |-> t.measure]
  <2>1. v # <<>>
    BY <1>5
  <2>2. b \in ToSet(axis) /\ b.members = v /\ b.measure = t.measure
    BY <1>2, <2>1
  <2> HIDE DEF b
  <2>3. b \in Beside(axis, t, n)
    BY <1>7, <1>10, <2>2
  <2> QED BY <1>6, <1>10, <2>2, <2>3
<1> QED BY <1>2, <1>8, <1>9, <1>10

(* What the last member of a tuple tells is true, in a user hierarchy.       *)
LEMMA UserIsTold ==
  ASSUME NEW rows \in Table, NEW st, Parented(st), NEW measures \in Seq(Nat),
         NEW axis, axis = Tuples(rows, st, measures), NEW t \in ToSet(axis),
         NEW i \in DOMAIN t.members, i = Len(t.members), ~ Shares(t, i), IsUser(t.members[i].hier), t.members[i].path # <<>>,
         st.spec[t.members[i].hier].flat = {}
  PROVE  UserTold(st.spec[t.members[i].hier], rows, axis, t, i)
<1> DEFINE T == t.members
           n == Len(st.order)
           h == st.order[n]
           C == ToSet(Crossed(rows, Columns(rows, Specs(st)), Specs(st)))
           O == Occurring(rows, Assigned(T))
           k == Len(T[n].path)
           X == ShownUnder(axis, t, n)
<1>1. StateOK(st)
  BY DEF Parented
<1>2. T \in TupSet(st)
  <2>1. Tuples(rows, st, measures) \in Seq(AxisTup(st))
    BY <1>1, TuplesAre
  <2>2. t \in AxisTup(st)
    BY <2>1, InSeq
  <2> QED BY <2>2 DEF AxisTup
<1>3. n \in Nat /\ Len(T) = n /\ DOMAIN T = 1..n /\ i = n /\ n # 0 /\ T[n].hier = h
  <2>1. n \in Nat /\ Len(T) = n /\ DOMAIN T = 1..n /\ \A j \in 1..n : T[j].hier = st.order[j]
    BY <1>1, <1>2, TupIs
  <2> HIDE DEF n, T
  <2>2. i = n /\ i \in 1..n
    BY <2>1 DEF T
  <2> QED BY <2>1, <2>2
<1>4. Alone(T, n, n)
  BY <1>3, AloneIs
<1>5. T \in C
  BY <1>1, <1>3, ShownUnderIs
<1>6. \A p : p \in X <=> \E u \in C : Same(T, u, n, n) /\ Step(T[n].path, u[n].path) /\ p = u[n].path
  BY SMTT(60), <1>1, <1>3, ShownUnderIs
<1>7. IsUser(h) /\ T[n].path # <<>> /\ st.spec[h].flat = {} /\ t.members[i].hier = h /\ t.members[i] = T[n]
  BY <1>3
<1>8. /\ ChildrenTrue(st, h, C, T, n, O)
      /\ T[n].drilled /\ ~ OneName(rows, h) => ChildrenAll(st, h, C, T, n, O)
  <2>1. /\ n = Len(st.order) /\ n # 0 /\ h = st.order[n] /\ IsUser(h) /\ st.spec[h].flat = {} /\ T \in C /\ Alone(T, n, n)
        /\ C = ToSet(Crossed(rows, Columns(rows, Specs(st)), Specs(st))) /\ O = Occurring(rows, Assigned(T))
        /\ T[n].path # <<>>
    BY <1>3, <1>4, <1>5, <1>7
  <2> HIDE DEF T, n, h, C, O
  <2> QED BY <2>1, ChildrenShown
<1>9. ChildrenIn(O, T[n]) = {Along(SubSeq(h, 1, k + 1), r) : r \in O}
  BY <1>3 DEF ChildrenIn
<1> HIDE DEF C, O, k, X
<1>10. T[n].drilled /\ ~ OneName(rows, h) => X = ChildrenIn(O, T[n])
  <2> SUFFICES ASSUME T[n].drilled, ~ OneName(rows, h) PROVE X = ChildrenIn(O, T[n])
    OBVIOUS
  <2> DEFINE down(r) == Along(SubSeq(h, 1, k + 1), r)
  <2>1. ASSUME NEW p \in X PROVE p \in {down(r) : r \in O}
    <3>1. PICK u \in C : Same(T, u, n, n) /\ Step(T[n].path, u[n].path) /\ p = u[n].path
      BY <1>6, <2>1
    <3>2. PICK r \in O : u[n].path = down(r)
      BY <1>8, <3>1 DEF ChildrenTrue, k
    <3> QED BY <3>1, <3>2
  <2>2. ASSUME NEW r \in O PROVE down(r) \in X
    <3>1. PICK u \in C : Same(T, u, n, n) /\ Step(T[n].path, u[n].path) /\ u[n].path = down(r)
      BY <1>8 DEF ChildrenAll, k
    <3> HIDE DEF down
    <3> QED BY <1>6, <3>1
  <2> HIDE DEF down
  <2>3. X = {down(r) : r \in O}
    BY <2>1, <2>2
  <2> QED BY <1>9, <2>3 DEF down
<1>11. ~ T[n].drilled => canon_paths(X) \subseteq ToSet(st.spec[h].paths)
  <2> SUFFICES ASSUME ~ T[n].drilled, NEW p \in X PROVE canon_path(p) \in ToSet(st.spec[h].paths)
    BY DEF canon_paths
  <2>1. PICK u \in C : Same(T, u, n, n) /\ Step(T[n].path, u[n].path) /\ p = u[n].path
    BY <1>6
  <2> QED BY <1>8, <2>1 DEF ChildrenTrue
<1>12. t.members[n].hier = h
  BY <1>3
<1> QED BY <1>3, <1>10, <1>11, <1>12 DEF UserTold, X, O

(* A value that is told to be collapsed shows none of the next hierarchy.    *)
LEMMA AttributeIsTold ==
  ASSUME NEW rows \in Table, NEW st, StateOK(st), NEW measures \in Seq(Nat),
         NEW t \in ToSet(Tuples(rows, st, measures)),
         NEW i \in DOMAIN t.members, i < Len(t.members), ~ Shares(t, i), ~ IsUser(t.members[i].hier),
         t.members[i].path \notin {<<>>, <<Null>>}
  PROVE  AttributeTold(t, i)
<1> DEFINE T == t.members
           n == Len(st.order)
           g == T[i].hier
           c == T[i + 1].hier
           p == T[i].path
           A == Assigned(T)
           up == Specs(st)[i]
           s == Specs(st)[i + 1]
<1> SUFFICES ASSUME ~ T[i].drilled, ~ IsUser(c), T[i + 1].path # <<>> PROVE FALSE
  BY DEF AttributeTold
<1>2. T \in TupSet(st) /\ T \in ToSet(Crossed(rows, Columns(rows, Specs(st)), Specs(st)))
  BY TuplesHave DEF AxisTup
<1>3. /\ n \in Nat /\ Tup(T, n) /\ Len(T) = n /\ DOMAIN T = 1..n
      /\ \A j \in 1..n : T[j].hier = st.order[j] /\ T[j].hier \in Hierarchy /\ T[j].path \in KeysIn(T[j].hier)
  BY <1>2, TupIs
<1> HIDE DEF n
<1>4. i \in 1..n /\ i # n /\ i + 1 \in 1..n
  BY <1>3
<1>5. Row(T, Columns(rows, Specs(st)), n) /\ Occurs(rows, Specs(st), A)
  BY <1>2, CrossedHas DEF n
<1>6. /\ g \in Hierarchy /\ c \in Hierarchy /\ p \in KeysIn(g) /\ T[i + 1].path \in KeysIn(c)
      /\ g = st.order[i] /\ c = st.order[i + 1] /\ T[i] \in AnyMem /\ T[i + 1] \in AnyMem
  BY <1>3, <1>4 DEF Tup
<1>7. up \in SpecIn(g) /\ s \in SpecIn(c) /\ up.hier = g /\ s.hier = c /\ s \in ToSet(Specs(st))
  BY <1>4, <1>6, SpecsAre, SpecIs DEF n, ToSet
<1>8. Len(p) = 1 /\ p[1] # Null /\ p[1] \in Int
  <2>1. Len(p) \in 0..Len(g) /\ p \in Seq(Int) /\ \A j \in 1..Len(p) : p[j] \in Int
    BY <1>6, KeyIs
  <2>2. Len(g) = 1
    <3>1. Len(g) \in Nat /\ Len(g) # 0 /\ ~ (Len(g) > 1)
      BY <1>6, HierIs DEF IsUser
    <3> DEFINE l == Len(g)
    <3>2. l \in Nat /\ l # 0 /\ ~ (l > 1)
      BY <3>1
    <3> HIDE DEF l
    <3>3. l = 1
      BY <3>2
    <3> QED BY <3>3 DEF l
  <2>3. p # <<>> /\ p # <<Null>>
    OBVIOUS
  <2> HIDE DEF p, g
  <2>4. Len(p) = 1
    BY <2>1, <2>2, <2>3, EmptySeq
  <2>5. p[1] \in Int
    BY <2>1, <2>4
  <2>6. p[1] # Null
    <3> SUFFICES ASSUME p[1] = Null PROVE FALSE
      OBVIOUS
    <3> DEFINE one == <<Null>>
    <3>1. one \in Seq(Int) /\ Len(one) = 1 /\ one[1] = Null
      BY DEF Null
    <3> HIDE DEF one
    <3>2. \A j \in 1..Len(p) : p[j] = one[j]
      BY <2>4, <3>1
    <3>3. p = one
      BY <2>1, <2>4, <3>1, <3>2, SameSeq
    <3> QED BY <2>3, <3>3 DEF one
  <2> QED BY <2>4, <2>5, <2>6
<1>9. g[1] \in DOMAIN A /\ A[g[1]] = p[1]
  <2>1. T[i].assignment[g[1]] = p[1] /\ g[1] \in ToSet(g) /\ g[1] \in DOMAIN T[i].assignment
    <3>1. 1 \in 1..Len(T[i].path) /\ T[i] \in AnyMem
      BY <1>6, <1>8
    <3> HIDE DEF T
    <3> QED BY <3>1, MemGivesAt
  <2>2. Alone(T, n, i)
    BY <1>3, AloneIs
  <2> QED BY <1>3, <1>4, <2>1, <2>2, AssignedAt
<1>10. c[1] \in DOMAIN A
  <2>1. 1 \in 1..Len(T[i + 1].path)
    <3> DEFINE q == T[i + 1].path
    <3>1. q \in Seq(Int) /\ Len(q) \in 0..Len(c) /\ q # <<>>
      BY <1>6, KeyIs
    <3>2. Len(c) \in Nat
      BY <1>6, HierIs
    <3> HIDE DEF q, c
    <3>3. Len(q) # 0
      BY <3>1, EmptySeq
    <3> QED BY <3>1, <3>2, <3>3 DEF q
  <2>2. c[1] \in DOMAIN T[i + 1].assignment
    BY <1>6, <2>1, MemGives
  <2>3. Gives(T, n, c[1]) # {}
    BY <1>4, <2>2 DEF Gives
  <2> QED BY <1>3, <2>3, AssignedHas
<1>11. T[i].drilled = _parent_drilled(s, up, p[1])
  <2>1. T[i] \in ToSet(Columns(rows, Specs(st))[i])
    BY <1>4, <1>5 DEF Row
  <2> QED BY <1>4, <2>1, MarkedHave DEF n
<1>12. s.parent = g /\ ~ ((s.limited => Text(p[1]) \in s.include) /\ Text(p[1]) \notin s.exclude)
  BY <1>7, <1>11 DEF _parent_drilled
<1>13. Text(p[1]) = p[1]
  BY <1>8 DEF Text
<1>14. _drill_allowed(Specs(st), A)
  BY <1>5 DEF Occurs
<1>15. g # <<>>
  BY <1>6, HierarchyAssumption
<1> HIDE DEF A, s, up, g, c, p, T
<1>16. (s.limited => p[1] \in s.include) /\ p[1] \notin s.exclude
  BY <1>7, <1>8, <1>9, <1>10, <1>12, <1>15, <1>14 DEF _drill_allowed
<1> QED BY <1>12, <1>13, <1>16

(* A hierarchy is on one axis only: what is asked of it there is what is     *)
(* asked of it.                                                              *)
LEMMA SpecForIs ==
  ASSUME NEW s \in Statement, NEW k \in 1..Len(s.axes), NEW h \in ToSet(Classified(s)[k].order),
         NEW specs, specs = UNION {ToSet(Specs(st)) : st \in ToSet(Classified(s))}
  PROVE  SpecFor(specs, h) = Classified(s)[k].spec[h]
<1> DEFINE cl == Classified(s)
           N == Len(s.axes)
<1>1. /\ DOMAIN cl = 1..N /\ k \in 1..N
      /\ \A i \in 1..N : cl[i] = _classify(s.axes[i]) /\ StateOK(cl[i])
  BY ClassifiedAre
<1>2. \A i \in 1..N : h \in ToSet(cl[i].order) => i = k
  BY StatementIs, <1>1 DEF AxesTyped
<1>3. h \in ToSet(cl[k].order)
  OBVIOUS
<1>4. specs = UNION {ToSet(Specs(st)) : st \in ToSet(cl)} /\ ToSet(cl) = {cl[i] : i \in 1..N}
  BY <1>1 DEF ToSet
<1> HIDE DEF cl, N
<1>5. \A i \in 1..N : ToSet(Specs(cl[i])) = {cl[i].spec[g] : g \in ToSet(cl[i].order)}
  BY <1>1, SpecsAre
<1>6. \A i \in 1..N : \A g \in ToSet(cl[i].order) : g \in Hierarchy /\ cl[i].spec[g].hier = g
  <2> SUFFICES ASSUME NEW i \in 1..N, NEW g \in ToSet(cl[i].order) PROVE g \in Hierarchy /\ cl[i].spec[g].hier = g
    OBVIOUS
  <2>1. g \in Hierarchy
    BY <1>1, InSeq DEF StateOK
  <2>2. cl[i].spec[g] \in SpecIn(g)
    BY <1>1, <2>1 DEF StateOK
  <2> QED BY <2>1, <2>2, SpecIs
<1>7. cl[k].spec[h] \in specs /\ cl[k].spec[h].hier = h
  <2>1. cl[k].spec[h] \in ToSet(Specs(cl[k])) /\ cl[k].spec[h].hier = h
    BY <1>1, <1>3, <1>5, <1>6
  <2>2. ToSet(Specs(cl[k])) \subseteq specs
    <3> DEFINE own(st) == ToSet(Specs(st))
    <3>1. specs = UNION {own(st) : st \in ToSet(cl)} /\ cl[k] \in ToSet(cl)
      BY <1>1, <1>4
    <3> HIDE DEF own
    <3>2. own(cl[k]) \subseteq specs
      BY <3>1
    <3> QED BY <3>2 DEF own
  <2> QED BY <2>1, <2>2
<1>8. ASSUME NEW x \in specs, x.hier = h PROVE x = cl[k].spec[h]
  <2>1. PICK i \in 1..N : x \in ToSet(Specs(cl[i]))
    BY <1>4
  <2>2. PICK g \in ToSet(cl[i].order) : x = cl[i].spec[g]
    BY <1>5, <2>1
  <2>3. g = h
    BY <1>6, <1>8, <2>2
  <2>4. i = k
    BY <1>2, <2>2, <2>3
  <2> QED BY <2>2, <2>3, <2>4
<1>9. SpecFor(specs, h) = cl[k].spec[h]
  BY <1>7, <1>8 DEF SpecFor
<1> QED BY <1>9 DEF cl

(* Parents are on the axis of their children.                                *)
LEMMA AxisParented ==
  ASSUME NEW s \in Statement, NEW k \in 1..Len(s.axes)
  PROVE  Parented(Classified(s)[k]) /\ StateOK(Classified(s)[k])
<1>1. Classified(s)[k] = _classify(s.axes[k]) /\ StateOK(Classified(s)[k]) /\ s.axes[k] \in Seq(Entry)
  BY ClassifiedAre
<1> QED BY <1>1, ClassifiedParents DEF Parented

(* An axis that is shown has the tuples of one of the statement's.           *)
LEMMA AxisIs ==
  ASSUME NEW d \in Data, NEW s \in Statement, NEW axis \in ToSet(Shown(d, s))
  PROVE  \E k \in 1..Len(s.axes) : axis = Tuples(Scoped(d, s), Classified(s)[k], Wanted(s))
<1>1. PICK k : Places(Len(s.axes), AllTuples(d, s), Shown(d, s), k)
  BY ShownIs
<1>2. PICK j \in DOMAIN Shown(d, s) : axis = Shown(d, s)[j]
  BY DEF ToSet
<1>3. axis = AllTuples(d, s)[k[j]] /\ k[j] \in 1..Len(s.axes)
  BY <1>1, <1>2 DEF Places
<1> QED BY <1>3 DEF AllTuples

(* The measures of a statement.                                              *)
LEMMA WantedIs ==
  ASSUME NEW s \in Statement
  PROVE  Wanted(s) \in Seq(Nat)
<1>1. /\ Len(s.axes) \in Nat /\ s.slicer \in Seq(Entry) /\ DOMAIN Classified(s) = 1..Len(s.axes)
      /\ \A i \in 1..Len(s.axes) : StateOK(Classified(s)[i])
  BY StatementIs, ClassifiedAre
<1> QED BY <1>1, MeasuresAre DEF Wanted

(* What the next gesture in Excel starts from is true, with the exceptions   *)
(* that DrillStateTold names: a member of a user hierarchy told to be        *)
(* drilled down has exactly its children on the axis, one told to be         *)
(* collapsed none but those that are named, and an attribute's collapsed     *)
(* value shows none of the next hierarchy.                                   *)
THEOREM DrillStateToldCorrect == PivotSpec => []DrillStateTold
<1>1. ASSUME Replied, Answered, NEW rows, rows = Scoped(data, stm),
             NEW specs, specs = UNION {ToSet(Specs(st)) : st \in ToSet(Classified(stm))},
             NEW axis \in ToSet(answer.axes), NEW t \in ToSet(axis), NEW i \in DOMAIN t.members, ~ Shares(t, i)
      PROVE  /\ IsUser(t.members[i].hier) /\ i = Len(t.members) /\ t.members[i].path # <<>>
                  /\ SpecFor(specs, t.members[i].hier).flat = {} =>
                  UserTold(SpecFor(specs, t.members[i].hier), rows, axis, t, i)
             /\ ~ IsUser(t.members[i].hier) /\ i < Len(t.members) /\ t.members[i].path \notin {<<>>, <<Null>>} =>
                  AttributeTold(t, i)
  <2>1. data \in Data /\ stm \in Statement /\ answer = execute(data, stm) /\ ~ answer.error
    BY <1>1 DEF Replied, Answered
  <2>2. answer.axes = Shown(data, stm)
    BY <2>1, ExecutedIs
  <2>3. PICK k \in 1..Len(stm.axes) : axis = Tuples(rows, Classified(stm)[k], Wanted(stm))
    BY <1>1, <2>1, <2>2, AxisIs
  <2>4. Wanted(stm) \in Seq(Nat) /\ rows \in Table
    BY <1>1, <2>1, WantedIs, ShownIs
  <2> DEFINE st == Classified(stm)[k]
             h == t.members[i].hier
  <2>5. Parented(st) /\ StateOK(st)
    BY <2>1, AxisParented
  <2>6. h \in ToSet(st.order)
    <3>1. t \in AxisTup(st)
      <4>1. Tuples(rows, st, Wanted(stm)) \in Seq(AxisTup(st))
        BY <2>4, <2>5, TuplesAre
      <4> HIDE DEF st
      <4>2. axis \in Seq(AxisTup(st))
        BY <2>3, <4>1 DEF st
      <4> QED BY <1>1, <4>2, InSeq
    <3>2. t.members \in TupSet(st)
      BY <3>1 DEF AxisTup
    <3>3. /\ DOMAIN t.members = 1..Len(st.order) /\ \A j \in 1..Len(st.order) : t.members[j].hier = st.order[j]
          /\ Len(st.order) \in Nat
      BY <2>5, <3>2, TupIs
    <3>4. DOMAIN st.order = 1..Len(st.order)
      BY <2>5 DEF StateOK
    <3> QED BY <1>1, <3>3, <3>4 DEF ToSet
  <2>7. SpecFor(specs, h) = st.spec[h]
    BY <1>1, <2>1, <2>6, SpecForIs
  <2> HIDE DEF st
  <2>8. axis = Tuples(rows, st, Wanted(stm))
    BY <2>3 DEF st
  <2>9. ASSUME IsUser(h), i = Len(t.members), t.members[i].path # <<>>, st.spec[h].flat = {}
        PROVE  UserTold(st.spec[h], rows, axis, t, i)
    BY <1>1, <2>4, <2>5, <2>8, <2>9, UserIsTold
  <2>10. ASSUME ~ IsUser(h), i < Len(t.members), t.members[i].path \notin {<<>>, <<Null>>}
         PROVE  AttributeTold(t, i)
    BY <1>1, <2>4, <2>5, <2>8, <2>10, AttributeIsTold
  <2> QED BY <2>7, <2>9, <2>10
<1>2. Replied => DrillStateTold
  BY <1>1 DEF Scoped, DrillStateTold
<1> QED BY <1>2, RepliedAlways, PTL
===============================================================================
