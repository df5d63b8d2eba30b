-------------------------- MODULE SessionContextProofs --------------------------
(***************************************************************************)
(* Proofs about module SessionContext, for any number of sessions, threads,*)
(* roles and warehouses: its types, ChoiceComesBack and DriftExplained.    *)
(***************************************************************************)
EXTENDS SessionContext, TLAPS

(* A context is set in a session that is signed in; a session that is being  *)
(* signed in is in the hands of one thread.                                  *)
Alone ==
  \A t \in Thread : req[t] # None =>
    /\ req[t].op = "set" => req[t].s \in up
    /\ req[t].op = "sign_in" =>
         /\ req[t].s \notin up
         /\ \A u \in Thread : req[u] # None /\ req[u].s = req[t].s => u = t

(* Inside the block `with entry.lock` of its session.                        *)
Holds(t) ==
  req[t] # None /\ req[t].op = "set"
    /\ req[t].at \in {"roles", "use_role", "warehouses", "use_wh", "read"}

OneLocked ==
  \A t, u \in Thread : Holds(t) /\ Holds(u) /\ req[t].s = req[u].s => t = u

(* What the steps of a request are.                                          *)
StepSound(q) ==
  /\ q.op = "sign_in" => q.at \in {"load", "use_role", "use_wh", "read"}
  /\ q.op = "set" /\ q.at = "use_role" => q.r # None
  /\ q.op = "set" /\ q.at = "use_wh" => q.w # None

StepsSound == \A t \in Thread : req[t] # None => StepSound(req[t])

(* What a request has read of its connection and of the row is what is there,*)
(* unless it was overtaken.                                                  *)
ReadSound(q) ==
  /\ q.op = "set" /\ q.at = "read" /\ q.w # None => wh[q.s] = q.w
  /\ q.op = "set" /\ q.at \in {"load", "write"} =>
       /\ q.gotR # None
       /\ q.w # None => q.gotW # None
       /\ ~ q.overtaken => q.gotR = role[q.s] /\ q.gotW = wh[q.s]
  /\ ((q.op = "set" /\ q.at = "write") \/ (q.op = "sign_in" /\ q.at # "load")) /\ ~ q.overtaken
       => q.oldR = lastRole /\ q.oldW = lastWh

ReadsSound == \A t \in Thread : req[t] # None => ReadSound(req[t])

(* How far the replay of a remembered context has come.                      *)
ReplaySound(q) ==
  q.op = "sign_in" /\ ~ q.hindered /\ q.oldR \in granted =>
    /\ q.at \in {"use_wh", "read"} => role[q.s] = q.oldR
    /\ q.at = "read" /\ q.oldW \in Usable[q.oldR] => wh[q.s] = q.oldW

ReplaysSound == \A t \in Thread : req[t] # None => ReplaySound(req[t])

(* The row is what a session runs as, unless that is explained by drift or a *)
(* request that has changed the connection has not yet written the row.      *)
PendsRole(q) ==
  q # None /\ q.op = "set" /\ q.r # None
    /\ q.at \in {"warehouses", "use_wh", "read", "load", "write"}

PendsWh(q) ==
  q # None /\ q.op = "set" /\ q.w # None /\ q.at \in {"read", "load", "write"}

RolePending(s) == \E t \in Thread : PendsRole(req[t]) /\ req[t].s = s
WhPending(s) == \E t \in Thread : PendsWh(req[t]) /\ req[t].s = s

RoleExplained(s) == "role" \in drift[s] \/ lastRole = role[s] \/ RolePending(s)
WhExplained(s) == "wh" \in drift[s] \/ lastWh = wh[s] \/ WhPending(s)

Explained == \A s \in up : RoleExplained(s) /\ WhExplained(s)

IInv ==
  TypeOK /\ Alone /\ OneLocked /\ StepsSound /\ ReadsSound /\ ReplaysSound /\ Explained
-----------------------------------------------------------------------------
(* The invariant holds at the start, and every action keeps it.              *)

LEMMA InitInv == Init => IInv
BY ContextAssumption
   DEF Init, IInv, TypeOK, Alone, OneLocked, Holds, StepsSound, ReadsSound, ReplaysSound,
       Explained, OrNone

(* What is explained stays so while neither side of it changes and no        *)
(* request that pends is over.                                               *)
LEMMA RoleKept ==
  ASSUME NEW s \in Session, RoleExplained(s),
         role'[s] = role[s], lastRole' = lastRole,
         "role" \in drift[s] => "role" \in drift'[s],
         \A u \in Thread : PendsRole(req[u]) /\ req[u].s = s
                             => PendsRole(req'[u]) /\ req'[u].s = s
  PROVE  RoleExplained(s)'
BY DEF RoleExplained, RolePending

LEMMA WhKept ==
  ASSUME NEW s \in Session, WhExplained(s),
         wh'[s] = wh[s], lastWh' = lastWh,
         "wh" \in drift[s] => "wh" \in drift'[s],
         \A u \in Thread : PendsWh(req[u]) /\ req[u].s = s
                             => PendsWh(req'[u]) /\ req'[u].s = s
  PROVE  WhExplained(s)'
BY DEF WhExplained, WhPending

(* Another request is overtaken: nothing else about it changes.              *)
Overtaken(q, p) ==
  /\ q \in Request
  /\ q.op = p.op /\ q.at = p.at /\ q.s = p.s /\ q.r = p.r /\ q.w = p.w
  /\ q.gotR = p.gotR /\ q.gotW = p.gotW /\ q.oldR = p.oldR /\ q.oldW = p.oldW
  /\ q.hindered = p.hindered
  /\ q.overtaken

LEMMA OvertakenIs ==
  ASSUME NEW p \in Request
  PROVE  Overtaken([p EXCEPT !.overtaken = TRUE], p)
BY DEF Overtaken, Request

LEMMA MovedTo ==
  ASSUME NEW q \in Request,
         NEW p \in {"roles", "use_role", "warehouses", "use_wh", "read", "load", "write"}
  PROVE  [q EXCEPT !.at = p] \in Request
BY DEF Request

LEMMA OvertakeIs ==
  ASSUME TypeOK, NEW t \in Thread, req[t] # None, NEW s \in Session,
         NEW p \in {"roles", "use_role", "warehouses", "use_wh", "read", "load", "write"},
         Overtake(t, s, p)
  PROVE  /\ req' \in [Thread -> Request \cup {None}]
         /\ req'[t] = [req[t] EXCEPT !.at = p]
         /\ \A u \in Thread \ {t} :
              IF req[u] # None /\ req[u].s = s /\ req[u].at \in {"load", "write"}
              THEN req'[u] # None /\ Overtaken(req'[u], req[u]) ELSE req'[u] = req[u]
<1> USE ContextAssumption
<1>1. ASSUME NEW u \in Thread, req[u] # None
      PROVE  req[u] \in Request
  BY <1>1 DEF TypeOK
<1>2. [req[t] EXCEPT !.at = p] \in Request
  BY <1>1, MovedTo
<1>3. \A u \in Thread : req[u] # None => [req[u] EXCEPT !.overtaken = TRUE] \in Request
  BY <1>1, OvertakenIs DEF Overtaken
<1>4. req' \in [Thread -> Request \cup {None}]
  BY <1>2, <1>3 DEF Overtake, TypeOK
<1>5. ASSUME NEW u \in Thread \ {t}
      PROVE  IF req[u] # None /\ req[u].s = s /\ req[u].at \in {"load", "write"}
             THEN req'[u] # None /\ Overtaken(req'[u], req[u]) ELSE req'[u] = req[u]
  BY <1>1, OvertakenIs DEF Overtake, Overtaken
<1> QED BY <1>4, <1>5 DEF Overtake

LEMMA CommittedIs ==
  ASSUME TypeOK, NEW t \in Thread, req[t] # None, NEW written \in SUBSET {"role", "wh"},
         Committed(t, written)
  PROVE  /\ req' \in [Thread -> Request \cup {None}]
         /\ drift' \in [Session -> SUBSET {"role", "wh"}]
         /\ req'[t] = None
         /\ \A u \in Thread \ {t} :
              IF HasLoaded(u)
              THEN req[u] # None /\ req'[u] # None /\ Overtaken(req'[u], req[u])
              ELSE req'[u] = req[u]
<1> USE ContextAssumption
<1>1. \A u \in Thread : HasLoaded(u) => req[u] # None
  BY DEF HasLoaded, Is, At
<1>2. ASSUME NEW u \in Thread, req[u] # None
      PROVE  req[u] \in Request
  BY <1>2 DEF TypeOK
<1>3. \A u \in Thread : req[u] # None => [req[u] EXCEPT !.overtaken = TRUE] \in Request
  BY <1>2, OvertakenIs DEF Overtaken
<1>4. req' \in [Thread -> Request \cup {None}]
  BY <1>1, <1>3 DEF Committed, TypeOK
<1>5. ASSUME NEW u \in Thread \ {t}
      PROVE  IF HasLoaded(u)
             THEN req[u] # None /\ req'[u] # None /\ Overtaken(req'[u], req[u])
             ELSE req'[u] = req[u]
  <2>1. CASE HasLoaded(u)
    <3>1. req'[u] = [req[u] EXCEPT !.overtaken = TRUE]
      BY <2>1 DEF Committed, TypeOK
    <3> QED BY <1>1, <1>2, <1>3, <2>1, <3>1, OvertakenIs
  <2>2. CASE ~ HasLoaded(u)
    BY <2>2 DEF Committed, TypeOK
  <2> QED BY <2>1, <2>2
<1>6. drift' \in [Session -> SUBSET {"role", "wh"}]
  BY DEF Committed, TypeOK
<1> QED BY <1>4, <1>5, <1>6 DEF Committed

LEMMA AskInv == ASSUME IInv, NEW t \in Thread, NEW s \in Session, NEW r \in OrNone(Role), NEW w \in OrNone(Warehouse), Ask(t, s, r, w) PROVE IInv'
<1> USE ContextAssumption DEF IInv, OrNone, Ask, Begin, connVars, rowVars
<1>1. TypeOK'
  BY DEF TypeOK, Request, Or
<1>2. Alone'
  BY DEF Alone, TypeOK, Request, Busy
<1>3. OneLocked'
  BY DEF OneLocked, Holds, Locked, Alone, StepsSound, StepSound, TypeOK, Request
<1>4. StepsSound'
  BY DEF StepsSound, StepSound, TypeOK, Request
<1>5. ReadsSound'
  BY DEF ReadsSound, ReadSound, TypeOK, Request
<1>6. ReplaysSound'
  BY DEF ReplaysSound, ReplaySound, Alone, TypeOK, Request
<1>7. Explained'
  <2>1. \A u \in Thread :
          /\ PendsRole(req[u]) => PendsRole(req'[u]) /\ req'[u].s = req[u].s
          /\ PendsWh(req[u]) => PendsWh(req'[u]) /\ req'[u].s = req[u].s
    BY DEF PendsRole, PendsWh, TypeOK, Request
  <2> QED BY <2>1, RoleKept, WhKept DEF Explained, TypeOK
<1> QED BY <1>1, <1>2, <1>3, <1>4, <1>5, <1>6, <1>7

LEMMA ResolveRoleInv == ASSUME IInv, NEW t \in Thread, ResolveRole(t) PROVE IInv'
<1> USE ContextAssumption DEF IInv, OrNone, ResolveRole, At, connVars, rowVars
<1>1. TypeOK'
  BY DEF TypeOK, Request, Or
<1>2. Alone'
  BY DEF Alone, TypeOK, Request, Busy
<1>3. OneLocked'
  BY DEF OneLocked, Holds, Locked, Alone, StepsSound, StepSound, TypeOK, Request
<1>4. StepsSound'
  BY DEF StepsSound, StepSound, TypeOK, Request
<1>5. ReadsSound'
  BY DEF ReadsSound, ReadSound, TypeOK, Request
<1>6. ReplaysSound'
  BY DEF ReplaysSound, ReplaySound, Alone, TypeOK, Request
<1>7. Explained'
  <2>1. \A u \in Thread :
          /\ PendsRole(req[u]) => PendsRole(req'[u]) /\ req'[u].s = req[u].s
          /\ PendsWh(req[u]) => PendsWh(req'[u]) /\ req'[u].s = req[u].s
    BY DEF PendsRole, PendsWh, TypeOK, Request
  <2> QED BY <2>1, RoleKept, WhKept DEF Explained, TypeOK
<1> QED BY <1>1, <1>2, <1>3, <1>4, <1>5, <1>6, <1>7

LEMMA UseRoleInv == ASSUME IInv, NEW t \in Thread, UseRole(t) PROVE IInv'
<1> USE ContextAssumption DEF IInv, OrNone, UseRole, Is, At, Switched, Drifts, connVars, rowVars
<1> DEFINE s == req[t].s
<1>a. req[t] \in Request /\ s \in Session /\ Holds(t) /\ s \in up
  BY DEF TypeOK, Request, Holds, Alone
<1>b. /\ req' \in [Thread -> Request \cup {None}]
      /\ req'[t] = [req[t] EXCEPT !.at = "warehouses"]
      /\ \A u \in Thread \ {t} :
           IF req[u] # None /\ req[u].s = s /\ req[u].at \in {"load", "write"}
           THEN req'[u] # None /\ Overtaken(req'[u], req[u]) ELSE req'[u] = req[u]
  BY <1>a, OvertakeIs DEF UseRole
<1>c. req'[t] \in Request /\ req'[t] # None /\ req'[t].op = "set" /\ req'[t].at = "warehouses"
      /\ req'[t].s = s /\ req'[t].r = req[t].r /\ req'[t].w = req[t].w
  BY <1>a, <1>b DEF Request
<1>d. \A u \in Thread \ {t} : req[u] # None /\ req[u].s = s =>
        req[u].op = "set" /\ req[u].at \in {"load", "write"} /\ req[u] \in Request
  BY <1>a DEF Alone, OneLocked, Holds, TypeOK, Request
<1>e. \A u \in Thread \ {t} : IF req[u] # None /\ req[u].s = s
        THEN req'[u] # None /\ Overtaken(req'[u], req[u]) ELSE req'[u] = req[u]
  BY <1>b, <1>d
<1> HIDE DEF s
<1> DEFINE Unchanged(u) == req'[u] # None =>
                             req[u] # None /\ req'[u].op = req[u].op /\ req'[u].s = req[u].s
<1>f. \A u \in Thread : Unchanged(u)
  BY <1>a, <1>b, <1>c, <1>e DEF Overtaken, s
<1>1. TypeOK'
  <2>1. role' \in [Session -> Role] /\ wh' \in [Session -> Warehouse \cup {None}]
    BY <1>a DEF TypeOK, Request, s
  <2>2. drift' \in [Session -> SUBSET {"role", "wh"}]
    BY <1>a DEF TypeOK, s
  <2> QED BY <1>b, <2>1, <2>2 DEF TypeOK
<1>2. Alone'
  BY <1>f DEF Alone
<1>3. OneLocked'
  <2>1. ASSUME NEW u \in Thread, Holds(u)' PROVE Holds(u) /\ req'[u].s = req[u].s
    <3>1. CASE u = t
      BY <1>a, <1>c, <3>1 DEF s
    <3>2. CASE u # t
      BY <1>e, <2>1, <3>2 DEF Holds, Overtaken
    <3> QED BY <3>1, <3>2
  <2> QED BY <2>1 DEF OneLocked
<1>4. StepsSound'
  BY <1>a, <1>c, <1>e DEF StepsSound, StepSound, Overtaken
<1>5. ReadsSound'
  <2> SUFFICES ASSUME NEW u \in Thread, req'[u] # None PROVE ReadSound(req[u])'
    BY DEF ReadsSound
  <2>1. CASE u = t
    <3>1. req'[u].op = "set" /\ req'[u].at \notin {"load", "write"}
      BY <1>c, <2>1
    <3>2. req'[u].at = "read" => wh'[req'[u].s] = req'[u].w
      BY <1>a, <1>c, <2>1 DEF TypeOK, s
    <3> QED BY <3>1, <3>2 DEF ReadSound
  <2>2. CASE u # t /\ req[u] # None /\ req[u].s = s
    BY <1>d, <1>e, <2>2 DEF ReadsSound, ReadSound, Overtaken
  <2>3. CASE u # t /\ ~ (req[u] # None /\ req[u].s = s)
    <3>1. req[u] # None /\ req'[u] = req[u] /\ req[u].s # s /\ req[u].s \in Session
      BY <1>e, <2>3 DEF TypeOK, Request
    <3>2. role'[req[u].s] = role[req[u].s] /\ wh'[req[u].s] = wh[req[u].s]
      BY <3>1 DEF TypeOK, s
    <3> QED BY <3>1, <3>2 DEF ReadsSound, ReadSound
  <2> QED BY <2>1, <2>2, <2>3
<1>6. ReplaysSound'
  <2> SUFFICES ASSUME NEW u \in Thread, req'[u] # None, req'[u].op = "sign_in"
               PROVE  ReplaySound(req[u])'
    BY DEF ReplaysSound, ReplaySound
  <2>1. u # t /\ req[u] # None /\ req'[u] = req[u] /\ req[u].s # s /\ req[u].s \in Session
    BY <1>a, <1>c, <1>d, <1>e, <1>f DEF Overtaken, Alone, TypeOK, Request
  <2>2. role'[req[u].s] = role[req[u].s] /\ wh'[req[u].s] = wh[req[u].s]
    BY <2>1 DEF TypeOK, s
  <2> QED BY <2>1, <2>2 DEF ReplaysSound, ReplaySound
<1>7. Explained'
  <2>1. \A u \in Thread :
          /\ PendsRole(req[u]) => PendsRole(req'[u]) /\ req'[u].s = req[u].s
          /\ PendsWh(req[u]) => PendsWh(req'[u]) /\ req'[u].s = req[u].s
    <3> TAKE u \in Thread
    <3>1. CASE u = t
      BY <1>a, <1>c, <3>1 DEF PendsRole, PendsWh, Holds, s
    <3>2. CASE u # t
      BY <1>e, <3>2 DEF PendsRole, PendsWh, Overtaken
    <3> QED BY <3>1, <3>2
  <2> SUFFICES ASSUME NEW x \in up PROVE RoleExplained(x)' /\ WhExplained(x)'
    BY DEF Explained
  <2>2. RoleExplained(x) /\ WhExplained(x) /\ x \in Session
    BY DEF Explained, TypeOK
  <2>3. ASSUME x # s PROVE RoleExplained(x)' /\ WhExplained(x)'
    BY <2>1, <2>2, <2>3, RoleKept, WhKept DEF TypeOK, s
  <2>4. ASSUME x = s PROVE RoleExplained(x)'
    <3>1. PendsRole(req[t])'
      BY <1>a, <1>c DEF PendsRole, StepsSound, StepSound
    <3> QED BY <1>c, <2>4, <3>1 DEF RoleExplained, RolePending
  <2>5. ASSUME x = s PROVE WhExplained(x)'
    <3>1. CASE wh' = wh
      BY <2>1, <2>2, <3>1, WhKept DEF TypeOK, s
    <3>2. CASE wh' # wh
      BY <2>2, <2>5, <3>2 DEF WhExplained, TypeOK, s
    <3> QED BY <3>1, <3>2
  <2> QED BY <2>3, <2>4, <2>5
<1> QED BY <1>1, <1>2, <1>3, <1>4, <1>5, <1>6, <1>7

LEMMA ResolveWarehouseInv == ASSUME IInv, NEW t \in Thread, ResolveWarehouse(t) PROVE IInv'
<1> USE ContextAssumption DEF IInv, OrNone, ResolveWarehouse, At, GoTo, Drifts, connVars, rowVars
<1>0. req[t] \in Request /\ req[t].op = "set" /\ req[t].s \in Session
  BY DEF TypeOK, Request, StepsSound, StepSound
<1>1. TypeOK'
  BY DEF TypeOK, Request, Or
<1>2. Alone'
  BY DEF Alone, TypeOK, Request, Busy
<1>3. OneLocked'
  BY DEF OneLocked, Holds, Locked, Alone, StepsSound, StepSound, TypeOK, Request
<1>4. StepsSound'
  BY DEF StepsSound, StepSound, TypeOK, Request
<1>5. ReadsSound'
  BY DEF ReadsSound, ReadSound, TypeOK, Request
<1>6. ReplaysSound'
  <2>1. \A u \in Thread : u # t => req'[u] = req[u]
    BY DEF TypeOK
  <2>2. req'[t] # None => req'[t].op = "set"
    BY <1>0 DEF TypeOK, Request
  <2> QED BY <2>1, <2>2 DEF ReplaysSound, ReplaySound
<1>7. Explained'
  <2>1. \A u \in Thread : u # t => req'[u] = req[u]
    BY DEF TypeOK
  <2>2. UNCHANGED <<up, role, wh, lastRole, lastWh>> /\ \A x \in Session : drift[x] \subseteq drift'[x]
    BY DEF TypeOK
  <2> SUFFICES ASSUME NEW x \in up PROVE RoleExplained(x)' /\ WhExplained(x)'
    BY <2>2 DEF Explained
  <2>3. RoleExplained(x) /\ WhExplained(x) /\ x \in Session
    BY DEF Explained, TypeOK
  <2>4. ~ PendsWh(req[t])
    BY DEF PendsWh
  <2>5. WhExplained(x)'
    BY <2>1, <2>2, <2>3, <2>4, WhKept
  <2>6. RoleExplained(x)'
    <3>1. CASE req'[t] = None /\ req[t].r # None /\ x = req[t].s
      BY <1>0, <3>1 DEF RoleExplained, TypeOK, Request
    <3>2. CASE ~ (req'[t] = None /\ req[t].r # None /\ x = req[t].s)
      <4>1. PendsRole(req[t]) /\ req[t].s = x => PendsRole(req'[t]) /\ req'[t].s = x
        BY <1>0, <3>2 DEF PendsRole, TypeOK, Request
      <4> QED BY <2>1, <2>2, <2>3, <4>1, RoleKept
    <3> QED BY <3>1, <3>2
  <2> QED BY <2>5, <2>6
<1> QED BY <1>1, <1>2, <1>3, <1>4, <1>5, <1>6, <1>7

LEMMA UseWarehouseInv == ASSUME IInv, NEW t \in Thread, UseWarehouse(t) PROVE IInv'
<1> USE ContextAssumption DEF IInv, OrNone, UseWarehouse, Is, At, connVars, rowVars
<1> DEFINE s == req[t].s
<1>a. req[t] \in Request /\ s \in Session /\ Holds(t) /\ s \in up
  BY DEF TypeOK, Request, Holds, Alone
<1>b. /\ req' \in [Thread -> Request \cup {None}]
      /\ req'[t] = [req[t] EXCEPT !.at = "read"]
      /\ \A u \in Thread \ {t} :
           IF req[u] # None /\ req[u].s = s /\ req[u].at \in {"load", "write"}
           THEN req'[u] # None /\ Overtaken(req'[u], req[u]) ELSE req'[u] = req[u]
  BY <1>a, OvertakeIs DEF UseWarehouse
<1>c. req'[t] \in Request /\ req'[t] # None /\ req'[t].op = "set" /\ req'[t].at = "read"
      /\ req'[t].s = s /\ req'[t].r = req[t].r /\ req'[t].w = req[t].w
  BY <1>a, <1>b DEF Request
<1>d. \A u \in Thread \ {t} : req[u] # None /\ req[u].s = s =>
        req[u].op = "set" /\ req[u].at \in {"load", "write"} /\ req[u] \in Request
  BY <1>a DEF Alone, OneLocked, Holds, TypeOK, Request
<1>e. \A u \in Thread \ {t} : IF req[u] # None /\ req[u].s = s
        THEN req'[u] # None /\ Overtaken(req'[u], req[u]) ELSE req'[u] = req[u]
  BY <1>b, <1>d
<1> HIDE DEF s
<1> DEFINE Unchanged(u) == req'[u] # None =>
                             req[u] # None /\ req'[u].op = req[u].op /\ req'[u].s = req[u].s
<1>f. \A u \in Thread : Unchanged(u)
  BY <1>a, <1>b, <1>c, <1>e DEF Overtaken, s
<1>1. TypeOK'
  <2>1. role' \in [Session -> Role] /\ wh' \in [Session -> Warehouse \cup {None}]
    BY <1>a DEF TypeOK, Request, s
  <2>2. drift' \in [Session -> SUBSET {"role", "wh"}]
    BY <1>a DEF TypeOK, s
  <2> QED BY <1>b, <2>1, <2>2 DEF TypeOK
<1>2. Alone'
  BY <1>f DEF Alone
<1>3. OneLocked'
  <2>1. ASSUME NEW u \in Thread, Holds(u)' PROVE Holds(u) /\ req'[u].s = req[u].s
    <3>1. CASE u = t
      BY <1>a, <1>c, <3>1 DEF s
    <3>2. CASE u # t
      BY <1>e, <2>1, <3>2 DEF Holds, Overtaken
    <3> QED BY <3>1, <3>2
  <2> QED BY <2>1 DEF OneLocked
<1>4. StepsSound'
  BY <1>a, <1>c, <1>e DEF StepsSound, StepSound, Overtaken
<1>5. ReadsSound'
  <2> SUFFICES ASSUME NEW u \in Thread, req'[u] # None PROVE ReadSound(req[u])'
    BY DEF ReadsSound
  <2>1. CASE u = t
    <3>1. req'[u].op = "set" /\ req'[u].at \notin {"load", "write"}
      BY <1>c, <2>1
    <3>2. req'[u].at = "read" => wh'[req'[u].s] = req'[u].w
      BY <1>a, <1>c, <2>1 DEF TypeOK, s
    <3> QED BY <3>1, <3>2 DEF ReadSound
  <2>2. CASE u # t /\ req[u] # None /\ req[u].s = s
    BY <1>d, <1>e, <2>2 DEF ReadsSound, ReadSound, Overtaken
  <2>3. CASE u # t /\ ~ (req[u] # None /\ req[u].s = s)
    <3>1. req[u] # None /\ req'[u] = req[u] /\ req[u].s # s /\ req[u].s \in Session
      BY <1>e, <2>3 DEF TypeOK, Request
    <3>2. role'[req[u].s] = role[req[u].s] /\ wh'[req[u].s] = wh[req[u].s]
      BY <3>1 DEF TypeOK, s
    <3> QED BY <3>1, <3>2 DEF ReadsSound, ReadSound
  <2> QED BY <2>1, <2>2, <2>3
<1>6. ReplaysSound'
  <2> SUFFICES ASSUME NEW u \in Thread, req'[u] # None, req'[u].op = "sign_in"
               PROVE  ReplaySound(req[u])'
    BY DEF ReplaysSound, ReplaySound
  <2>1. u # t /\ req[u] # None /\ req'[u] = req[u] /\ req[u].s # s /\ req[u].s \in Session
    BY <1>a, <1>c, <1>d, <1>e, <1>f DEF Overtaken, Alone, TypeOK, Request
  <2>2. role'[req[u].s] = role[req[u].s] /\ wh'[req[u].s] = wh[req[u].s]
    BY <2>1 DEF TypeOK, s
  <2> QED BY <2>1, <2>2 DEF ReplaysSound, ReplaySound
<1>7. Explained'
  <2>1. \A u \in Thread :
          /\ PendsRole(req[u]) => PendsRole(req'[u]) /\ req'[u].s = req[u].s
          /\ PendsWh(req[u]) => PendsWh(req'[u]) /\ req'[u].s = req[u].s
    <3> TAKE u \in Thread
    <3>1. CASE u = t
      BY <1>a, <1>c, <3>1 DEF PendsRole, PendsWh, Holds, s
    <3>2. CASE u # t
      BY <1>e, <3>2 DEF PendsRole, PendsWh, Overtaken
    <3> QED BY <3>1, <3>2
  <2> SUFFICES ASSUME NEW x \in up PROVE RoleExplained(x)' /\ WhExplained(x)'
    BY DEF Explained
  <2>2. RoleExplained(x) /\ WhExplained(x) /\ x \in Session
    BY DEF Explained, TypeOK
  <2>3. ASSUME x # s PROVE RoleExplained(x)' /\ WhExplained(x)'
    BY <2>1, <2>2, <2>3, RoleKept, WhKept DEF TypeOK, s
  <2>4. ASSUME x = s PROVE RoleExplained(x)'
    BY <2>1, <2>2, RoleKept
  <2>5. ASSUME x = s PROVE WhExplained(x)'
    <3>1. PendsWh(req[t])'
      BY <1>a, <1>c DEF PendsWh, StepsSound, StepSound
    <3> QED BY <1>c, <2>5, <3>1 DEF WhExplained, WhPending
  <2> QED BY <2>3, <2>4, <2>5
<1> QED BY <1>1, <1>2, <1>3, <1>4, <1>5, <1>6, <1>7

LEMMA ReadBackInv == ASSUME IInv, NEW t \in Thread, ReadBack(t) PROVE IInv'
<1> USE ContextAssumption DEF IInv, OrNone, ReadBack, Is, At, connVars, rowVars
<1>0. req[t] \in Request
      /\ [req[t] EXCEPT !.at = "load", !.gotR = role[req[t].s], !.gotW = wh[req[t].s]] \in Request
  <2>1. req[t] \in Request
    BY DEF TypeOK
  <2>2. role[req[t].s] \in Role /\ wh[req[t].s] \in Warehouse \cup {None}
    BY <2>1 DEF TypeOK, Request
  <2> QED BY <2>1, <2>2 DEF Request
<1>1. TypeOK'
  BY <1>0 DEF TypeOK
<1>2. Alone'
  BY DEF Alone, TypeOK, Request, Busy
<1>3. OneLocked'
  BY DEF OneLocked, Holds, Locked, Alone, StepsSound, StepSound, TypeOK, Request
<1>4. StepsSound'
  BY DEF StepsSound, StepSound, TypeOK, Request
<1>5. ReadsSound'
  BY DEF ReadsSound, ReadSound, TypeOK, Request
<1>6. ReplaysSound'
  BY DEF ReplaysSound, ReplaySound, Alone, TypeOK, Request
<1>7. Explained'
  <2>1. \A u \in Thread :
          /\ PendsRole(req[u]) => PendsRole(req'[u]) /\ req'[u].s = req[u].s
          /\ PendsWh(req[u]) => PendsWh(req'[u]) /\ req'[u].s = req[u].s
    BY DEF PendsRole, PendsWh, TypeOK, Request
  <2> QED BY <2>1, RoleKept, WhKept DEF Explained, TypeOK
<1> QED BY <1>1, <1>2, <1>3, <1>4, <1>5, <1>6, <1>7

LEMMA StatementFailsInv == ASSUME IInv, NEW t \in Thread, StatementFails(t) PROVE IInv'
<1> USE ContextAssumption DEF IInv, OrNone, StatementFails, Drifts, connVars, rowVars
<1>0. req[t] \in Request /\ req[t].op = "set" /\ req[t].s \in Session
  BY DEF TypeOK, Request
<1>1. TypeOK'
  BY DEF TypeOK, Request, Or
<1>2. Alone'
  BY DEF Alone, TypeOK, Request, Busy
<1>3. OneLocked'
  BY DEF OneLocked, Holds, Locked, Alone, StepsSound, StepSound, TypeOK, Request
<1>4. StepsSound'
  BY DEF StepsSound, StepSound, TypeOK, Request
<1>5. ReadsSound'
  BY DEF ReadsSound, ReadSound, TypeOK, Request
<1>6. ReplaysSound'
  BY DEF ReplaysSound, ReplaySound, Alone, TypeOK, Request
<1>7. Explained'
  <2>1. \A u \in Thread : u # t => req'[u] = req[u]
    BY DEF TypeOK
  <2>2. UNCHANGED <<up, role, wh, lastRole, lastWh>> /\ \A x \in Session : drift[x] \subseteq drift'[x]
    BY DEF TypeOK
  <2> SUFFICES ASSUME NEW x \in up PROVE RoleExplained(x)' /\ WhExplained(x)'
    BY <2>2 DEF Explained
  <2>3. RoleExplained(x) /\ WhExplained(x) /\ x \in Session
    BY DEF Explained, TypeOK
  <2>4. RoleExplained(x)'
    <3>1. CASE x = req[t].s /\ req[t].r # None
      BY <1>0, <3>1 DEF RoleExplained, TypeOK
    <3>2. CASE ~ (x = req[t].s /\ req[t].r # None)
      BY <2>1, <2>2, <2>3, <3>2, RoleKept DEF PendsRole
    <3> QED BY <3>1, <3>2
  <2>5. WhExplained(x)'
    <3>1. CASE x = req[t].s /\ req[t].w # None
      BY <1>0, <3>1 DEF WhExplained, TypeOK
    <3>2. CASE ~ (x = req[t].s /\ req[t].w # None)
      BY <2>1, <2>2, <2>3, <3>2, WhKept DEF PendsWh
    <3> QED BY <3>1, <3>2
  <2> QED BY <2>4, <2>5
<1> QED BY <1>1, <1>2, <1>3, <1>4, <1>5, <1>6, <1>7

LEMMA LoadInv == ASSUME IInv, NEW t \in Thread, Load(t) PROVE IInv'
<1> USE ContextAssumption DEF IInv, OrNone, Load, Is, At, connVars, rowVars
<1>0. req[t] \in Request
      /\ [req[t] EXCEPT !.at = "write", !.oldR = lastRole, !.oldW = lastWh] \in Request
  <2>1. req[t] \in Request /\ lastRole \in Role \cup {None} /\ lastWh \in Warehouse \cup {None}
    BY DEF TypeOK
  <2> QED BY <2>1 DEF Request
<1>1. TypeOK'
  BY <1>0 DEF TypeOK
<1>2. Alone'
  BY DEF Alone, TypeOK, Request, Busy
<1>3. OneLocked'
  BY DEF OneLocked, Holds, Locked, Alone, StepsSound, StepSound, TypeOK, Request
<1>4. StepsSound'
  BY DEF StepsSound, StepSound, TypeOK, Request
<1>5. ReadsSound'
  BY DEF ReadsSound, ReadSound, TypeOK, Request
<1>6. ReplaysSound'
  BY DEF ReplaysSound, ReplaySound, Alone, TypeOK, Request
<1>7. Explained'
  <2>1. \A u \in Thread :
          /\ PendsRole(req[u]) => PendsRole(req'[u]) /\ req'[u].s = req[u].s
          /\ PendsWh(req[u]) => PendsWh(req'[u]) /\ req'[u].s = req[u].s
    BY DEF PendsRole, PendsWh, TypeOK, Request
  <2> QED BY <2>1, RoleKept, WhKept DEF Explained, TypeOK
<1> QED BY <1>1, <1>2, <1>3, <1>4, <1>5, <1>6, <1>7

LEMMA RememberInv == ASSUME IInv, NEW t \in Thread, Remember(t) PROVE IInv'
<1> USE ContextAssumption DEF IInv, OrNone, Request
<1> DEFINE s == req[t].s
           written == {d \in {"role", "wh"} : IF d = "role" THEN req[t].r # None ELSE req[t].w # None}
<1>a. req[t] \in Request /\ s \in Session
  BY DEF TypeOK, Request, Remember, Is, At
<1>b. /\ req' \in [Thread -> Request \cup {None}]
      /\ drift' \in [Session -> SUBSET {"role", "wh"}]
      /\ req'[t] = None
      /\ \A u \in Thread \ {t} :
           IF HasLoaded(u)
           THEN req[u] # None /\ req'[u] # None /\ Overtaken(req'[u], req[u])
           ELSE req'[u] = req[u]
  <2>1. Committed(t, written) /\ written \in SUBSET {"role", "wh"} /\ req[t] # None
    BY DEF Remember, Is, At
  <2> QED BY <2>1, CommittedIs
<1>c. \A u \in Thread : req'[u] # None =>
        /\ u # t /\ req[u] # None
        /\ req'[u].op = req[u].op /\ req'[u].at = req[u].at /\ req'[u].s = req[u].s
        /\ req'[u].r = req[u].r /\ req'[u].w = req[u].w
        /\ req'[u].gotR = req[u].gotR /\ req'[u].gotW = req[u].gotW
        /\ req'[u].oldR = req[u].oldR /\ req'[u].oldW = req[u].oldW
        /\ req'[u].hindered = req[u].hindered
        /\ HasLoaded(u) => req'[u].overtaken
        /\ ~ HasLoaded(u) => req'[u].overtaken = req[u].overtaken
  BY <1>b DEF Overtaken
<1>d. \A u \in Thread \ {t} : req[u] # None => req'[u] # None
  BY <1>b
<1>e. lastRole' \in Role \cup {None} /\ lastWh' \in Warehouse \cup {None}
  BY <1>a DEF TypeOK, Remember, Store, Or, Request
<1>f. req[t].op = "set" /\ req[t].at = "write" /\ s \in up /\ up' = up /\ role' = role /\ wh' = wh
  BY DEF Remember, Is, At, Alone, connVars
<1>g. /\ req[t].r = None => lastRole' = lastRole
      /\ req[t].w = None => lastWh' = lastWh
      /\ req[t].r # None /\ ~ req[t].overtaken => lastRole' = role[s]
      /\ req[t].w # None /\ ~ req[t].overtaken => lastWh' = wh[s]
  <2>1. /\ lastRole' = IF (IF req[t].r = None THEN req[t].oldR ELSE Or(req[t].gotR, req[t].r)) # req[t].oldR
                     THEN (IF req[t].r = None THEN req[t].oldR ELSE Or(req[t].gotR, req[t].r)) ELSE lastRole
        /\ lastWh' = IF (IF req[t].w = None THEN req[t].oldW ELSE Or(req[t].gotW, req[t].w)) # req[t].oldW
                   THEN (IF req[t].w = None THEN req[t].oldW ELSE Or(req[t].gotW, req[t].w)) ELSE lastWh
    BY DEF Remember, Store
  <2>2. /\ req[t].gotR # None
        /\ req[t].w # None => req[t].gotW # None
        /\ ~ req[t].overtaken => /\ req[t].gotR = role[s] /\ req[t].gotW = wh[s]
                                 /\ req[t].oldR = lastRole /\ req[t].oldW = lastWh
    BY <1>a, <1>f DEF ReadsSound, ReadSound, Remember, Is, At
  <2>3. /\ req[t].r # None => Or(req[t].gotR, req[t].r) = req[t].gotR
        /\ req[t].w # None => Or(req[t].gotW, req[t].w) = req[t].gotW
    BY <2>2 DEF Or
  <2>4. req[t].r = None => lastRole' = lastRole
    BY <2>1
  <2>5. req[t].w = None => lastWh' = lastWh
    BY <2>1
  <2>6. ASSUME req[t].r # None, ~ req[t].overtaken PROVE lastRole' = role[s]
    BY <2>1, <2>2, <2>3, <2>6
  <2>7. ASSUME req[t].w # None, ~ req[t].overtaken PROVE lastWh' = wh[s]
    BY <2>1, <2>2, <2>3, <2>7
  <2> QED BY <2>4, <2>5, <2>6, <2>7
<1>h. /\ "role" \in written <=> req[t].r # None
      /\ "wh" \in written <=> req[t].w # None
  OBVIOUS
<1> HIDE DEF s, written
<1>i. \A x \in up : drift'[x] = IF x # s \/ req[t].overtaken THEN drift[x] \cup written
                                ELSE drift[x] \ written
  BY <1>a DEF Remember, Committed, TypeOK, s, written
<1>1. TypeOK'
  <2>1. up' \subseteq Session /\ UNCHANGED <<granted, role, wh>>
    BY <1>a DEF TypeOK, Remember, connVars
  <2> QED BY <1>b, <1>e, <2>1 DEF TypeOK
<1>2. Alone'
  BY <1>a, <1>c DEF Alone, Remember
<1>3. OneLocked'
  BY <1>c DEF OneLocked, Holds
<1>4. StepsSound'
  BY <1>c DEF StepsSound, StepSound
<1>5. ReadsSound'
  <2> SUFFICES ASSUME NEW u \in Thread, req'[u] # None PROVE ReadSound(req[u])'
    BY DEF ReadsSound
  <2>1. ReadSound(req[u]) /\ StepSound(req[u]) /\ UNCHANGED <<role, wh>>
    BY <1>c DEF ReadsSound, StepsSound, Remember, connVars
  <2>2. (req[u].op = "set" /\ req[u].at = "write") \/ (req[u].op = "sign_in" /\ req[u].at # "load")
          => HasLoaded(u)
    BY <1>c, <2>1 DEF StepSound, HasLoaded, Is, At
  <2>3. req[u].op = "set" /\ req[u].at = "load" => ~ HasLoaded(u)
    BY DEF HasLoaded, Is, At
  <2> QED BY <1>c, <2>1, <2>2, <2>3 DEF ReadSound
<1>6. ReplaysSound'
  BY <1>c DEF ReplaysSound, ReplaySound, Remember, connVars
<1>7. Explained'
  <2>1. \A u \in Thread \ {t} :
          /\ PendsRole(req[u]) => PendsRole(req'[u]) /\ req'[u].s = req[u].s
          /\ PendsWh(req[u]) => PendsWh(req'[u]) /\ req'[u].s = req[u].s
    BY <1>c, <1>d DEF PendsRole, PendsWh
  <2> SUFFICES ASSUME NEW x \in up' PROVE RoleExplained(x)' /\ WhExplained(x)'
    BY DEF Explained
  <2>2. RoleExplained(x) /\ WhExplained(x) /\ x \in up /\ x \in Session
    BY <1>f DEF Explained, TypeOK
  <2>3. RoleExplained(x)'
    <3>1. CASE req[t].r = None
      <4>1. ~ PendsRole(req[t]) /\ "role" \notin written
        BY <1>h, <3>1 DEF PendsRole
      <4>2. "role" \in drift[x] => "role" \in drift'[x]
        BY <1>i, <2>2, <4>1
      <4> QED BY <1>f, <1>g, <2>1, <2>2, <3>1, <4>1, <4>2, RoleKept
    <3>2. CASE req[t].r # None /\ (x # s \/ req[t].overtaken)
      BY <1>h, <1>i, <2>2, <3>2 DEF RoleExplained
    <3>3. CASE req[t].r # None /\ x = s /\ ~ req[t].overtaken
      BY <1>f, <1>g, <3>3 DEF RoleExplained
    <3> QED BY <3>1, <3>2, <3>3
  <2>4. WhExplained(x)'
    <3>1. CASE req[t].w = None
      <4>1. ~ PendsWh(req[t]) /\ "wh" \notin written
        BY <1>h, <3>1 DEF PendsWh
      <4>2. "wh" \in drift[x] => "wh" \in drift'[x]
        BY <1>i, <2>2, <4>1
      <4> QED BY <1>f, <1>g, <2>1, <2>2, <3>1, <4>1, <4>2, WhKept
    <3>2. CASE req[t].w # None /\ (x # s \/ req[t].overtaken)
      BY <1>h, <1>i, <2>2, <3>2 DEF WhExplained
    <3>3. CASE req[t].w # None /\ x = s /\ ~ req[t].overtaken
      BY <1>f, <1>g, <3>3 DEF WhExplained
    <3> QED BY <3>1, <3>2, <3>3
  <2> QED BY <2>3, <2>4
<1> QED BY <1>1, <1>2, <1>3, <1>4, <1>5, <1>6, <1>7

LEMMA SignInInv == ASSUME IInv, NEW t \in Thread, NEW s \in Session, SignIn(t, s) PROVE IInv'
<1> USE ContextAssumption DEF IInv, OrNone, SignIn, Begin, connVars, rowVars
<1>1. TypeOK'
  BY DEF TypeOK, Request, Or
<1>2. Alone'
  BY DEF Alone, TypeOK, Request, Busy
<1>3. OneLocked'
  BY DEF OneLocked, Holds, Locked, Alone, StepsSound, StepSound, TypeOK, Request
<1>4. StepsSound'
  BY DEF StepsSound, StepSound, TypeOK, Request
<1>5. ReadsSound'
  BY DEF ReadsSound, ReadSound, TypeOK, Request
<1>6. ReplaysSound'
  BY DEF ReplaysSound, ReplaySound, Alone, TypeOK, Request
<1>7. Explained'
  <2>1. \A u \in Thread :
          /\ PendsRole(req[u]) => PendsRole(req'[u]) /\ req'[u].s = req[u].s
          /\ PendsWh(req[u]) => PendsWh(req'[u]) /\ req'[u].s = req[u].s
    BY DEF PendsRole, PendsWh, TypeOK, Request
  <2> QED BY <2>1, RoleKept, WhKept DEF Explained, TypeOK
<1> QED BY <1>1, <1>2, <1>3, <1>4, <1>5, <1>6, <1>7

LEMMA LoadRememberedInv == ASSUME IInv, NEW t \in Thread, LoadRemembered(t) PROVE IInv'
<1> USE ContextAssumption DEF IInv, OrNone, LoadRemembered, Is, At, connVars, rowVars
<1>0. req[t] \in Request
      /\ [req[t] EXCEPT !.at = "use_role", !.oldR = lastRole, !.oldW = lastWh] \in Request
  <2>1. req[t] \in Request /\ lastRole \in Role \cup {None} /\ lastWh \in Warehouse \cup {None}
    BY DEF TypeOK
  <2> QED BY <2>1 DEF Request
<1>1. TypeOK'
  BY <1>0 DEF TypeOK
<1>2. Alone'
  BY DEF Alone, TypeOK, Request, Busy
<1>3. OneLocked'
  BY DEF OneLocked, Holds, Locked, Alone, StepsSound, StepSound, TypeOK, Request
<1>4. StepsSound'
  BY DEF StepsSound, StepSound, TypeOK, Request
<1>5. ReadsSound'
  BY DEF ReadsSound, ReadSound, TypeOK, Request
<1>6. ReplaysSound'
  BY DEF ReplaysSound, ReplaySound, Alone, TypeOK, Request
<1>7. Explained'
  <2>1. \A u \in Thread :
          /\ PendsRole(req[u]) => PendsRole(req'[u]) /\ req'[u].s = req[u].s
          /\ PendsWh(req[u]) => PendsWh(req'[u]) /\ req'[u].s = req[u].s
    BY DEF PendsRole, PendsWh, TypeOK, Request
  <2> QED BY <2>1, RoleKept, WhKept DEF Explained, TypeOK
<1> QED BY <1>1, <1>2, <1>3, <1>4, <1>5, <1>6, <1>7

LEMMA ReplayRoleInv == ASSUME IInv, NEW t \in Thread, ReplayRole(t) PROVE IInv'
<1> USE ContextAssumption DEF IInv, OrNone, ReplayRole, Is, At, Switched, GoTo, connVars, rowVars
<1>0. req[t] \in Request /\ req[t].s \in Session /\ req[t].s \notin up
      /\ \A u \in Thread : u # t /\ req[u] # None => req[u].s # req[t].s
  BY DEF Alone, TypeOK, Request
<1>1. TypeOK'
  BY DEF TypeOK, Request, Or
<1>2. Alone'
  BY DEF Alone, TypeOK, Request, Busy
<1>3. OneLocked'
  BY DEF OneLocked, Holds, Locked, Alone, StepsSound, StepSound, TypeOK, Request
<1>4. StepsSound'
  BY DEF StepsSound, StepSound, TypeOK, Request
<1>5. ReadsSound'
  <2> SUFFICES ASSUME NEW u \in Thread, req'[u] # None PROVE ReadSound(req[u])'
    BY DEF ReadsSound
  <2>1. CASE u = t
    BY <1>0, <2>1 DEF ReadsSound, ReadSound, TypeOK, Request
  <2>2. CASE u # t
    <3>1. req'[u] = req[u] /\ req[u].s # req[t].s /\ req[u].s \in Session
      BY <1>0, <2>2 DEF TypeOK, Request
    <3>2. role'[req[u].s] = role[req[u].s] /\ wh'[req[u].s] = wh[req[u].s]
      BY <1>0, <3>1 DEF TypeOK
    <3> QED BY <3>1, <3>2 DEF ReadsSound, ReadSound
  <2> QED BY <2>1, <2>2
<1>6. ReplaysSound'
  BY DEF ReplaysSound, ReplaySound, Alone, TypeOK, Request
<1>7. Explained'
  <2> SUFFICES ASSUME NEW x \in up PROVE RoleExplained(x)' /\ WhExplained(x)'
    BY DEF Explained
  <2>1. RoleExplained(x) /\ WhExplained(x) /\ x \in Session /\ x # req[t].s
    BY <1>0 DEF Explained, TypeOK
  <2>2. role'[x] = role[x] /\ wh'[x] = wh[x]
    BY <2>1 DEF TypeOK
  <2>3. \A u \in Thread :
          /\ PendsRole(req[u]) => PendsRole(req'[u]) /\ req'[u].s = req[u].s
          /\ PendsWh(req[u]) => PendsWh(req'[u]) /\ req'[u].s = req[u].s
    BY DEF PendsRole, PendsWh, TypeOK
  <2> QED BY <2>1, <2>2, <2>3, RoleKept, WhKept
<1> QED BY <1>1, <1>2, <1>3, <1>4, <1>5, <1>6, <1>7

LEMMA ReplayWarehouseInv == ASSUME IInv, NEW t \in Thread, ReplayWarehouse(t) PROVE IInv'
<1> USE ContextAssumption DEF IInv, OrNone, ReplayWarehouse, Is, At, GoTo, connVars, rowVars
<1>0. req[t] \in Request /\ req[t].s \in Session /\ req[t].s \notin up
      /\ \A u \in Thread : u # t /\ req[u] # None => req[u].s # req[t].s
  BY DEF Alone, TypeOK, Request
<1>1. TypeOK'
  BY DEF TypeOK, Request, Or
<1>2. Alone'
  BY DEF Alone, TypeOK, Request, Busy
<1>3. OneLocked'
  BY DEF OneLocked, Holds, Locked, Alone, StepsSound, StepSound, TypeOK, Request
<1>4. StepsSound'
  BY DEF StepsSound, StepSound, TypeOK, Request
<1>5. ReadsSound'
  <2> SUFFICES ASSUME NEW u \in Thread, req'[u] # None PROVE ReadSound(req[u])'
    BY DEF ReadsSound
  <2>1. CASE u = t
    BY <1>0, <2>1 DEF ReadsSound, ReadSound, TypeOK, Request
  <2>2. CASE u # t
    <3>1. req'[u] = req[u] /\ req[u].s # req[t].s /\ req[u].s \in Session
      BY <1>0, <2>2 DEF TypeOK, Request
    <3>2. role'[req[u].s] = role[req[u].s] /\ wh'[req[u].s] = wh[req[u].s]
      BY <1>0, <3>1 DEF TypeOK
    <3> QED BY <3>1, <3>2 DEF ReadsSound, ReadSound
  <2> QED BY <2>1, <2>2
<1>6. ReplaysSound'
  BY DEF ReplaysSound, ReplaySound, Alone, TypeOK, Request
<1>7. Explained'
  <2> SUFFICES ASSUME NEW x \in up PROVE RoleExplained(x)' /\ WhExplained(x)'
    BY DEF Explained
  <2>1. RoleExplained(x) /\ WhExplained(x) /\ x \in Session /\ x # req[t].s
    BY <1>0 DEF Explained, TypeOK
  <2>2. role'[x] = role[x] /\ wh'[x] = wh[x]
    BY <2>1 DEF TypeOK
  <2>3. \A u \in Thread :
          /\ PendsRole(req[u]) => PendsRole(req'[u]) /\ req'[u].s = req[u].s
          /\ PendsWh(req[u]) => PendsWh(req'[u]) /\ req'[u].s = req[u].s
    BY DEF PendsRole, PendsWh, TypeOK
  <2> QED BY <2>1, <2>2, <2>3, RoleKept, WhKept
<1> QED BY <1>1, <1>2, <1>3, <1>4, <1>5, <1>6, <1>7

LEMMA ReplayFailsInv == ASSUME IInv, NEW t \in Thread, ReplayFails(t) PROVE IInv'
<1> USE ContextAssumption DEF IInv, OrNone, ReplayFails, Is, At, Switched, connVars, rowVars
<1>0. req[t] \in Request /\ req[t].s \in Session /\ req[t].s \notin up
      /\ \A u \in Thread : u # t /\ req[u] # None => req[u].s # req[t].s
  BY DEF Alone, TypeOK, Request
<1>1. TypeOK'
  <2>1. req' \in [Thread -> Request \cup {None}]
    BY <1>0 DEF TypeOK, Request
  <2>2. role' \in [Session -> Role] /\ wh' \in [Session -> OrNone(Warehouse)]
    BY <1>0 DEF TypeOK
  <2> QED BY <2>1, <2>2 DEF TypeOK
<1>2. Alone'
  BY DEF Alone, TypeOK, Request, Busy
<1>3. OneLocked'
  BY DEF OneLocked, Holds, Locked, Alone, StepsSound, StepSound, TypeOK, Request
<1>4. StepsSound'
  BY DEF StepsSound, StepSound, TypeOK, Request
<1>5. ReadsSound'
  <2> SUFFICES ASSUME NEW u \in Thread, req'[u] # None PROVE ReadSound(req[u])'
    BY DEF ReadsSound
  <2>1. CASE u = t
    BY <1>0, <2>1 DEF ReadsSound, ReadSound, TypeOK, Request
  <2>2. CASE u # t
    <3>1. req'[u] = req[u] /\ req[u].s # req[t].s /\ req[u].s \in Session
      BY <1>0, <2>2 DEF TypeOK, Request
    <3>2. role'[req[u].s] = role[req[u].s] /\ wh'[req[u].s] = wh[req[u].s]
      BY <1>0, <3>1 DEF TypeOK
    <3> QED BY <3>1, <3>2 DEF ReadsSound, ReadSound
  <2> QED BY <2>1, <2>2
<1>6. ReplaysSound'
  BY DEF ReplaysSound, ReplaySound, Alone, TypeOK, Request
<1>7. Explained'
  <2> SUFFICES ASSUME NEW x \in up PROVE RoleExplained(x)' /\ WhExplained(x)'
    BY DEF Explained
  <2>1. RoleExplained(x) /\ WhExplained(x) /\ x \in Session /\ x # req[t].s
    BY <1>0 DEF Explained, TypeOK
  <2>2. role'[x] = role[x] /\ wh'[x] = wh[x]
    BY <2>1 DEF TypeOK
  <2>3. \A u \in Thread :
          /\ PendsRole(req[u]) => PendsRole(req'[u]) /\ req'[u].s = req[u].s
          /\ PendsWh(req[u]) => PendsWh(req'[u]) /\ req'[u].s = req[u].s
    BY DEF PendsRole, PendsWh, TypeOK
  <2> QED BY <2>1, <2>2, <2>3, RoleKept, WhKept
<1> QED BY <1>1, <1>2, <1>3, <1>4, <1>5, <1>6, <1>7

LEMMA RecordLiveInv == ASSUME IInv, NEW t \in Thread, RecordLive(t) PROVE IInv'
<1> USE ContextAssumption DEF IInv, OrNone, Request
<1> DEFINE s == req[t].s
           written == {"role", "wh"}
<1>a. req[t] \in Request /\ s \in Session
  BY DEF TypeOK, Request, RecordLive, Is, At
<1>b. /\ req' \in [Thread -> Request \cup {None}]
      /\ drift' \in [Session -> SUBSET {"role", "wh"}]
      /\ req'[t] = None
      /\ \A u \in Thread \ {t} :
           IF HasLoaded(u)
           THEN req[u] # None /\ req'[u] # None /\ Overtaken(req'[u], req[u])
           ELSE req'[u] = req[u]
  <2>1. Committed(t, written) /\ written \in SUBSET {"role", "wh"} /\ req[t] # None
    BY DEF RecordLive, Is, At
  <2> QED BY <2>1, CommittedIs
<1>c. \A u \in Thread : req'[u] # None =>
        /\ u # t /\ req[u] # None
        /\ req'[u].op = req[u].op /\ req'[u].at = req[u].at /\ req'[u].s = req[u].s
        /\ req'[u].r = req[u].r /\ req'[u].w = req[u].w
        /\ req'[u].gotR = req[u].gotR /\ req'[u].gotW = req[u].gotW
        /\ req'[u].oldR = req[u].oldR /\ req'[u].oldW = req[u].oldW
        /\ req'[u].hindered = req[u].hindered
        /\ HasLoaded(u) => req'[u].overtaken
        /\ ~ HasLoaded(u) => req'[u].overtaken = req[u].overtaken
  BY <1>b DEF Overtaken
<1>d. \A u \in Thread \ {t} : req[u] # None => req'[u] # None
  BY <1>b
<1>e. lastRole' \in Role \cup {None} /\ lastWh' \in Warehouse \cup {None}
  BY <1>a DEF TypeOK, RecordLive, Store
<1>f. /\ req[t].op = "sign_in" /\ req[t].at = "read" /\ s \notin up
      /\ up' = up \cup {s} /\ role' = role /\ wh' = wh
      /\ \A u \in Thread : u # t /\ req[u] # None => req[u].s # s
  BY DEF RecordLive, Is, At, Alone, connVars
<1>g. ~ req[t].overtaken => lastRole' = role[s] /\ lastWh' = wh[s]
  <2>1. ~ req[t].overtaken => req[t].oldR = lastRole /\ req[t].oldW = lastWh
    BY <1>a, <1>f DEF ReadsSound, ReadSound, RecordLive, Is, At
  <2> QED BY <2>1 DEF RecordLive, Store
<1>h. \A x \in up' : x # s \/ req[t].overtaken => {"role", "wh"} \subseteq drift'[x]
  BY <1>a, <1>f DEF RecordLive, Committed, TypeOK
<1> HIDE DEF s, written
<1>1. TypeOK'
  <2>1. up' \subseteq Session /\ UNCHANGED <<granted, role, wh>>
    BY <1>a DEF TypeOK, RecordLive, connVars
  <2> QED BY <1>b, <1>e, <2>1 DEF TypeOK
<1>2. Alone'
  BY <1>a, <1>c DEF Alone, RecordLive
<1>3. OneLocked'
  BY <1>c DEF OneLocked, Holds
<1>4. StepsSound'
  BY <1>c DEF StepsSound, StepSound
<1>5. ReadsSound'
  <2> SUFFICES ASSUME NEW u \in Thread, req'[u] # None PROVE ReadSound(req[u])'
    BY DEF ReadsSound
  <2>1. ReadSound(req[u]) /\ StepSound(req[u]) /\ UNCHANGED <<role, wh>>
    BY <1>c DEF ReadsSound, StepsSound, RecordLive, connVars
  <2>2. (req[u].op = "set" /\ req[u].at = "write") \/ (req[u].op = "sign_in" /\ req[u].at # "load")
          => HasLoaded(u)
    BY <1>c, <2>1 DEF StepSound, HasLoaded, Is, At
  <2>3. req[u].op = "set" /\ req[u].at = "load" => ~ HasLoaded(u)
    BY DEF HasLoaded, Is, At
  <2> QED BY <1>c, <2>1, <2>2, <2>3 DEF ReadSound
<1>6. ReplaysSound'
  BY <1>c DEF ReplaysSound, ReplaySound, RecordLive, connVars
<1>7. Explained'
  <2> SUFFICES ASSUME NEW x \in up' PROVE RoleExplained(x)' /\ WhExplained(x)'
    BY DEF Explained
  <2>1. CASE x # s \/ req[t].overtaken
    BY <1>h, <2>1 DEF RoleExplained, WhExplained
  <2>2. CASE x = s /\ ~ req[t].overtaken
    BY <1>f, <1>g, <2>2 DEF RoleExplained, WhExplained
  <2> QED BY <2>1, <2>2
<1> QED BY <1>1, <1>2, <1>3, <1>4, <1>5, <1>6, <1>7

LEMMA ReadBackFailsInv == ASSUME IInv, NEW t \in Thread, ReadBackFails(t) PROVE IInv'
<1> USE ContextAssumption DEF IInv, OrNone, ReadBackFails, Is, At, Drifts, connVars, rowVars
<1>0. req[t] \in Request /\ req[t].s \in Session /\ req[t].s \notin up
      /\ \A u \in Thread : u # t /\ req[u] # None => req[u].s # req[t].s
  BY DEF Alone, TypeOK, Request
<1>1. TypeOK'
  BY DEF TypeOK, Request, Or
<1>2. Alone'
  BY DEF Alone, TypeOK, Request, Busy
<1>3. OneLocked'
  BY DEF OneLocked, Holds, Locked, Alone, StepsSound, StepSound, TypeOK, Request
<1>4. StepsSound'
  BY DEF StepsSound, StepSound, TypeOK, Request
<1>5. ReadsSound'
  BY DEF ReadsSound, ReadSound, TypeOK, Request
<1>6. ReplaysSound'
  BY DEF ReplaysSound, ReplaySound, Alone, TypeOK, Request
<1>7. Explained'
  <2> SUFFICES ASSUME NEW x \in up' PROVE RoleExplained(x)' /\ WhExplained(x)'
    BY DEF Explained
  <2>1. CASE x = req[t].s
    BY <1>0, <2>1 DEF RoleExplained, WhExplained, TypeOK
  <2>2. CASE x # req[t].s
    <3>1. RoleExplained(x) /\ WhExplained(x) /\ x \in Session /\ drift'[x] = drift[x]
      BY <2>2 DEF Explained, TypeOK
    <3>2. \A u \in Thread :
            /\ PendsRole(req[u]) => PendsRole(req'[u]) /\ req'[u].s = req[u].s
            /\ PendsWh(req[u]) => PendsWh(req'[u]) /\ req'[u].s = req[u].s
      BY DEF PendsRole, PendsWh, TypeOK
    <3> QED BY <3>1, <3>2, RoleKept, WhKept
  <2> QED BY <2>1, <2>2
<1> QED BY <1>1, <1>2, <1>3, <1>4, <1>5, <1>6, <1>7

LEMMA SignOutInv == ASSUME IInv, NEW s \in Session, SignOut(s) PROVE IInv'
<1> USE ContextAssumption DEF IInv, OrNone, SignOut, connVars, rowVars
<1>0. \A u \in Thread : req[u] # None => req[u].s # s /\ req[u].s \in Session
  BY DEF Busy, TypeOK, Request
<1>1. TypeOK'
  BY DEF TypeOK, Request, Or
<1>2. Alone'
  BY DEF Alone, TypeOK, Request, Busy
<1>3. OneLocked'
  BY DEF OneLocked, Holds, Locked, Alone, StepsSound, StepSound, TypeOK, Request
<1>4. StepsSound'
  BY DEF StepsSound, StepSound, TypeOK, Request
<1>5. ReadsSound'
  <2> SUFFICES ASSUME NEW u \in Thread, req[u] # None PROVE ReadSound(req[u])'
    BY DEF ReadsSound
  <2>1. role'[req[u].s] = role[req[u].s] /\ wh'[req[u].s] = wh[req[u].s]
    BY <1>0 DEF TypeOK
  <2> QED BY <2>1 DEF ReadsSound, ReadSound
<1>6. ReplaysSound'
  BY DEF ReplaysSound, ReplaySound, Alone, TypeOK, Request
<1>7. Explained'
  <2> SUFFICES ASSUME NEW x \in up' PROVE RoleExplained(x)' /\ WhExplained(x)'
    BY DEF Explained
  <2>1. CASE x = s
    BY <2>1 DEF RoleExplained, WhExplained, TypeOK
  <2>2. CASE x # s
    <3>1. RoleExplained(x) /\ WhExplained(x) /\ x \in Session
      BY <2>2 DEF Explained, TypeOK
    <3>2. role'[x] = role[x] /\ wh'[x] = wh[x] /\ drift'[x] = drift[x]
      BY <2>2, <3>1 DEF TypeOK
    <3> QED BY <3>1, <3>2, RoleKept, WhKept
  <2> QED BY <2>1, <2>2
<1> QED BY <1>1, <1>2, <1>3, <1>4, <1>5, <1>6, <1>7

LEMMA RebuildInv == ASSUME IInv, NEW s \in Session, Rebuild(s) PROVE IInv'
<1> USE ContextAssumption DEF IInv, OrNone, Rebuild, Drifts, connVars, rowVars
<1>0. \A u \in Thread : req[u] # None => req[u].s # s /\ req[u].s \in Session
  BY DEF Busy, TypeOK, Request
<1>1. TypeOK'
  BY DEF TypeOK, Request, Or
<1>2. Alone'
  BY DEF Alone, TypeOK, Request, Busy
<1>3. OneLocked'
  BY DEF OneLocked, Holds, Locked, Alone, StepsSound, StepSound, TypeOK, Request
<1>4. StepsSound'
  BY DEF StepsSound, StepSound, TypeOK, Request
<1>5. ReadsSound'
  <2> SUFFICES ASSUME NEW u \in Thread, req[u] # None PROVE ReadSound(req[u])'
    BY DEF ReadsSound
  <2>1. role'[req[u].s] = role[req[u].s] /\ wh'[req[u].s] = wh[req[u].s]
    BY <1>0 DEF TypeOK
  <2> QED BY <2>1 DEF ReadsSound, ReadSound
<1>6. ReplaysSound'
  BY DEF ReplaysSound, ReplaySound, Alone, TypeOK, Request
<1>7. Explained'
  <2> SUFFICES ASSUME NEW x \in up' PROVE RoleExplained(x)' /\ WhExplained(x)'
    BY DEF Explained
  <2>1. CASE x = s
    BY <2>1 DEF RoleExplained, WhExplained, TypeOK
  <2>2. CASE x # s
    <3>1. RoleExplained(x) /\ WhExplained(x) /\ x \in Session
      BY <2>2 DEF Explained, TypeOK
    <3>2. role'[x] = role[x] /\ wh'[x] = wh[x] /\ drift'[x] = drift[x]
      BY <2>2, <3>1 DEF TypeOK
    <3> QED BY <3>1, <3>2, RoleKept, WhKept
  <2> QED BY <2>1, <2>2
<1> QED BY <1>1, <1>2, <1>3, <1>4, <1>5, <1>6, <1>7

LEMMA RegrantInv == ASSUME IInv, NEW r \in Role, Regrant(r) PROVE IInv'
<1> USE ContextAssumption DEF IInv, OrNone, Regrant, connVars, rowVars
<1>1. TypeOK'
  <2>1. ASSUME NEW t \in Thread, req[t] # None
        PROVE  [req[t] EXCEPT !.hindered = TRUE] \in Request
    <3>1. req[t] \in Request
      BY <2>1 DEF TypeOK
    <3> QED BY <3>1 DEF Request
  <2>2. req' \in [Thread -> Request \cup {None}]
    BY <2>1 DEF TypeOK
  <2> QED BY <2>2 DEF TypeOK
<1>2. Alone'
  BY DEF Alone, TypeOK, Request, Busy
<1>3. OneLocked'
  BY DEF OneLocked, Holds, Locked, Alone, StepsSound, StepSound, TypeOK, Request
<1>4. StepsSound'
  BY DEF StepsSound, StepSound, TypeOK, Request
<1>5. ReadsSound'
  BY DEF ReadsSound, ReadSound, TypeOK, Request
<1>6. ReplaysSound'
  BY DEF ReplaysSound, ReplaySound, Alone, TypeOK, Request
<1>7. Explained'
  <2>1. \A u \in Thread :
          /\ PendsRole(req[u]) => PendsRole(req'[u]) /\ req'[u].s = req[u].s
          /\ PendsWh(req[u]) => PendsWh(req'[u]) /\ req'[u].s = req[u].s
    BY DEF PendsRole, PendsWh, TypeOK, Request
  <2> QED BY <2>1, RoleKept, WhKept DEF Explained, TypeOK
<1> QED BY <1>1, <1>2, <1>3, <1>4, <1>5, <1>6, <1>7

LEMMA StutterInv == IInv /\ UNCHANGED vars => IInv'
<1> SUFFICES ASSUME IInv, UNCHANGED vars PROVE IInv'
  OBVIOUS
<1>1. UNCHANGED <<granted, up, role, wh, lastRole, lastWh, req, drift>>
  BY DEF vars
<1> QED
  BY <1>1 DEF IInv, TypeOK, Alone, OneLocked, Holds, StepsSound, StepSound, ReadsSound, ReadSound,
              ReplaysSound, ReplaySound, Explained, RoleExplained, WhExplained, RolePending,
              WhPending, PendsRole, PendsWh

LEMMA NextInv == IInv /\ [Next]_vars => IInv'
<1> SUFFICES ASSUME IInv, [Next]_vars PROVE IInv'
  OBVIOUS
<1>1. ASSUME NEW t \in Thread, Set(t) PROVE IInv'
  BY <1>1, ResolveRoleInv, UseRoleInv, ResolveWarehouseInv, UseWarehouseInv, ReadBackInv,
     StatementFailsInv, LoadInv, RememberInv DEF Set
<1>2. ASSUME NEW t \in Thread, Replay(t) PROVE IInv'
  BY <1>2, LoadRememberedInv, ReplayRoleInv, ReplayWarehouseInv, ReplayFailsInv, RecordLiveInv,
     ReadBackFailsInv
     DEF Replay
<1> QED
  BY <1>1, <1>2, AskInv, SignInInv, SignOutInv, RebuildInv, RegrantInv, StutterInv DEF Next

LEMMA Invariance == Spec => []IInv
BY InitInv, NextInv, PTL DEF Spec

(* What sessions run as, what is remembered and what requests have in hand   *)
(* keep their types (session/context.py, session/routes.py).                 *)
THEOREM TypeCorrect == Spec => []TypeOK
BY Invariance, PTL DEF IInv

(* Whatever overlaps, a session without requests runs as the row says, but   *)
(* for the causes that drift records (set_context, provenance.py).           *)
THEOREM DriftCorrect == Spec => []DriftExplained
<1>1. IInv => DriftExplained
  BY DEF IInv, DriftExplained, Explained, RoleExplained, WhExplained, RolePending, WhPending,
         PendsRole, PendsWh, Busy
<1> QED BY <1>1, Invariance, PTL

(* The remembered role and warehouse come back, in that order, whenever the  *)
(* grants allow it (_replay_remembered_context).                             *)
THEOREM ChoiceCorrect == Spec => ChoiceComesBack
<1> DEFINE Back ==
      \A t \in Thread : RecordLive(t) =>
        LET q == req[t] IN
        ~ q.hindered =>
          /\ q.oldR \in granted => role[q.s] = q.oldR
          /\ q.oldR \in granted /\ q.oldW \in Usable[q.oldR] => wh[q.s] = q.oldW
<1>1. IInv => Back
  <2> SUFFICES ASSUME IInv, NEW t \in Thread, RecordLive(t), ~ req[t].hindered
               PROVE  /\ req[t].oldR \in granted => role[req[t].s] = req[t].oldR
                      /\ req[t].oldR \in granted /\ req[t].oldW \in Usable[req[t].oldR]
                           => wh[req[t].s] = req[t].oldW
    OBVIOUS
  <2>1. req[t] # None /\ req[t].op = "sign_in" /\ req[t].at = "read"
    BY DEF RecordLive, Is, At
  <2> QED BY <2>1 DEF IInv, ReplaysSound, ReplaySound
<1>2. IInv => [Back]_vars
  BY <1>1
<1> QED BY <1>2, Invariance, PTL DEF ChoiceComesBack
=============================================================================
