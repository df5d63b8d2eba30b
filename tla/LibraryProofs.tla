------------------------------ MODULE LibraryProofs ------------------------------
(***************************************************************************)
(* Proofs about module Library, for any number of users, items and         *)
(* requests: its types, FavoriteKept, PhantomNeedsRace and                 *)
(* DanglingNeedsRace.                                                      *)
(***************************************************************************)
EXTENDS Library, TLAPS

AnyRequest == RowRequest \cup HomeRequest \cup DeleteRequest \cup DropRequest

(* A request that nobody raced acts on an item that is there; once it has    *)
(* forgotten the item, nobody has a row for it.                              *)
ReqSound ==
  \A h \in Handler : req[h] # None /\ ~ req[h].raced =>
    /\ req[h].op # "delete" => req[h].i \in exists
    /\ req[h].op = "delete" => \A u \in User : row[u][req[h].i] = None

(* Nor does a pointer at a dashboard that is about to go, but for those that *)
(* go with it.                                                               *)
DropSound ==
  \A h \in Handler : At(h, "drop") /\ ~ req[h].raced =>
    PointingAt(req[h].i) \subseteq req[h].cleared

IInv == TypeOK /\ ReqSound /\ DropSound
-----------------------------------------------------------------------------
(* The requests.                                                             *)

LEMMA Fields ==
  ASSUME TypeOK, NEW h \in Handler, req[h] # None
  PROVE  /\ req[h] \in AnyRequest /\ req[h].i \in Item /\ req[h].op \in Ops
         /\ req[h].raced \in BOOLEAN
         /\ OnRow(h) => req[h] \in RowRequest
         /\ req[h].op = "home" => req[h] \in HomeRequest
         /\ req[h].op \in {"forget", "delete"} => req[h] \in DeleteRequest
         /\ req[h].op \in {"clear", "drop"} => req[h] \in DropRequest
<1>1. \/ req[h] \in RowRequest \/ req[h] \in HomeRequest
      \/ req[h] \in DeleteRequest \/ req[h] \in DropRequest
  BY DEF TypeOK
<1>2. CASE req[h] \in RowRequest
  BY <1>2 DEF RowRequest, AnyRequest, Ops, Item, OnRow
<1>3. CASE req[h] \in HomeRequest
  BY <1>3 DEF HomeRequest, AnyRequest, Ops, Item, OnRow
<1>4. CASE req[h] \in DeleteRequest
  BY <1>4 DEF DeleteRequest, AnyRequest, Ops, Item, OnRow
<1>5. CASE req[h] \in DropRequest
  BY <1>5 DEF DropRequest, AnyRequest, Ops, Item, OnRow
<1> QED BY <1>1, <1>2, <1>3, <1>4, <1>5

LEMMA MarkedIs ==
  ASSUME NEW q \in AnyRequest
  PROVE  LET m == [q EXCEPT !.raced = TRUE] IN
         /\ m \in AnyRequest /\ m.op = q.op /\ m.i = q.i /\ m.raced = TRUE
<1>1. CASE q \in RowRequest
  BY <1>1 DEF RowRequest, AnyRequest
<1>2. CASE q \in HomeRequest
  BY <1>2 DEF HomeRequest, AnyRequest
<1>3. CASE q \in DeleteRequest
  BY <1>3 DEF DeleteRequest, AnyRequest
<1>4. CASE q \in DropRequest
  BY <1>4 DEF DropRequest, AnyRequest
<1> QED BY <1>1, <1>2, <1>3, <1>4 DEF AnyRequest

LEMMA RacingIs ==
  ASSUME TypeOK, NEW h, NEW q \in AnyRequest \cup {None}, NEW S, NEW ops, Racing(h, q, S, ops)
  PROVE  /\ req' \in [Handler -> AnyRequest \cup {None}]
         /\ h \in Handler => req'[h] = q
         /\ \A g \in Handler : g # h /\ req[g] # None /\ req[g].i \in S /\ req[g].op \in ops
              => req'[g].raced = TRUE
         /\ \A g \in Handler : g # h
              => req'[g] = req[g] \/ (/\ req[g] # None /\ req'[g].op = req[g].op
                                      /\ req'[g].i = req[g].i /\ req'[g].raced = TRUE)
<1> DEFINE raced(g) == req[g] # None /\ req[g].i \in S /\ req[g].op \in ops
<1>1. \A g \in Handler : req[g] \in AnyRequest \cup {None}
  BY DEF TypeOK, AnyRequest
<1>2. req' = [g \in Handler |-> IF g = h THEN q
                                ELSE IF raced(g) THEN [req[g] EXCEPT !.raced = TRUE] ELSE req[g]]
  BY DEF Racing
<1>3. ASSUME NEW g \in Handler, g # h, raced(g)
      PROVE  /\ req'[g] \in AnyRequest /\ req'[g].op = req[g].op /\ req'[g].i = req[g].i
             /\ req'[g].raced = TRUE
  <2>1. req'[g] = [req[g] EXCEPT !.raced = TRUE] /\ req[g] \in AnyRequest
    BY <1>1, <1>2, <1>3
  <2> QED BY <2>1, MarkedIs
<1>4. ASSUME NEW g \in Handler, g # h, ~ raced(g) PROVE req'[g] = req[g]
  BY <1>2, <1>4
<1>5. h \in Handler => req'[h] = q
  BY <1>2
<1> HIDE DEF raced
<1>6. \A g \in Handler : req'[g] \in AnyRequest \cup {None}
  BY <1>1, <1>3, <1>4, <1>5
<1>7. req' \in [Handler -> AnyRequest \cup {None}]
  BY <1>2, <1>6
<1> QED BY <1>3, <1>4, <1>5, <1>7 DEF raced

(* A request that begins or ends, or goes on, beside the others.             *)
LEMMA OneChanges ==
  ASSUME TypeOK, NEW h \in Handler, NEW q \in AnyRequest \cup {None}, req' = [req EXCEPT ![h] = q]
  PROVE  /\ req' \in [Handler -> AnyRequest \cup {None}] /\ req'[h] = q
         /\ \A g \in Handler : g # h => req'[g] = req[g]
BY DEF TypeOK, AnyRequest

(* Items only disappear from under requests that are raced for it, and rows  *)
(* only appear for items whose deletions are.                                *)
LEMMA OthersSound ==
  ASSUME IInv, NEW h,
         \A g \in Handler : g # h
           => req'[g] = req[g] \/ (/\ req[g] # None /\ req'[g].op = req[g].op
                                   /\ req'[g].i = req[g].i /\ req'[g].raced = TRUE),
         \A g \in Handler :
           g # h /\ req[g] # None /\ req[g].op # "delete" /\ req[g].i \in exists \ exists'
             => req'[g].raced,
         \A g \in Handler, u \in User :
           /\ g # h /\ req[g] # None /\ req[g].op = "delete"
           /\ row[u][req[g].i] = None /\ row'[u][req[g].i] # None
           => req'[g].raced,
         h \in Handler /\ req'[h] # None /\ ~ req'[h].raced =>
           /\ req'[h].op # "delete" => req'[h].i \in exists'
           /\ req'[h].op = "delete" => \A u \in User : row'[u][req'[h].i] = None
  PROVE  ReqSound'
<1> SUFFICES ASSUME NEW g \in Handler, req'[g] # None, ~ req'[g].raced
             PROVE  /\ req'[g].op # "delete" => req'[g].i \in exists'
                    /\ req'[g].op = "delete" => \A u \in User : row'[u][req'[g].i] = None
  BY DEF ReqSound
<1>1. CASE g = h
  BY <1>1
<1>2. CASE g # h
  <2>1. req'[g] = req[g] /\ req[g] # None /\ ~ req[g].raced
    BY <1>2
  <2> QED BY <1>2, <2>1 DEF IInv, ReqSound
<1> QED BY <1>1, <1>2

(* New pointers at a dashboard are in the deletions that they race, and no   *)
(* other request is about to delete one.                                     *)
LEMMA DropsSound ==
  ASSUME IInv, NEW h,
         \A g \in Handler : g # h
           => req'[g] = req[g] \/ (/\ req[g] # None /\ req'[g].op = req[g].op
                                   /\ req'[g].i = req[g].i /\ req'[g].raced = TRUE),
         \A g \in Handler :
           g # h /\ At(g, "drop") /\ ~ req'[g].raced => PointingAt(req[g].i)' \subseteq PointingAt(req[g].i),
         h \in Handler /\ req'[h] # None /\ req'[h].op = "drop"
           => {u \in User : home'[u] = req'[h].i} \subseteq req'[h].cleared
  PROVE  DropSound'
<1> SUFFICES ASSUME NEW g \in Handler, req'[g] # None, req'[g].op = "drop", ~ req'[g].raced
             PROVE  {u \in User : home'[u] = req'[g].i} \subseteq req'[g].cleared
  BY DEF DropSound, At, PointingAt
<1>0. req'[g] # None /\ req'[g].op = "drop"
  OBVIOUS
<1>1. CASE g = h
  BY <1>0, <1>1
<1>2. CASE g # h
  <2>1. req'[g] = req[g] /\ At(g, "drop") /\ ~ req[g].raced
    BY <1>0, <1>2 DEF At
  <2>2. PointingAt(req[g].i) \subseteq req[g].cleared
    BY <2>1 DEF IInv, DropSound
  <2>3. PointingAt(req[g].i)' \subseteq PointingAt(req[g].i)
    BY <1>2, <2>1
  <2> QED BY <2>1, <2>2, <2>3 DEF PointingAt
<1> QED BY <1>1, <1>2
-----------------------------------------------------------------------------
(* The invariant holds at the start, and every action keeps it.              *)

LEMMA InitInv == Init => IInv
BY DEF Init, IInv, TypeOK, ReqSound, DropSound, At

LEMMA CreateItemInv == ASSUME IInv, NEW i \in Item, CreateItem(i) PROVE IInv'
<1>1. TypeOK'
  BY DEF CreateItem, IInv, TypeOK
<1>2. ReqSound'
  BY DEF CreateItem, IInv, ReqSound
<1>3. DropSound'
  BY DEF CreateItem, IInv, DropSound, At, PointingAt
<1> QED BY <1>1, <1>2, <1>3 DEF IInv

LEMMA DeleteWorkspaceInv == ASSUME IInv, NEW S \in SUBSET Item, DeleteWorkspace(S) PROVE IInv'
<1>1. /\ S \subseteq exists /\ exists' = exists \ S /\ swept' = swept \cup S
      /\ row' = row /\ home' = home /\ Racing(None, None, S, Ops)
  BY DEF DeleteWorkspace
<1>2. TypeOK /\ None \notin Handler
  BY ItemAssumption DEF IInv
<1>3. /\ req' \in [Handler -> AnyRequest \cup {None}]
      /\ \A g \in Handler : g # None /\ req[g] # None /\ req[g].i \in S => req'[g].raced = TRUE
      /\ \A g \in Handler : g # None
           => req'[g] = req[g] \/ (/\ req[g] # None /\ req'[g].op = req[g].op
                                   /\ req'[g].i = req[g].i /\ req'[g].raced = TRUE)
  BY <1>1, <1>2, RacingIs, Fields
<1>4. TypeOK'
  BY <1>1, <1>3 DEF IInv, TypeOK, AnyRequest
<1>5. ReqSound'
  BY <1>1, <1>2, <1>3, OthersSound
<1>6. DropSound'
  BY <1>1, <1>2, <1>3, DropsSound DEF PointingAt
<1> QED BY <1>4, <1>5, <1>6 DEF IInv

LEMMA DropCommitIs ==
  ASSUME IInv, NEW h \in Handler, DropCommit(h)
  PROVE  /\ req[h] # None /\ req[h].op = "drop" /\ req[h] \in DropRequest
         /\ req' \in [Handler -> AnyRequest \cup {None}] /\ req'[h] = None
         /\ \A g \in Handler : g # h /\ req[g] # None /\ req[g].i = req[h].i => req'[g].raced = TRUE
         /\ \A g \in Handler : g # h
              => req'[g] = req[g] \/ (/\ req[g] # None /\ req'[g].op = req[g].op
                                      /\ req'[g].i = req[g].i /\ req'[g].raced = TRUE)
<1>1. req[h] # None /\ req[h].op = "drop" /\ Racing(h, None, {req[h].i}, Ops)
  BY DEF DropCommit, At
<1>2. TypeOK /\ \A g \in Handler : req[g] # None => req[g].op \in Ops
  BY Fields DEF IInv
<1>3. req[h] \in DropRequest
  BY <1>1, <1>2, Fields
<1> QED BY <1>1, <1>2, <1>3, RacingIs

LEMMA DropCommitInv == ASSUME IInv, NEW h \in Handler, DropCommit(h) PROVE IInv'
<1>1. /\ exists' = exists \ {req[h].i} /\ swept' = swept /\ row' = row
      /\ home' = [u \in User |-> IF u \in req[h].cleared THEN None ELSE home[u]]
  BY DEF DropCommit
<1>2. TypeOK'
  BY <1>1, DropCommitIs DEF IInv, TypeOK, AnyRequest
<1>3. ReqSound'
  BY <1>1, DropCommitIs, OthersSound
<1>4. DropSound'
  <2>1. \A d \in Dashboard : PointingAt(d)' \subseteq PointingAt(d)
    BY <1>1, ItemAssumption DEF PointingAt, Item
  <2>2. \A g \in Handler : At(g, "drop") => req[g].i \in Dashboard
    BY Fields DEF At, IInv, DropRequest
  <2> QED BY <2>1, <2>2, DropCommitIs, DropsSound
<1> QED BY <1>2, <1>3, <1>4 DEF IInv

LEMMA ClearPointersInv == ASSUME IInv, NEW h \in Handler, ClearPointers(h) PROVE IInv'
<1> DEFINE q == [req[h] EXCEPT !.op = "drop", !.cleared = PointingAt(req[h].i)]
<1>1. req[h] # None /\ req[h].op = "clear"
  BY DEF ClearPointers, At
<1>2. req[h] \in DropRequest
  BY <1>1, Fields DEF IInv
<1>3. /\ q \in AnyRequest /\ q.op = "drop" /\ q.i = req[h].i /\ q.raced = req[h].raced
      /\ q.cleared = PointingAt(req[h].i)
  BY <1>2 DEF DropRequest, AnyRequest, PointingAt
<1>4. req' = [req EXCEPT ![h] = q] /\ UNCHANGED <<exists, swept, row, home>>
  BY DEF ClearPointers, IInv, TypeOK
<1> HIDE DEF q
<1>5. /\ req' \in [Handler -> AnyRequest \cup {None}] /\ req'[h] = q
      /\ \A g \in Handler : g # h => req'[g] = req[g]
  BY <1>3, <1>4, OneChanges DEF IInv
<1>6. TypeOK'
  BY <1>4, <1>5 DEF IInv, TypeOK, AnyRequest
<1>7. ReqSound'
  <2>1. ~ req[h].raced => req[h].i \in exists
    BY <1>1 DEF IInv, ReqSound
  <2> QED BY <1>3, <1>4, <1>5, <2>1, OthersSound
<1>8. DropSound'
  <2>1. {u \in User : home'[u] = req'[h].i} = req'[h].cleared
    BY <1>3, <1>4, <1>5 DEF PointingAt
  <2> QED BY <1>4, <1>5, <2>1, DropsSound DEF PointingAt
<1> QED BY <1>6, <1>7, <1>8 DEF IInv

LEMMA ClearHomeInv == ASSUME IInv, NEW u \in User, ClearHome(u) PROVE IInv'
<1>1. TypeOK'
  BY DEF ClearHome, IInv, TypeOK
<1>2. ReqSound'
  BY DEF ClearHome, IInv, ReqSound
<1>3. DropSound'
  <2>1. home' = [home EXCEPT ![u] = None] /\ req' = req
    BY DEF ClearHome
  <2>2. \A d \in Dashboard : PointingAt(d)' \subseteq PointingAt(d)
    BY <2>1, ItemAssumption DEF PointingAt, IInv, TypeOK, Item
  <2>3. \A g \in Handler : At(g, "drop") => req[g].i \in Dashboard
    BY Fields DEF At, IInv, DropRequest
  <2> QED BY <2>1, <2>2, <2>3, DropsSound, ItemAssumption
<1> QED BY <1>1, <1>2, <1>3 DEF IInv

(* The requests that begin.                                                  *)
LEMMA Begins ==
  ASSUME IInv, NEW h \in Handler, NEW q \in AnyRequest, req' = [req EXCEPT ![h] = q],
         q.op \notin {"delete", "drop"}, q.i \in exists, UNCHANGED <<exists, swept, row, home>>
  PROVE  IInv'
<1>1. /\ req' \in [Handler -> AnyRequest \cup {None}] /\ req'[h] = q
      /\ \A g \in Handler : g # h => req'[g] = req[g]
  BY OneChanges DEF IInv
<1>2. TypeOK'
  BY <1>1 DEF IInv, TypeOK, AnyRequest
<1>3. ReqSound'
  BY <1>1, OthersSound
<1>4. DropSound'
  BY <1>1, DropsSound DEF PointingAt
<1> QED BY <1>2, <1>3, <1>4 DEF IInv

LEMMA DeleteInv == ASSUME IInv, NEW h \in Handler, NEW i \in Document, Delete(h, i) PROVE IInv'
<1> DEFINE q == [op |-> "forget", i |-> i, raced |-> FALSE]
<1>1. q \in AnyRequest /\ q.op \notin {"delete", "drop"} /\ q.i \in exists
  BY DEF Delete, AnyRequest, DeleteRequest
<1>2. req' = [req EXCEPT ![h] = q] /\ UNCHANGED <<exists, swept, row, home>>
  BY DEF Delete
<1> HIDE DEF q
<1> QED BY <1>1, <1>2, Begins

LEMMA DeleteDashboardInv ==
  ASSUME IInv, NEW h \in Handler, NEW d \in Dashboard, DeleteDashboard(h, d)
  PROVE  IInv'
<1> DEFINE q == [op |-> "clear", i |-> d, cleared |-> {}, raced |-> FALSE]
<1>1. q \in AnyRequest /\ q.op \notin {"delete", "drop"} /\ q.i \in exists
  BY DEF DeleteDashboard, AnyRequest, DropRequest
<1>2. req' = [req EXCEPT ![h] = q] /\ UNCHANGED <<exists, swept, row, home>>
  BY DEF DeleteDashboard
<1> HIDE DEF q
<1> QED BY <1>1, <1>2, Begins

LEMMA AskInv ==
  ASSUME IInv, NEW h \in Handler, NEW u \in User, NEW i \in Item, NEW op \in {"pin", "unpin", "view"},
         Ask(h, u, i, op)
  PROVE  IInv'
<1> DEFINE q == [op |-> op, u |-> u, i |-> i, was |-> row[u][i], raced |-> FALSE]
<1>1. q \in AnyRequest /\ q.op \notin {"delete", "drop"} /\ q.i \in exists
  BY DEF Ask, AnyRequest, RowRequest, IInv, TypeOK
<1>2. req' = [req EXCEPT ![h] = q] /\ UNCHANGED <<exists, swept, row, home>>
  BY DEF Ask
<1> HIDE DEF q
<1> QED BY <1>1, <1>2, Begins

LEMMA ChooseHomeInv ==
  ASSUME IInv, NEW h \in Handler, NEW u \in User, NEW d \in Dashboard, ChooseHome(h, u, d)
  PROVE  IInv'
<1> DEFINE q == [op |-> "home", u |-> u, i |-> d, was |-> home[u], raced |-> FALSE]
<1>1. q \in AnyRequest /\ q.op \notin {"delete", "drop"} /\ q.i \in exists
  BY DEF ChooseHome, AnyRequest, HomeRequest, IInv, TypeOK
<1>2. req' = [req EXCEPT ![h] = q] /\ UNCHANGED <<exists, swept, row, home>>
  BY DEF ChooseHome
<1> HIDE DEF q
<1> QED BY <1>1, <1>2, Begins

(* The requests that end without a change.                                   *)
LEMMA Ends ==
  ASSUME IInv, NEW h \in Handler, Done(h), UNCHANGED <<exists, swept, row, home>>
  PROVE  IInv'
<1>1. /\ req' \in [Handler -> AnyRequest \cup {None}] /\ req'[h] = None
      /\ \A g \in Handler : g # h => req'[g] = req[g]
  BY OneChanges DEF IInv, Done
<1>2. TypeOK'
  BY <1>1 DEF IInv, TypeOK, AnyRequest
<1>3. ReqSound'
  BY <1>1, OthersSound
<1>4. DropSound'
  BY <1>1, DropsSound DEF PointingAt
<1> QED BY <1>2, <1>3, <1>4 DEF IInv

LEMMA SetHomeIs ==
  ASSUME IInv, NEW h \in Handler, SetHome(h)
  PROVE  /\ req[h] # None /\ req[h].u \in User /\ req[h].i \in Dashboard
         /\ req'[h] = None
         /\ \A u \in User : home'[u] = IF u = req[h].u THEN req[h].i ELSE home[u]
         /\ home' \in [User -> Dashboard \cup {None}]
<1>1. req[h] # None /\ req[h] \in HomeRequest
  BY Fields DEF SetHome, At, IInv
<1>2. req[h].u \in User /\ req[h].i \in Dashboard
  BY <1>1 DEF HomeRequest
<1>3. home' = [home EXCEPT ![req[h].u] = req[h].i] /\ Racing(h, None, {req[h].i}, {"drop"})
  BY DEF SetHome
<1>4. req'[h] = None
  BY <1>3, RacingIs DEF IInv
<1> QED BY <1>1, <1>2, <1>3, <1>4 DEF IInv, TypeOK

LEMMA SetHomeInv == ASSUME IInv, NEW h \in Handler, SetHome(h) PROVE IInv'
<1>1. /\ Racing(h, None, {req[h].i}, {"drop"}) /\ exists' = exists /\ swept' = swept /\ row' = row
  BY DEF SetHome
<1>2. /\ req' \in [Handler -> AnyRequest \cup {None}] /\ req'[h] = None
      /\ \A g \in Handler : g # h /\ req[g] # None /\ req[g].i = req[h].i /\ req[g].op = "drop"
           => req'[g].raced = TRUE
      /\ \A g \in Handler : g # h
           => req'[g] = req[g] \/ (/\ req[g] # None /\ req'[g].op = req[g].op
                                   /\ req'[g].i = req[g].i /\ req'[g].raced = TRUE)
  BY <1>1, RacingIs DEF IInv
<1>3. TypeOK'
  BY <1>1, <1>2, SetHomeIs DEF IInv, TypeOK, AnyRequest
<1>4. ReqSound'
  BY <1>1, <1>2, OthersSound
<1>5. DropSound'
  <2>1. \A i : i # req[h].i => PointingAt(i)' \subseteq PointingAt(i)
    BY SetHomeIs DEF PointingAt
  <2>2. \A g \in Handler : g # h /\ At(g, "drop") /\ ~ req'[g].raced => req[g].i # req[h].i
    BY <1>2 DEF At
  <2> QED BY <1>2, <2>1, <2>2, DropsSound
<1> QED BY <1>3, <1>4, <1>5 DEF IInv

LEMMA EndsInv ==
  ASSUME IInv, NEW h \in Handler, DeleteFails(h) \/ WriteNothing(h) \/ KeepHome(h)
  PROVE  IInv'
BY Ends DEF DeleteFails, WriteNothing, KeepHome

LEMMA ForgetInv == ASSUME IInv, NEW h \in Handler, Forget(h) PROVE IInv'
<1> DEFINE i == req[h].i
           q == [req[h] EXCEPT !.op = "delete", !.raced = FALSE]
<1>1. /\ req[h] # None /\ req[h].op = "forget" /\ Racing(h, q, {i}, Ops)
      /\ row' = [u \in User |-> [row[u] EXCEPT ![i] = None]]
      /\ exists' = exists /\ swept' = swept /\ home' = home
  BY DEF Forget, At
<1>2. req[h] \in DeleteRequest
  BY <1>1, Fields DEF IInv
<1>3. q \in AnyRequest /\ q.op = "delete" /\ q.i = i /\ i \in Item
  BY <1>2 DEF DeleteRequest, AnyRequest, Item
<1> HIDE DEF q, i
<1>4. /\ req' \in [Handler -> AnyRequest \cup {None}] /\ req'[h] = q
      /\ \A g \in Handler : g # h
           => req'[g] = req[g] \/ (/\ req[g] # None /\ req'[g].op = req[g].op
                                   /\ req'[g].i = req[g].i /\ req'[g].raced = TRUE)
  BY <1>1, <1>3, RacingIs DEF IInv
<1>5. row' \in [User -> [Item -> Row \cup {None}]]
  BY <1>1 DEF IInv, TypeOK
<1>6. \A u \in User, j \in Item : row'[u][j] = (IF j = i THEN None ELSE row[u][j])
  BY <1>1 DEF IInv, TypeOK
<1>7. TypeOK'
  BY <1>1, <1>4, <1>5 DEF IInv, TypeOK, AnyRequest
<1>8. \A g \in Handler : req[g] # None => req[g].i \in Item
  BY Fields DEF IInv
<1>9. ReqSound'
  <2>1. \A g \in Handler, u \in User :
          req[g] # None /\ row[u][req[g].i] = None => row'[u][req[g].i] = None
    BY <1>6, <1>8
  <2>2. \A u \in User : row'[u][i] = None
    BY <1>3, <1>6
  <2>3. req'[h].op = "delete" /\ \A u \in User : row'[u][req'[h].i] = None
    BY <1>3, <1>4, <2>2
  <2>4. \A g \in Handler : req[g].i \notin exists \ exists'
    BY <1>1
  <2>5. \A g \in Handler :
          g # h /\ req[g] # None /\ req[g].op # "delete" /\ req[g].i \in exists \ exists'
            => req'[g].raced
    BY <2>4
  <2>6. \A g \in Handler, u \in User :
          /\ g # h /\ req[g] # None /\ req[g].op = "delete"
          /\ row[u][req[g].i] = None /\ row'[u][req[g].i] # None
          => req'[g].raced
    BY <2>1
  <2>7. h \in Handler /\ req'[h] # None /\ ~ req'[h].raced =>
          /\ req'[h].op # "delete" => req'[h].i \in exists'
          /\ req'[h].op = "delete" => \A u \in User : row'[u][req'[h].i] = None
    BY <2>3
  <2> QED BY <1>4, <2>5, <2>6, <2>7, OthersSound
<1>10. DropSound'
  BY <1>1, <1>3, <1>4, DropsSound DEF PointingAt
<1> QED BY <1>7, <1>9, <1>10 DEF IInv

LEMMA DeleteCommitInv == ASSUME IInv, NEW h \in Handler, DeleteCommit(h) PROVE IInv'
<1>1. /\ req[h] # None /\ Racing(h, None, {req[h].i}, Ops) /\ exists' = exists \ {req[h].i}
      /\ swept' = swept /\ row' = row /\ home' = home
  BY DEF DeleteCommit, At
<1>2. /\ req' \in [Handler -> AnyRequest \cup {None}] /\ req'[h] = None
      /\ \A g \in Handler : g # h /\ req[g] # None /\ req[g].i = req[h].i => req'[g].raced = TRUE
      /\ \A g \in Handler : g # h
           => req'[g] = req[g] \/ (/\ req[g] # None /\ req'[g].op = req[g].op
                                   /\ req'[g].i = req[g].i /\ req'[g].raced = TRUE)
  <2>1. TypeOK /\ \A g \in Handler : req[g] # None => req[g].op \in Ops
    BY Fields DEF IInv
  <2> QED BY <1>1, <2>1, RacingIs
<1>3. TypeOK'
  BY <1>1, <1>2 DEF IInv, TypeOK, AnyRequest
<1>4. ReqSound'
  BY <1>1, <1>2, OthersSound
<1>5. DropSound'
  BY <1>1, <1>2, DropsSound DEF PointingAt
<1> QED BY <1>3, <1>4, <1>5 DEF IInv

(* What a write does to the rows.                                            *)
LEMMA UpdatedIs ==
  ASSUME NEW q \in RowRequest, NEW r \in Row
  PROVE  /\ Updated(q, r) \in Row /\ Updated(q, r) # None
         /\ q.op = "view" => Updated(q, r).favorite = r.favorite
         /\ q.op = "pin" => Updated(q, r).favorite = TRUE
<1>1. None \notin Row
  BY ItemAssumption
<1> QED BY <1>1 DEF Updated, Row, RowRequest

LEMMA WriteRowIs ==
  ASSUME IInv, NEW h \in Handler, WriteRow(h)
  PROVE  /\ req[h] # None /\ req[h] \in RowRequest /\ req[h].u \in User /\ req[h].i \in Item
         /\ req'[h] = None
         /\ row' \in [User -> [Item -> Row \cup {None}]]
         /\ \A u \in User, i \in Item :
              row'[u][i] = IF u = req[h].u /\ i = req[h].i
                           THEN Updated(req[h], IF row[u][i] = None THEN New ELSE row[u][i])
                           ELSE row[u][i]
<1>1. OnRow(h) /\ req[h] # None
  BY DEF WriteRow, OnRow
<1>2. req[h] \in RowRequest
  BY <1>1, Fields DEF IInv
<1>3. req[h].u \in User /\ req[h].i \in Item
  BY <1>2 DEF RowRequest
<1> DEFINE q == req[h]
           r == IF row[q.u][q.i] = None THEN New ELSE row[q.u][q.i]
<1>4. r \in Row
  BY <1>3 DEF IInv, TypeOK, New, Row
<1>5. Updated(q, r) \in Row
  BY <1>2, <1>4, UpdatedIs
<1>6. row' = [row EXCEPT ![q.u][q.i] = Updated(q, r)]
  BY <1>3 DEF WriteRow, IInv, TypeOK
<1>7. req'[h] = None
  BY RacingIs DEF WriteRow, IInv
<1> HIDE DEF r
<1>8. row' \in [User -> [Item -> Row \cup {None}]]
  BY <1>3, <1>5, <1>6 DEF IInv, TypeOK
<1>9. \A u \in User, i \in Item :
        row'[u][i] = IF u = q.u /\ i = q.i THEN Updated(q, r) ELSE row[u][i]
  BY <1>3, <1>6 DEF IInv, TypeOK
<1> QED BY <1>1, <1>2, <1>3, <1>7, <1>8, <1>9 DEF r

LEMMA WriteRowInv == ASSUME IInv, NEW h \in Handler, WriteRow(h) PROVE IInv'
<1>1. /\ Racing(h, None, {req[h].i}, {"delete"}) /\ exists' = exists /\ swept' = swept
      /\ home' = home
  BY DEF WriteRow
<1>2. /\ req' \in [Handler -> AnyRequest \cup {None}] /\ req'[h] = None
      /\ \A g \in Handler : g # h /\ req[g] # None /\ req[g].i = req[h].i /\ req[g].op = "delete"
           => req'[g].raced = TRUE
      /\ \A g \in Handler : g # h
           => req'[g] = req[g] \/ (/\ req[g] # None /\ req'[g].op = req[g].op
                                   /\ req'[g].i = req[g].i /\ req'[g].raced = TRUE)
  BY <1>1, RacingIs DEF IInv
<1>3. /\ row' \in [User -> [Item -> Row \cup {None}]]
      /\ \A u \in User, i \in Item : i # req[h].i => row'[u][i] = row[u][i]
  BY WriteRowIs
<1>4. TypeOK'
  BY <1>1, <1>2, <1>3 DEF IInv, TypeOK, AnyRequest
<1>5. \A g \in Handler : req[g] # None => req[g].i \in Item
  BY Fields DEF IInv
<1>6. ReqSound'
  <2>1. \A g \in Handler, u \in User :
          /\ g # h /\ req[g] # None /\ req[g].op = "delete"
          /\ row[u][req[g].i] = None /\ row'[u][req[g].i] # None
          => req'[g].raced
    BY <1>2, <1>3, <1>5
  <2> QED BY <1>1, <1>2, <2>1, OthersSound
<1>7. DropSound'
  BY <1>1, <1>2, DropsSound DEF PointingAt
<1> QED BY <1>4, <1>6, <1>7 DEF IInv

LEMMA NextInv == IInv /\ [Next]_vars => IInv'
<1> SUFFICES ASSUME IInv, [Next]_vars PROVE IInv'
  OBVIOUS
<1>1. CASE UNCHANGED vars
  BY <1>1 DEF vars, IInv, TypeOK, ReqSound, DropSound, At, PointingAt
<1>2. CASE Next
  BY <1>1, <1>2, CreateItemInv, DeleteWorkspaceInv, DeleteDashboardInv, ClearPointersInv,
     DropCommitInv, ClearHomeInv, DeleteInv, ForgetInv, DeleteCommitInv, EndsInv, AskInv, WriteRowInv, ChooseHomeInv, SetHomeInv
     DEF Next, NotFound
<1> QED BY <1>1, <1>2

LEMMA Invariance == Spec => []IInv
BY InitInv, NextInv, PTL DEF Spec
-----------------------------------------------------------------------------
(* What is stored, and what every request has read, stays of its type        *)
(* (library/state.py, dashboards/service.py).                                *)
THEOREM TypeCorrect == Spec => []TypeOK
<1>1. IInv => TypeOK
  BY DEF IInv
<1> QED BY <1>1, Invariance, PTL

(* The rows and the items change by these actions only.                      *)
LEMMA RowsChange ==
  ASSUME IInv, [Next]_vars
  PROVE  \/ row' = row
         \/ \E h \in Handler : exists' = exists /\ (WriteRow(h) \/ Forget(h))
BY DEF Next, vars, CreateItem, DeleteWorkspace, DeleteDashboard, ClearPointers, DropCommit,
   ClearHome, NotFound, Delete, DeleteCommit, DeleteFails, Ask, WriteNothing, ChooseHome, SetHome,
   KeepHome, WriteRow, Forget

LEMMA ItemsGo ==
  ASSUME IInv, [Next]_vars, NEW i \in exists, i \notin exists'
  PROVE  \/ i \in swept'
         \/ \E h \in Handler : (DropCommit(h) \/ DeleteCommit(h)) /\ i = req[h].i
<1>1. \/ \E S \in SUBSET Item : DeleteWorkspace(S)
      \/ \E h \in Handler : DropCommit(h) \/ DeleteCommit(h)
  BY DEF Next, vars, CreateItem, ClearHome, NotFound, Delete, Forget, DeleteFails, DeleteDashboard,
     ClearPointers, Ask, WriteRow, WriteNothing, ChooseHome, SetHome, KeepHome
<1>2. ASSUME NEW S \in SUBSET Item, DeleteWorkspace(S) PROVE i \in swept'
  BY <1>2 DEF DeleteWorkspace
<1>3. ASSUME NEW h \in Handler, DropCommit(h) PROVE i = req[h].i
  BY <1>3 DEF DropCommit
<1>4. ASSUME NEW h \in Handler, DeleteCommit(h) PROVE i = req[h].i
  BY <1>4 DEF DeleteCommit
<1> QED BY <1>1, <1>2, <1>3, <1>4

(* Opening an item at the same time does not undo a pin, and no other user's *)
(* request does (library/state.py, set_favorite and record_view).            *)
THEOREM FavoriteCorrect == Spec => FavoriteKept
<1> DEFINE Taken(u, i) == \E h \in Handler :
             /\ req'[h] # req[h]
             /\ \/ At(h, "unpin") /\ req[h].u = u /\ req[h].i = i
                \/ At(h, "forget") /\ req[h].i = i
<1>1. ASSUME IInv, [Next]_vars, NEW u \in User, NEW i \in Item,
             Favorite(u, i), ~ Favorite(u, i)'
      PROVE  Taken(u, i)
  <2>1. row' # row
    BY <1>1 DEF Favorite
  <2>2. PICK h \in Handler : WriteRow(h) \/ Forget(h)
    BY <1>1, <2>1, RowsChange
  <2>3. row[u][i] \in Row /\ row[u][i] # None /\ row[u][i].favorite
    BY <1>1 DEF Favorite, IInv, TypeOK
  <2>4. row'[u][i] = None \/ ~ row'[u][i].favorite
    BY <1>1 DEF Favorite
  <2>5. CASE WriteRow(h)
    <3>1. /\ req[h] # None /\ req[h] \in RowRequest /\ req'[h] = None
          /\ row'[u][i] = IF u = req[h].u /\ i = req[h].i
                          THEN Updated(req[h], row[u][i]) ELSE row[u][i]
      BY <1>1, <2>3, <2>5, WriteRowIs
    <3>2. u = req[h].u /\ i = req[h].i /\ row'[u][i] = Updated(req[h], row[u][i])
      BY <2>3, <2>4, <3>1
    <3>3. req[h].op # "view" /\ req[h].op # "pin"
      BY <2>3, <2>4, <3>1, <3>2, UpdatedIs
    <3>4. req[h].op = "unpin"
      BY <3>1, <3>3 DEF RowRequest
    <3> QED BY <3>1, <3>2, <3>4 DEF At
  <2>6. CASE Forget(h)
    <3>1. /\ req[h] # None /\ req[h].op = "forget"
          /\ row' = [w \in User |-> [row[w] EXCEPT ![req[h].i] = None]]
          /\ Racing(h, [req[h] EXCEPT !.op = "delete", !.raced = FALSE], {req[h].i}, Ops)
      BY <2>6 DEF Forget, At
    <3>2. i = req[h].i
      BY <1>1, <2>3, <2>4, <3>1 DEF IInv, TypeOK
    <3>3. req[h] \in DeleteRequest
      BY <1>1, <3>1, Fields DEF IInv
    <3>4. req'[h] = [req[h] EXCEPT !.op = "delete", !.raced = FALSE]
      BY <3>1 DEF Racing
    <3>5. req'[h].op = "delete"
      BY <3>3, <3>4 DEF DeleteRequest
    <3> QED BY <3>1, <3>2, <3>5 DEF At
  <2> QED BY <2>2, <2>5, <2>6
<1>2. IInv /\ [Next]_vars =>
        [\A u \in User, i \in Item : Favorite(u, i) /\ ~ Favorite(u, i)' => Taken(u, i)]_vars
  BY <1>1
<1> QED BY <1>2, Invariance, PTL DEF Spec, FavoriteKept

(* A row outlives its item only where the code forgets nothing, or by a race *)
(* (library/state.py, forget_item, and its callers).                         *)
THEOREM PhantomCorrect == Spec => PhantomNeedsRace
<1>1. ASSUME IInv, [Next]_vars, NEW u \in User, NEW i \in Item,
             Phantom(u, i)', ~ Phantom(u, i), i \notin Dashboard, i \notin swept'
      PROVE  RacedOn(i)
  <2>1. row'[u][i] # None /\ i \notin exists' /\ (row[u][i] = None \/ i \in exists)
    BY <1>1 DEF Phantom
  <2>2. CASE i \in exists
    <3>0. ASSUME NEW h \in Handler, DropCommit(h) PROVE req[h].i \in Dashboard
      BY <1>1, <3>0, DropCommitIs DEF DropRequest
    <3>1. PICK h \in Handler : DeleteCommit(h) /\ i = req[h].i
      BY <1>1, <2>1, <2>2, <3>0, ItemsGo
    <3>2. req[h] # None /\ req[h].op = "delete" /\ row' = row /\ req'[h] = None
      BY <1>1, <3>1, RacingIs DEF DeleteCommit, At, IInv
    <3>3. req[h].raced
      BY <1>1, <2>1, <3>1, <3>2 DEF IInv, ReqSound
    <3> QED BY <3>1, <3>2, <3>3 DEF RacedOn
  <2>3. CASE i \notin exists
    <3>1. row'[u][i] # None /\ row[u][i] = None
      BY <2>1, <2>3
    <3>2. PICK h \in Handler : exists' = exists /\ (WriteRow(h) \/ Forget(h))
      BY <1>1, <3>1, RowsChange
    <3>3. CASE WriteRow(h)
      <4>1. req[h] # None /\ req[h] \in RowRequest /\ req'[h] = None /\ i = req[h].i
        BY <1>1, <3>1, <3>3, WriteRowIs
      <4>2. req[h].op # "delete"
        BY <4>1 DEF RowRequest
      <4>3. req[h].raced
        BY <1>1, <2>3, <4>1, <4>2 DEF IInv, ReqSound
      <4> QED BY <4>1, <4>3 DEF RacedOn
    <3>4. CASE Forget(h)
      <4>1. row' = [w \in User |-> [row[w] EXCEPT ![req[h].i] = None]]
        BY <3>4 DEF Forget
      <4>2. row'[u][i] = None \/ row'[u][i] = row[u][i]
        BY <1>1, <4>1 DEF IInv, TypeOK
      <4> QED BY <3>1, <4>2
    <3> QED BY <3>2, <3>3, <3>4
  <2> QED BY <2>2, <2>3
<1>2. IInv /\ [Next]_vars =>
        [\A u \in User, i \in Item :
           Phantom(u, i)' /\ ~ Phantom(u, i) =>
             i \in Dashboard \/ i \in swept' \/ RacedOn(i)]_vars
  BY <1>1
<1> QED BY <1>2, Invariance, PTL DEF Spec, PhantomNeedsRace

(* The home pointers change by these actions only.                           *)
LEMMA HomeChanges ==
  ASSUME IInv, [Next]_vars
  PROVE  \/ home' = home
         \/ exists' = exists /\ \E u \in User : ClearHome(u)
         \/ exists' = exists /\ \E h \in Handler : SetHome(h)
         \/ \E h \in Handler : DropCommit(h)
BY DEF Next, vars, CreateItem, DeleteWorkspace, ClearHome, NotFound, Delete, DeleteCommit, Forget,
   DeleteFails, DeleteDashboard, ClearPointers, Ask, WriteRow, WriteNothing, ChooseHome, SetHome,
   KeepHome

(* "Anyone who chose it for their home now has no dashboard chosen"          *)
(* (dashboards/service.py, delete_dashboard), races aside.                   *)
THEOREM DanglingCorrect == Spec => DanglingNeedsRace
<1>1. ASSUME IInv, [Next]_vars, NEW u \in User, Dangling(u)', ~ Dangling(u),
             home'[u] \notin swept'
      PROVE  RacedOn(home'[u])
  <2>1. home'[u] \notin exists' /\ home'[u] # None
    BY <1>1 DEF Dangling, HomeDashboard
  <2>2. home[u] \in exists \/ home[u] = None
    BY <1>1 DEF Dangling, HomeDashboard
  <2>3. home[u] \in Dashboard \cup {None}
    BY <1>1 DEF IInv, TypeOK
  <2>4. CASE home'[u] = home[u]
    <3>1. home[u] \in exists /\ home[u] \notin exists' /\ home[u] \notin swept'
      BY <1>1, <2>1, <2>2, <2>4
    <3>2. ASSUME NEW h \in Handler, DropCommit(h), home[u] = req[h].i PROVE RacedOn(home'[u])
      <4>1. u \in PointingAt(req[h].i)
        BY <3>2 DEF PointingAt
      <4>2. u \notin req[h].cleared
        BY <2>1, <3>2 DEF DropCommit
      <4>3. req[h] # None /\ req[h].op = "drop" /\ req'[h] = None
        BY <1>1, <3>2, DropCommitIs
      <4>4. req[h].raced
        BY <1>1, <4>1, <4>2, <4>3 DEF IInv, DropSound, At
      <4> QED BY <2>4, <3>2, <4>3, <4>4 DEF RacedOn
    <3>3. ASSUME NEW h \in Handler, DeleteCommit(h), home[u] = req[h].i PROVE FALSE
      <4>1. req[h] \in DeleteRequest
        BY <1>1, <3>3, Fields DEF DeleteCommit, At, IInv
      <4>2. req[h].i \in Document
        BY <4>1 DEF DeleteRequest
      <4> QED BY <2>1, <2>3, <2>4, <3>3, <4>2, ItemAssumption
    <3> QED BY <1>1, <3>1, <3>2, <3>3, ItemsGo
  <2>5. CASE home'[u] # home[u]
    <3>1. PICK h \in Handler : exists' = exists /\ SetHome(h)
      <4>1. ASSUME NEW w \in User, ClearHome(w) PROVE FALSE
        <5>1. home' = [home EXCEPT ![w] = None] /\ home \in [User -> Dashboard \cup {None}]
          BY <1>1, <4>1 DEF ClearHome, IInv, TypeOK
        <5> QED BY <2>1, <2>5, <5>1
      <4>2. ASSUME NEW h \in Handler, DropCommit(h) PROVE FALSE
        <5>1. home' = [w \in User |-> IF w \in req[h].cleared THEN None ELSE home[w]]
          BY <4>2 DEF DropCommit
        <5> QED BY <2>1, <2>5, <5>1
      <4> QED BY <1>1, <2>5, <4>1, <4>2, HomeChanges
    <3>2. req[h] # None /\ req[h].op = "home"
      BY <3>1 DEF SetHome, At
    <3>3. home'[u] = req[h].i /\ req'[h] = None
      BY <1>1, <2>5, <3>1, SetHomeIs
    <3>4. req[h].raced
      BY <1>1, <2>1, <3>1, <3>2, <3>3 DEF IInv, ReqSound
    <3> QED BY <3>2, <3>3, <3>4 DEF RacedOn
  <2> QED BY <2>4, <2>5
<1>2. IInv /\ [Next]_vars =>
        [\A u \in User : Dangling(u)' /\ ~ Dangling(u)
           => home'[u] \in swept' \/ RacedOn(home'[u])]_vars
  BY <1>1
<1> QED BY <1>2, Invariance, PTL DEF Spec, DanglingNeedsRace
=================================================================================
