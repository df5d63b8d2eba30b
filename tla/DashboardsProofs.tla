--------------------------- MODULE DashboardsProofs ---------------------------
(***************************************************************************)
(* Proofs about module Dashboards: its types, NoOrphans, DocumentsValid    *)
(* and the action properties StrayNeedsMove and ChangesAreAsked, for any   *)
(* number of workspaces, reports, dashboards, tiles and handlers.          *)
(***************************************************************************)
EXTENDS Dashboards, FiniteSetTheorems, TLAPS

(* A dashboard that is not there has no tiles. *)
GoneIsEmpty == \A d \in Dashboard : at[d] = None => doc[d] = {}

(* What is known of a request in progress, as long as its dashboard is       *)
(* there: it will write a valid document, which makes just the change that   *)
(* was asked for to the document it read; that is the one stored now unless  *)
(* the request has been raced; and a tile it will write was there, is yet to *)
(* be checked, has a report that moved, or does not leave the workspace.     *)
SoundWith(q, a, p, tiles) ==
  /\ Valid(q.sent)
  /\ q.adds = q.sent \ q.read
  /\ q.drops = q.read \ q.sent
  /\ a[q.d] # None /\ ~ q.raced => q.read = tiles[q.d]
  /\ a[q.d] # None => \A t \in q.sent :
       t \in q.read \/ t.report \in q.left \cup q.moved \/ p[t.report] \in {None, a[q.d]}

Sound(q) == SoundWith(q, at, place, doc)

RequestsSound == \A h \in Handler : req[h] # None => Sound(req[h])

IInv == TypeOK /\ NoOrphans /\ DocumentsValid /\ GoneIsEmpty /\ RequestsSound

-----------------------------------------------------------------------------
(* Documents are finite, and taking tiles out of one keeps it valid. *)

LEMMA DocumentFinite ==
  ASSUME NEW tiles \in Document
  PROVE  IsFiniteSet(tiles)
<1>1. IsFiniteSet(Tile \X Report)
  BY TileAssumption, FS_Product
<1> DEFINE f == [p \in Tile \X Report |-> [id |-> p[1], report |-> p[2]]]
<1>2. f \in Surjection(Tile \X Report, [id : Tile, report : Report])
  <2>1. \A p \in Tile \X Report : f[p] \in [id : Tile, report : Report]
    OBVIOUS
  <2>2. ASSUME NEW t \in [id : Tile, report : Report]
        PROVE  \E p \in Tile \X Report : f[p] = t
    <3>1. <<t.id, t.report>> \in Tile \X Report /\ f[<<t.id, t.report>>] = t
      OBVIOUS
    <3> QED BY <3>1
  <2> QED BY <2>1, <2>2 DEF Surjection
<1>3. IsFiniteSet([id : Tile, report : Report])
  BY <1>1, <1>2, FS_Surjection
<1> QED BY <1>3, FS_Subset DEF Document

LEMMA ValidSubset ==
  ASSUME NEW tiles \in Document, Valid(tiles), NEW some \in SUBSET tiles
  PROVE  Valid(some)
<1>1. IsFiniteSet(tiles)
  BY DocumentFinite
<1>2. IsFiniteSet(some) /\ Cardinality(some) <= Cardinality(tiles)
  BY <1>1, FS_Subset
<1>3. Cardinality(some) \in Nat /\ Cardinality(tiles) \in Nat
  BY <1>1, <1>2, FS_CardinalityType
<1> QED BY <1>2, <1>3, TileAssumption DEF Valid

LEMMA ValidEmpty == Valid({})
BY FS_EmptySet, TileAssumption DEF Valid

(* Adding a tile with a fresh id below the limit. *)
LEMMA ValidAdd ==
  ASSUME NEW tiles \in Document, Valid(tiles), Cardinality(tiles) < MaxTiles,
         NEW t \in [id : Tile, report : Report], \A s \in tiles : s.id # t.id
  PROVE  Valid(tiles \cup {t})
<1>1. IsFiniteSet(tiles) /\ t \notin tiles
  BY DocumentFinite
<1>2. Cardinality(tiles \cup {t}) = Cardinality(tiles) + 1
  BY <1>1, FS_AddElement
<1>3. Cardinality(tiles) \in Nat
  BY <1>1, FS_CardinalityType
<1>4. Cardinality(tiles \cup {t}) <= MaxTiles
  BY <1>2, <1>3, TileAssumption
<1>5. \A r, s \in tiles \cup {t} : r.id = s.id => r = s
  BY DEF Valid
<1> QED BY <1>4, <1>5 DEF Valid

-----------------------------------------------------------------------------
(* What the three ways of asking have in common: from then on the request is *)
(* sound.                                                                    *)
Started(h, d) ==
  \E sent, adds, drops \in Document, left \in SUBSET Report :
    /\ Ask(h, d, sent, left, adds, drops)
    /\ Valid(sent)
    /\ adds = sent \ doc[d] /\ drops = doc[d] \ sent
    /\ \A t \in sent : t \in doc[d] \/ t.report \in left

LEMMA UpdateStarts ==
  ASSUME IInv, NEW h \in Handler, NEW d \in Dashboard, NEW tiles \in Document,
         UpdateDashboard(h, d, tiles)
  PROVE  Started(h, d)
<1> DEFINE left == ReportsOn(tiles)
           adds == tiles \ doc[d]
           drops == doc[d] \ tiles
<1>1. adds \in Document /\ drops \in Document /\ left \in SUBSET Report
  BY DEF IInv, TypeOK, Document, ReportsOn
<1>2. Ask(h, d, tiles, left, adds, drops) /\ Valid(tiles)
  BY DEF UpdateDashboard
<1>3. \A t \in tiles : t.report \in left
  BY DEF ReportsOn
<1> HIDE DEF left
<1> QED BY <1>1, <1>2, <1>3 DEF Started

LEMMA AddStarts ==
  ASSUME IInv, NEW h \in Handler, NEW d \in Dashboard, NEW t \in [id : Tile, report : Report],
         AddTile(h, d, t)
  PROVE  Started(h, d)
<1> DEFINE sent == doc[d] \cup {t}
<1>1. doc[d] \in Document /\ sent \in Document /\ {t} \in Document /\ {} \in Document
  BY DEF IInv, TypeOK, Document
<1>2. \A s \in doc[d] : s.id # t.id
  BY DEF AddTile, UnusedTile
<1>3. Valid(sent)
  BY <1>1, <1>2, ValidAdd DEF AddTile, IInv, DocumentsValid
<1>4. {t} = sent \ doc[d] /\ {} = doc[d] \ sent
  BY <1>2
<1>5. Ask(h, d, sent, {t.report}, {t}, {})
  BY DEF AddTile
<1>6. {t.report} \in SUBSET Report
  OBVIOUS
<1> HIDE DEF sent
<1>7. \A s \in sent : s \in doc[d] \/ s.report \in {t.report}
  BY DEF sent
<1> QED BY <1>1, <1>3, <1>4, <1>5, <1>6, <1>7 DEF Started

LEMMA RemoveStarts ==
  ASSUME IInv, NEW h \in Handler, NEW d \in Dashboard, NEW t \in doc[d], RemoveTile(h, d, t)
  PROVE  Started(h, d)
<1> DEFINE sent == {s \in doc[d] : s.id # t.id}
<1>1. doc[d] \in Document /\ sent \in Document /\ {t} \in Document /\ {} \in Document
  BY DEF IInv, TypeOK, Document
<1>2. Valid(doc[d])
  BY DEF IInv, DocumentsValid
<1>3. Valid(sent)
  BY <1>1, <1>2, ValidSubset
<1>4. {} = sent \ doc[d] /\ {t} = doc[d] \ sent
  BY <1>2 DEF Valid
<1>5. Ask(h, d, sent, {}, {}, {t})
  BY DEF RemoveTile
<1>6. \A s \in sent : s \in doc[d]
  OBVIOUS
<1> HIDE DEF sent
<1> QED BY <1>1, <1>3, <1>4, <1>5, <1>6 DEF Started

(* The steps, for the proofs by cases. *)
Comes ==
  \/ \E w \in Workspace : CreateWorkspace(w)
  \/ \E r \in Report, w \in Workspace : CreateReport(r, w)
  \/ \E d \in Dashboard, w \in Workspace : CreateDashboard(d, w)

Goes ==
  \/ \E w \in Workspace : DeleteWorkspace(w)
  \/ \E r \in Report : DeleteReport(r)
  \/ \E d \in Dashboard : DeleteDashboard(d)

LEMMA NextCases ==
  ASSUME IInv, Next
  PROVE  \/ Comes \/ Goes
         \/ \E r \in Report, w \in Workspace : MoveReport(r, w)
         \/ \E h \in Handler, d \in Dashboard : Started(h, d)
         \/ \E h \in Handler : ReportInWorkspace(h)
         \/ \E h \in Handler : Commit(h)
         \/ \E h \in Handler : CommitNothing(h)
BY UpdateStarts, AddStarts, RemoveStarts DEF Next, Comes, Goes

LEMMA RequestType ==
  ASSUME TypeOK, NEW h \in Handler, req[h] # None
  PROVE  req[h] \in Request
BY DEF TypeOK

-----------------------------------------------------------------------------
LEMMA InitInv == Init => IInv
<1> SUFFICES ASSUME Init PROVE IInv
  OBVIOUS
<1>1. TypeOK
  BY DEF Init, TypeOK, Document
<1>2. NoOrphans /\ GoneIsEmpty /\ RequestsSound
  BY DEF Init, NoOrphans, GoneIsEmpty, RequestsSound
<1>3. DocumentsValid
  BY ValidEmpty DEF Init, DocumentsValid
<1> QED BY <1>1, <1>2, <1>3 DEF IInv

LEMMA ComesStep == IInv /\ Comes => IInv'
<1> SUFFICES ASSUME IInv, Comes PROVE IInv'
  OBVIOUS
<1> USE DEF IInv
<1>1. CASE \E w \in Workspace : CreateWorkspace(w)
  <2>1. PICK w \in Workspace : CreateWorkspace(w)
    BY <1>1
  <2>2. TypeOK' /\ NoOrphans' /\ DocumentsValid' /\ GoneIsEmpty'
    BY <2>1 DEF CreateWorkspace, TypeOK, NoOrphans, DocumentsValid, Valid, GoneIsEmpty
  <2>3. RequestsSound'
    BY <2>1 DEF CreateWorkspace, RequestsSound, Sound, SoundWith, Valid
  <2> QED BY <2>2, <2>3
<1>2. CASE \E r \in Report, w \in Workspace : CreateReport(r, w)
  <2>1. PICK r \in Report, w \in Workspace : CreateReport(r, w)
    BY <1>2
  <2>2. TypeOK' /\ NoOrphans' /\ DocumentsValid' /\ GoneIsEmpty'
    BY <2>1 DEF CreateReport, TypeOK, NoOrphans, DocumentsValid, Valid, GoneIsEmpty
  <2>3. ASSUME NEW h \in Handler, req[h] # None
        PROVE  Sound(req[h])'
    <3>1. \A t \in req[h].sent : t.report # r
      BY <2>1, <2>3 DEF CreateReport, UnusedReport, InProgress, ReportsOn
    <3>2. \A t \in req[h].sent : place'[t.report] = place[t.report]
      BY <2>1, <3>1 DEF CreateReport, TypeOK
    <3> QED BY <2>1, <2>3, <3>2 DEF CreateReport, RequestsSound, Sound, SoundWith, Valid
  <2> QED BY <2>1, <2>2, <2>3 DEF RequestsSound, CreateReport
<1>3. CASE \E d \in Dashboard, w \in Workspace : CreateDashboard(d, w)
  <2>1. PICK d \in Dashboard, w \in Workspace : CreateDashboard(d, w)
    BY <1>3
  <2>2. TypeOK' /\ NoOrphans' /\ DocumentsValid' /\ GoneIsEmpty'
    BY <2>1, TileAssumption DEF CreateDashboard, TypeOK, NoOrphans, DocumentsValid, Valid, GoneIsEmpty
  <2>3. ASSUME NEW h \in Handler, req[h] # None
        PROVE  Sound(req[h])'
    <3>1. req[h].d # d
      BY <2>1, <2>3 DEF CreateDashboard, UnusedDashboard, InProgress
    <3>2. at'[req[h].d] = at[req[h].d]
      BY <2>1, <3>1 DEF CreateDashboard, TypeOK
    <3> QED BY <2>1, <2>3, <3>2 DEF CreateDashboard, RequestsSound, Sound, SoundWith, Valid
  <2> QED BY <2>1, <2>2, <2>3 DEF RequestsSound, CreateDashboard
<1> QED BY <1>1, <1>2, <1>3 DEF Comes

(* What goes takes no workspace from what stays. *)
LEMMA GoesStep == IInv /\ Goes => IInv'
<1> SUFFICES ASSUME IInv, Goes PROVE IInv'
  OBVIOUS
<1> USE DEF IInv
<1>1. /\ live' \subseteq live /\ req' = req
      /\ place' \in [Report -> Workspace \cup {None}] /\ at' \in [Dashboard -> Workspace \cup {None}]
      /\ \A r \in Report : place'[r] \in {place[r], None} /\ place'[r] \in live' \cup {None}
      /\ \A d \in Dashboard : at'[d] \in live' \cup {None}
      /\ \A d \in Dashboard : \/ at'[d] = at[d] /\ doc'[d] = doc[d]
                              \/ at'[d] = None /\ doc'[d] = {}
      /\ doc' \in [Dashboard -> Document]
  <2>1. CASE \E w \in Workspace : DeleteWorkspace(w)
    BY <2>1 DEF DeleteWorkspace, TypeOK, NoOrphans, Document
  <2>2. CASE \E r \in Report : DeleteReport(r)
    BY <2>2 DEF DeleteReport, TypeOK, NoOrphans, Document
  <2>3. CASE \E d \in Dashboard : DeleteDashboard(d)
    BY <2>3 DEF DeleteDashboard, TypeOK, NoOrphans, Document
  <2> QED BY <2>1, <2>2, <2>3 DEF Goes
<1>2. TypeOK' /\ NoOrphans' /\ GoneIsEmpty'
  BY <1>1 DEF TypeOK, NoOrphans, GoneIsEmpty
<1>3. DocumentsValid'
  BY <1>1, ValidEmpty DEF DocumentsValid, Valid
<1>4. ASSUME NEW h \in Handler, req[h] # None
      PROVE  Sound(req[h])'
  <2>1. req[h] \in Request /\ Sound(req[h])
    BY <1>4, RequestType DEF RequestsSound
  <2>2. \A t \in req[h].sent : place'[t.report] \in {place[t.report], None}
    BY <1>1, <2>1 DEF Request, Document
  <2>3. at'[req[h].d] # None =>
          at'[req[h].d] = at[req[h].d] /\ doc'[req[h].d] = doc[req[h].d]
    BY <1>1, <2>1 DEF Request
  <2> QED BY <1>1, <2>1, <2>2, <2>3 DEF Sound, SoundWith, Valid
<1>5. RequestsSound'
  BY <1>1, <1>4 DEF RequestsSound
<1> QED BY <1>2, <1>3, <1>5

LEMMA MoveStep ==
  ASSUME IInv, NEW r \in Report, NEW w \in Workspace, MoveReport(r, w)
  PROVE  IInv'
<1> USE DEF IInv
<1>1. ASSUME NEW h \in Handler, req[h] # None
      PROVE  req'[h] \in Request /\ SoundWith(req'[h], at', place', doc')
  <2>1. req[h] \in Request /\ Sound(req[h])
    BY <1>1, RequestType DEF RequestsSound
  <2>2. req'[h] = IF r \in ReportsOn(req[h].sent)
                  THEN [req[h] EXCEPT !.moved = req[h].moved \cup {r}] ELSE req[h]
    BY <1>1 DEF MoveReport
  <2>3. req'[h] \in Request
    BY <2>1, <2>2 DEF Request
  <2>4. req'[h] = [req[h] EXCEPT !.moved = req'[h].moved] /\ req[h].moved \subseteq req'[h].moved
    BY <2>1, <2>2 DEF Request
  <2>5. ASSUME NEW t \in req[h].sent, at[req[h].d] # None
        PROVE  \/ t \in req[h].read \/ t.report \in req[h].left \cup req'[h].moved
               \/ place'[t.report] \in {None, at[req[h].d]}
    <3>1. t.report \in Report
      BY <2>1 DEF Request, Document
    <3>2. CASE t.report = r
      BY <2>1, <2>2, <3>2 DEF ReportsOn, Request
    <3>3. CASE t.report # r
      <4>1. place'[t.report] = place[t.report]
        BY <3>1, <3>3 DEF MoveReport, TypeOK
      <4> QED BY <2>1, <2>4, <2>5, <4>1 DEF Sound, SoundWith
    <3> QED BY <3>2, <3>3
  <2>6. SoundWith(req'[h], at', place', doc')
    BY <2>1, <2>4, <2>5 DEF Sound, SoundWith, MoveReport, Request, Valid
  <2> QED BY <2>3, <2>6
<1>2. \A h \in Handler : req[h] = None => req'[h] = None
  BY DEF MoveReport
<1>3. TypeOK'
  BY <1>1, <1>2 DEF MoveReport, TypeOK
<1>4. RequestsSound'
  BY <1>1, <1>2 DEF RequestsSound, Sound
<1>5. NoOrphans' /\ DocumentsValid' /\ GoneIsEmpty'
  BY DEF MoveReport, TypeOK, NoOrphans, DocumentsValid, Valid, GoneIsEmpty
<1> QED BY <1>3, <1>4, <1>5

LEMMA StartStep ==
  ASSUME IInv, NEW h \in Handler, NEW d \in Dashboard, Started(h, d)
  PROVE  IInv'
<1> USE DEF IInv
<1>1. PICK sent, adds, drops \in Document, left \in SUBSET Report :
        /\ Ask(h, d, sent, left, adds, drops)
        /\ Valid(sent)
        /\ adds = sent \ doc[d] /\ drops = doc[d] \ sent
        /\ \A t \in sent : t \in doc[d] \/ t.report \in left
  BY DEF Started
<1> DEFINE q == [d |-> d, read |-> doc[d], sent |-> sent, left |-> left,
                 adds |-> adds, drops |-> drops, raced |-> FALSE, moved |-> {}]
<1>2. req' = [req EXCEPT ![h] = q] /\ UNCHANGED <<live, place, at, doc>>
  BY <1>1 DEF Ask
<1>3. q \in Request
  BY DEF TypeOK, Request
<1>4. Sound(q)
  BY <1>1 DEF Sound, SoundWith
<1> HIDE DEF q
<1>5. TypeOK'
  BY <1>2, <1>3 DEF TypeOK
<1>6. RequestsSound'
  BY <1>2, <1>4 DEF RequestsSound, Sound, SoundWith, Valid, TypeOK
<1>7. NoOrphans' /\ DocumentsValid' /\ GoneIsEmpty'
  BY <1>2 DEF NoOrphans, DocumentsValid, Valid, GoneIsEmpty
<1> QED BY <1>5, <1>6, <1>7

LEMMA CheckStep ==
  ASSUME IInv, NEW h \in Handler, ReportInWorkspace(h)
  PROVE  IInv'
<1> USE DEF IInv
<1>1. req[h] \in Request /\ Sound(req[h])
  BY RequestType DEF ReportInWorkspace, RequestsSound
<1>2. PICK q \in Request \cup {None} : req' = [req EXCEPT ![h] = q] /\ (q # None => Sound(q))
  <2>1. PICK r \in req[h].left :
          IF place[r] # None /\ place[r] = at[req[h].d]
          THEN req' = [req EXCEPT ![h].left = req[h].left \ {r}]
          ELSE Done(h)
    BY DEF ReportInWorkspace
  <2>2. CASE place[r] # None /\ place[r] = at[req[h].d]
    <3> DEFINE q == [req[h] EXCEPT !.left = req[h].left \ {r}]
    <3>1. req' = [req EXCEPT ![h] = q]
      BY <2>1, <2>2
    <3>2. q \in Request
      BY <1>1 DEF Request
    <3>3. Sound(q)
      BY <1>1, <2>2 DEF Sound, SoundWith, Request
    <3> QED BY <3>1, <3>2, <3>3
  <2>3. CASE ~ (place[r] # None /\ place[r] = at[req[h].d])
    <3>1. req' = [req EXCEPT ![h] = None]
      BY <2>1, <2>3 DEF Done
    <3> QED BY <3>1
  <2> QED BY <2>2, <2>3
<1>3. UNCHANGED <<live, place, at, doc>>
  BY DEF ReportInWorkspace
<1>4. TypeOK'
  BY <1>2, <1>3 DEF TypeOK
<1>5. RequestsSound'
  BY <1>2, <1>3 DEF RequestsSound, Sound, SoundWith, Valid, TypeOK
<1>6. NoOrphans' /\ DocumentsValid' /\ GoneIsEmpty'
  BY <1>3 DEF NoOrphans, DocumentsValid, Valid, GoneIsEmpty
<1> QED BY <1>4, <1>5, <1>6

LEMMA CommitStep ==
  ASSUME IInv, NEW h \in Handler, Commit(h)
  PROVE  IInv'
<1> USE DEF IInv
<1>1. req[h] \in Request /\ Sound(req[h])
  BY RequestType DEF Commit, Ready, RequestsSound
<1>2. /\ UNCHANGED <<live, place, at>> /\ at[req[h].d] # None
      /\ doc' = [doc EXCEPT ![req[h].d] = req[h].sent]
  BY DEF Commit
<1>3. ASSUME NEW g \in Handler, req'[g] # None
      PROVE  req'[g] \in Request /\ SoundWith(req'[g], at', place', doc')
  <2>1. g # h /\ req[g] # None
        /\ req'[g] = [req[g] EXCEPT !.raced =
                         @ \/ (req[g].d = req[h].d /\ doc'[req[h].d] # doc[req[h].d])]
    BY <1>3 DEF Commit
  <2>2. req[g] \in Request /\ Sound(req[g])
    BY <2>1, RequestType DEF RequestsSound
  <2>3. req'[g] \in Request
    BY <2>1, <2>2 DEF Request
  <2>4. /\ req'[g].d = req[g].d /\ req'[g].read = req[g].read /\ req'[g].sent = req[g].sent
        /\ req'[g].left = req[g].left /\ req'[g].moved = req[g].moved
        /\ req'[g].adds = req[g].adds /\ req'[g].drops = req[g].drops
        /\ req'[g].raced = (req[g].raced \/ (req[g].d = req[h].d /\ doc'[req[h].d] # doc[req[h].d]))
    BY <2>1, <2>2 DEF Request
  <2>5. ~ req'[g].raced => doc'[req[g].d] = doc[req[g].d]
    BY <1>1, <1>2, <2>2, <2>4 DEF Request, TypeOK
  <2>6. SoundWith(req'[g], at', place', doc')
    BY <1>2, <2>2, <2>4, <2>5 DEF Sound, SoundWith, Valid
  <2> QED BY <2>3, <2>6
<1>4. TypeOK'
  <2>1. req' \in [Handler -> Request \cup {None}]
    BY <1>3 DEF Commit
  <2>2. doc' \in [Dashboard -> Document]
    BY <1>1, <1>2 DEF TypeOK, Request
  <2> QED BY <1>2, <2>1, <2>2 DEF TypeOK
<1>5. RequestsSound'
  BY <1>3 DEF RequestsSound, Sound
<1>6. NoOrphans' /\ DocumentsValid' /\ GoneIsEmpty'
  BY <1>1, <1>2 DEF NoOrphans, DocumentsValid, Valid, GoneIsEmpty, Sound, SoundWith, TypeOK
<1> QED BY <1>4, <1>5, <1>6

LEMMA CommitNothingStep ==
  ASSUME IInv, NEW h \in Handler, CommitNothing(h)
  PROVE  IInv'
<1> USE DEF IInv
<1>1. UNCHANGED <<live, place, at, doc>> /\ req' = [req EXCEPT ![h] = None]
  BY DEF CommitNothing, Done
<1>2. TypeOK'
  BY <1>1 DEF TypeOK
<1>3. RequestsSound'
  BY <1>1 DEF RequestsSound, Sound, SoundWith, Valid, TypeOK
<1>4. NoOrphans' /\ DocumentsValid' /\ GoneIsEmpty'
  BY <1>1 DEF NoOrphans, DocumentsValid, Valid, GoneIsEmpty
<1> QED BY <1>2, <1>3, <1>4

LEMMA InvStep == IInv /\ [Next]_vars => IInv'
<1> SUFFICES ASSUME IInv, [Next]_vars PROVE IInv'
  OBVIOUS
<1>1. CASE UNCHANGED vars
  BY <1>1 DEF vars, IInv, TypeOK, NoOrphans, DocumentsValid, GoneIsEmpty, RequestsSound, Sound, SoundWith, Valid
<1>2. CASE Next
  BY <1>2, NextCases, ComesStep, GoesStep, MoveStep, StartStep, CheckStep, CommitStep,
     CommitNothingStep
<1> QED BY <1>1, <1>2

(* The inductive invariant holds in every state. *)
THEOREM InvCorrect == Spec => []IInv
<1> QED BY InitInv, InvStep, PTL DEF Spec

-----------------------------------------------------------------------------
(* The state keeps its types. *)
THEOREM TypeCorrect == Spec => []TypeOK
<1>1. IInv => TypeOK
  BY DEF IInv
<1> QED BY <1>1, InvCorrect, PTL

(* No report and no dashboard is left in a workspace that is gone, whatever  *)
(* is created or moved while it is deleted.                                  *)
THEOREM NoOrphansCorrect == Spec => []NoOrphans
<1>1. IInv => NoOrphans
  BY DEF IInv
<1> QED BY <1>1, InvCorrect, PTL

(* However handlers write over each other, a stored document is within its   *)
(* limit and its tile ids are unique.                                        *)
THEOREM DocumentsCorrect == Spec => []DocumentsValid
<1>1. IInv => DocumentsValid
  BY DEF IInv
<1> QED BY <1>1, InvCorrect, PTL

-----------------------------------------------------------------------------
(* Only a commit writes tiles; everything else leaves a document alone or    *)
(* deletes it with its dashboard.                                            *)
LEMMA DocumentStep ==
  ASSUME IInv, [Next]_vars, NEW d \in Dashboard, doc'[d] # doc[d]
  PROVE  \/ at'[d] = None /\ doc'[d] = {}
         \/ \E h \in Handler : Commit(h) /\ req[h].d = d
<1>1. CASE UNCHANGED vars
  BY <1>1 DEF vars
<1>2. CASE Comes
  BY <1>2 DEF Comes, CreateWorkspace, CreateReport, CreateDashboard
<1>3. CASE Goes
  <2>1. CASE \E w \in Workspace : DeleteWorkspace(w)
    BY <2>1 DEF DeleteWorkspace, IInv, TypeOK
  <2>2. CASE \E r \in Report : DeleteReport(r)
    BY <2>2 DEF DeleteReport
  <2>3. CASE \E x \in Dashboard : DeleteDashboard(x)
    BY <2>3 DEF DeleteDashboard, IInv, TypeOK
  <2> QED BY <1>3, <2>1, <2>2, <2>3 DEF Goes
<1>4. CASE \E r \in Report, w \in Workspace : MoveReport(r, w)
  BY <1>4 DEF MoveReport
<1>5. CASE \E h \in Handler, x \in Dashboard : Started(h, x)
  BY <1>5 DEF Started, Ask
<1>6. CASE \E h \in Handler : ReportInWorkspace(h)
  BY <1>6 DEF ReportInWorkspace
<1>7. CASE \E h \in Handler : Commit(h)
  BY <1>7 DEF Commit, IInv, TypeOK
<1>8. CASE \E h \in Handler : CommitNothing(h)
  BY <1>8 DEF CommitNothing
<1> QED BY <1>1, <1>2, <1>3, <1>4, <1>5, <1>6, <1>7, <1>8, NextCases

(* What is known when a request writes its document. *)
LEMMA CommitFacts ==
  ASSUME IInv, NEW h \in Handler, Commit(h)
  PROVE  /\ req[h] \in Request /\ Sound(req[h]) /\ req'[h] = None
         /\ UNCHANGED <<place, at>> /\ at[req[h].d] # None /\ req[h].left = {}
         /\ doc'[req[h].d] = req[h].sent
<1>1. req[h] \in Request /\ Sound(req[h])
  BY RequestType DEF Commit, Ready, RequestsSound, IInv
<1>2. req[h].d \in Dashboard
  BY <1>1 DEF Request
<1> QED BY <1>1, <1>2 DEF Commit, Ready, IInv, TypeOK

LEMMA StrayStep ==
  ASSUME IInv, [Next]_vars, NEW d \in Dashboard, NEW t \in doc'[d],
         Stray(d, t)', ~ (t \in doc[d] /\ Stray(d, t)), place'[t.report] = place[t.report]
  PROVE  \E h \in Handler :
           /\ req[h] # None /\ req[h].d = d /\ req'[h] = None
           /\ t.report \in req[h].moved \/ (req[h].raced /\ t \in req[h].read)
<1>1. CASE doc'[d] = doc[d]
  <2>1. at'[d] # at[d]
    BY <1>1 DEF Stray, DrawnFor
  <2>2. at'[d] = None \/ at[d] = None
    <3>1. CASE UNCHANGED vars
      BY <2>1, <3>1 DEF vars
    <3>2. CASE Comes
      <4>1. PICK x \in Dashboard, w \in Workspace : CreateDashboard(x, w)
        BY <3>2, <2>1 DEF Comes, CreateWorkspace, CreateReport
      <4>2. at[x] = None /\ at' = [at EXCEPT ![x] = w]
        BY <4>1 DEF CreateDashboard, UnusedDashboard
      <4>3. x = d
        BY <2>1, <4>2 DEF IInv, TypeOK
      <4> QED BY <4>2, <4>3
    <3>3. CASE Goes
      BY <3>3, <2>1 DEF Goes, DeleteWorkspace, DeleteReport, DeleteDashboard, IInv, TypeOK
    <3> QED BY <2>1, <3>1, <3>2, <3>3, NextCases DEF MoveReport, Started, Ask, ReportInWorkspace, Commit,
              CommitNothing
  <2>3. doc[d] = {}
    BY <1>1, <2>2, InvStep DEF IInv, GoneIsEmpty
  <2> QED BY <1>1, <2>3
<1>2. CASE doc'[d] # doc[d]
  <2>1. PICK h \in Handler : Commit(h) /\ req[h].d = d
    BY <1>2, DocumentStep
  <2>2. /\ Sound(req[h]) /\ req'[h] = None /\ at'[d] = at[d] /\ at[d] # None
        /\ req[h].left = {} /\ doc'[d] = req[h].sent /\ req[h].raced \in BOOLEAN
    BY <2>1, CommitFacts DEF Request
  <2>3. t \in req[h].read \/ t.report \in req[h].moved \/ place[t.report] \in {None, at[d]}
    BY <2>1, <2>2 DEF Sound, SoundWith
  <2>4. place[t.report] \notin {None, at[d]}
    BY <2>2 DEF Stray, DrawnFor
  <2>5. ~ req[h].raced => t \notin req[h].read
    BY <2>1, <2>2, <2>4 DEF Sound, SoundWith, Stray, DrawnFor
  <2> QED BY <2>1, <2>2, <2>3, <2>4, <2>5 DEF Commit, Ready
<1> QED BY <1>1, <1>2

(* A tile strays from its dashboard's workspace only by its report's move.   *)
THEOREM StrayCorrect == Spec => StrayNeedsMove
<1>1. IInv /\ [Next]_vars =>
        [\A d \in Dashboard : \A t \in doc'[d] :
           Stray(d, t)' /\ ~ (t \in doc[d] /\ Stray(d, t)) =>
             \/ place'[t.report] # place[t.report]
             \/ \E h \in Handler :
                  /\ req[h] # None /\ req[h].d = d /\ req'[h] = None
                  /\ t.report \in req[h].moved \/ (req[h].raced /\ t \in req[h].read)]_vars
  BY StrayStep
<1> QED BY <1>1, InvCorrect, PTL DEF Spec, StrayNeedsMove

(* Tiles change only as a request asked, unless requests overlapped.         *)
THEOREM ChangesCorrect == Spec => ChangesAreAsked
<1>1. IInv /\ [Next]_vars =>
        [\A d \in Dashboard :
           doc'[d] # doc[d] =>
             \/ at'[d] = None
             \/ \E h \in Handler :
                  /\ req[h] # None /\ req[h].d = d /\ req'[h] = None
                  /\ \/ req[h].raced
                     \/ doc'[d] \ doc[d] = req[h].adds /\ doc[d] \ doc'[d] = req[h].drops]_vars
  <2> SUFFICES ASSUME IInv, [Next]_vars, NEW d \in Dashboard, doc'[d] # doc[d], at'[d] # None
               PROVE  \E h \in Handler :
                  /\ req[h] # None /\ req[h].d = d /\ req'[h] = None
                  /\ \/ req[h].raced
                     \/ doc'[d] \ doc[d] = req[h].adds /\ doc[d] \ doc'[d] = req[h].drops
    OBVIOUS
  <2>1. PICK h \in Handler : Commit(h) /\ req[h].d = d
    BY DocumentStep
  <2>2. /\ req[h] # None /\ Sound(req[h]) /\ req'[h] = None /\ at[d] # None
        /\ doc'[d] = req[h].sent
    BY <2>1, CommitFacts DEF Commit, Ready
  <2> QED BY <2>1, <2>2 DEF Sound, SoundWith
<1> QED BY <1>1, InvCorrect, PTL DEF Spec, ChangesAreAsked
=============================================================================
