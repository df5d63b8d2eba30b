------------------------------ MODULE Dashboards ------------------------------
(***************************************************************************)
(* Reports, and the dashboards whose tiles name them (app/reports and      *)
(* app/dashboards).                                                        *)
(*                                                                         *)
(* A dashboard's tiles are one document: a handler reads it with the       *)
(* dashboard, builds the next one and writes it back whole, in a           *)
(* transaction at its end (PostgreSQL, READ COMMITTED, no row locks).      *)
(* Other handlers commit in between.  So adding, removing and saving tiles *)
(* take several steps here.  Creating, moving and deleting write values    *)
(* that do not depend on what they read, and are one step.                 *)
(*                                                                         *)
(* Who may do what is the business of module Workspaces: membership is     *)
(* arbitrary here, and a request that passes its gate is one whose row is  *)
(* there.  A report stands for one visual on it; names, layouts and titles *)
(* are left out.  An id that nothing refers to any more may be used again, *)
(* which keeps the model finite.                                           *)
(***************************************************************************)
EXTENDS Integers, FiniteSets

CONSTANTS
  Workspace, Report, Dashboard,   \* ids
  Tile,         \* tile ids
  Handler,      \* requests on tiles that may be in progress at a time
  MaxTiles,
  None

ASSUME TileAssumption ==
  /\ MaxTiles \in Nat
  /\ IsFiniteSet(Tile)
  /\ IsFiniteSet(Report)
  /\ None \notin Workspace

VARIABLES
  live,         \* the workspaces that exist
  place,        \* the workspace of a report, or None: no such report
  at,           \* the workspace of a dashboard, or None
  doc,          \* the tiles of a dashboard
  req           \* what a handler is doing, or None

vars == <<live, place, at, doc, req>>

Document == SUBSET [id : Tile, report : Report]

(* A request on the tiles of d: what it read, what it will write, which      *)
(* reports it has yet to look up.  The rest is not in the code: the tiles    *)
(* the client wants to add and to drop; has the document changed, and which  *)
(* reports it names have moved, since it was read?                           *)
Request ==
  [d : Dashboard, read : Document, sent : Document, left : SUBSET Report,
   adds : Document, drops : Document, raced : BOOLEAN, moved : SUBSET Report]

TypeOK ==
  /\ live \subseteq Workspace
  /\ place \in [Report -> Workspace \cup {None}]
  /\ at \in [Dashboard -> Workspace \cup {None}]
  /\ doc \in [Dashboard -> Document]
  /\ req \in [Handler -> Request \cup {None}]

Init ==
  /\ live = Workspace
  /\ place = [r \in Report |-> None]
  /\ at = [d \in Dashboard |-> None]
  /\ doc = [d \in Dashboard |-> {}]
  /\ req = [h \in Handler |-> None]

Done(h) == req' = [req EXCEPT ![h] = None]

(* What parse_definition accepts. *)
Valid(tiles) ==
  /\ Cardinality(tiles) <= MaxTiles
  /\ \A s, t \in tiles : s.id = t.id => s = t

ReportsOn(tiles) == {t.report : t \in tiles}

InProgress == {req[h] : h \in {g \in Handler : req[g] # None}}

UnusedReport(r) ==
  /\ place[r] = None
  /\ \A d \in Dashboard : r \notin ReportsOn(doc[d])
  /\ \A q \in InProgress : r \notin ReportsOn(q.read \cup q.sent)

UnusedDashboard(d) == at[d] = None /\ \A q \in InProgress : q.d # d

UnusedTile(i) ==
  \A t \in UNION ({doc[d] : d \in Dashboard} \cup {q.read \cup q.sent : q \in InProgress}) :
    t.id # i

-----------------------------------------------------------------------------
(* Reports and dashboards come and go. *)

CreateReport(r, w) ==
  /\ w \in live
  /\ UnusedReport(r)
  /\ place' = [place EXCEPT ![r] = w]
  /\ UNCHANGED <<live, at, doc, req>>

CreateDashboard(d, w) ==
  /\ w \in live
  /\ UnusedDashboard(d)
  /\ at' = [at EXCEPT ![d] = w]
  /\ UNCHANGED <<live, place, doc, req>>

(* Requests in progress notice nothing of a move; `moved` only records it.   *)
MoveReport(r, w) ==
  /\ w \in live
  /\ place[r] \notin {None, w}
  /\ place' = [place EXCEPT ![r] = w]
  /\ req' = [h \in Handler |->
               IF req[h] # None /\ r \in ReportsOn(req[h].sent)
               THEN [req[h] EXCEPT !.moved = @ \cup {r}]
               ELSE req[h]]
  /\ UNCHANGED <<live, at, doc>>

(* The tiles that name it stay, with nothing behind them. *)
DeleteReport(r) ==
  /\ place[r] # None
  /\ place' = [place EXCEPT ![r] = None]
  /\ UNCHANGED <<live, at, doc, req>>

DeleteDashboard(d) ==
  /\ at[d] # None
  /\ at' = [at EXCEPT ![d] = None]
  /\ doc' = [doc EXCEPT ![d] = {}]
  /\ UNCHANGED <<live, place, req>>

(* Mutant: the dashboards are left to nobody, as they would be without the   *)
(* foreign key.                                                              *)
DeleteWorkspace_ReportsOnly(w) ==
  /\ w \in live
  /\ live' = live \ {w}
  /\ place' = [r \in Report |-> IF place[r] = w THEN None ELSE place[r]]
  /\ UNCHANGED <<at, doc, req>>

(* delete_workspace deletes the reports; the dashboards go by cascade.       *)
DeleteWorkspace(w) ==
  /\ w \in live
  /\ live' = live \ {w}
  /\ place' = [r \in Report |-> IF place[r] = w THEN None ELSE place[r]]
  /\ at' = [d \in Dashboard |-> IF at[d] = w THEN None ELSE at[d]]
  /\ doc' = [d \in Dashboard |-> IF at[d] = w THEN {} ELSE doc[d]]
  /\ UNCHANGED req

CreateWorkspace(w) ==
  /\ w \notin live
  /\ live' = live \cup {w}
  /\ UNCHANGED <<place, at, doc, req>>

-----------------------------------------------------------------------------
(* Requests on the tiles of a dashboard. *)

Ask(h, d, sent, left, adds, drops) ==
  /\ req[h] = None
  /\ at[d] # None
  /\ req' = [req EXCEPT ![h] =
               [d |-> d, read |-> doc[d], sent |-> sent, left |-> left,
                adds |-> adds, drops |-> drops, raced |-> FALSE, moved |-> {}]]
  /\ UNCHANGED <<live, place, at, doc>>

(* update_dashboard: every tile of the document is checked again.            *)
UpdateDashboard(h, d, tiles) ==
  /\ Valid(tiles)
  /\ Ask(h, d, tiles, ReportsOn(tiles), tiles \ doc[d], doc[d] \ tiles)

(* add_tile: a visual that is on the dashboard already changes nothing, and  *)
(* the id of a new tile is a fresh one.                                      *)
AddTile(h, d, t) ==
  /\ t.report \notin ReportsOn(doc[d])
  /\ Cardinality(doc[d]) < MaxTiles
  /\ UnusedTile(t.id)
  /\ Ask(h, d, doc[d] \cup {t}, {t.report}, {t}, {})

(* Mutant: every tile with the visual of that tile goes. *)
RemoveTile_ByReport(h, d, t) ==
  /\ t \in doc[d]
  /\ Ask(h, d, {s \in doc[d] : s.report # t.report}, {}, {}, {t})

(* remove_tile: a tile that is not there is refused. *)
RemoveTile(h, d, t) ==
  /\ t \in doc[d]
  /\ Ask(h, d, {s \in doc[d] : s.id # t.id}, {}, {}, {t})

(* Mutant: a report the user can open is good enough. *)
ReportInWorkspace_Any(h) ==
  /\ req[h] # None
  /\ \E r \in req[h].left :
       IF place[r] # None
       THEN req' = [req EXCEPT ![h].left = @ \ {r}]
       ELSE Done(h)
  /\ UNCHANGED <<live, place, at, doc>>

(* _report_in_workspace, one report at a time: is it there, and in the       *)
(* dashboard's workspace?  The dashboard is the row that was read first, and *)
(* it never moves, so its workspace is `at` for as long as it is there.  If  *)
(* it is gone the request fails at its commit or here, without effect.       *)
ReportInWorkspace(h) ==
  /\ req[h] # None
  /\ \E r \in req[h].left :
       IF place[r] # None /\ place[r] = at[req[h].d]
       THEN req' = [req EXCEPT ![h].left = @ \ {r}]
       ELSE Done(h)
  /\ UNCHANGED <<live, place, at, doc>>

Ready(h) == req[h] # None /\ req[h].left = {}

(* Mutant: the tiles are put into the document that is there now, as rows of *)
(* a table would be.                                                         *)
Commit_Merges(h) ==
  LET q == req[h] IN
  /\ Ready(h)
  /\ at[q.d] # None
  /\ doc' = [doc EXCEPT ![q.d] = (@ \ (q.read \ q.sent)) \cup (q.sent \ q.read)]
  /\ req' = [g \in Handler |->
               IF g = h \/ req[g] = None THEN None
               ELSE [req[g] EXCEPT !.raced = @ \/ (req[g].d = q.d /\ doc'[q.d] # doc[q.d])]]
  /\ UNCHANGED <<live, place, at>>

(* The whole document is written, also by an update_dashboard that changes   *)
(* its layout or title and not its tiles.                                    *)
Commit(h) ==
  LET q == req[h] IN
  /\ Ready(h)
  /\ at[q.d] # None
  /\ doc' = [doc EXCEPT ![q.d] = q.sent]
  /\ req' = [g \in Handler |->
               IF g = h \/ req[g] = None THEN None
               ELSE [req[g] EXCEPT !.raced = @ \/ (req[g].d = q.d /\ doc'[q.d] # doc[q.d])]]
  /\ UNCHANGED <<live, place, at>>

(* When nothing of the document differs from the one that was read, the row  *)
(* is not written; one that is gone cannot be.                               *)
CommitNothing(h) ==
  /\ Ready(h)
  /\ req[h].sent = req[h].read \/ at[req[h].d] = None
  /\ Done(h)
  /\ UNCHANGED <<live, place, at, doc>>

-----------------------------------------------------------------------------
Next ==
  \/ \E w \in Workspace :
       \/ CreateWorkspace(w) \/ DeleteWorkspace(w)
       \/ \E r \in Report : CreateReport(r, w) \/ MoveReport(r, w)
       \/ \E d \in Dashboard : CreateDashboard(d, w)
  \/ \E r \in Report : DeleteReport(r)
  \/ \E d \in Dashboard : DeleteDashboard(d)
  \/ \E h \in Handler :
       \/ \E d \in Dashboard :
            \/ \E tiles \in Document : UpdateDashboard(h, d, tiles)
            \/ \E t \in [id : Tile, report : Report] : AddTile(h, d, t)
            \/ \E t \in doc[d] : RemoveTile(h, d, t)
       \/ ReportInWorkspace(h) \/ Commit(h) \/ CommitNothing(h)

Spec == Init /\ [][Next]_vars
-----------------------------------------------------------------------------
(* Every report and dashboard is in a workspace that exists: nothing is left *)
(* behind by delete_workspace, whatever is created or moved meanwhile.       *)
NoOrphans ==
  /\ \A r \in Report : place[r] \in live \cup {None}
  /\ \A d \in Dashboard : at[d] \in live \cup {None}

(* A stored document is one that parse_definition accepts, although          *)
(* remove_tile does not call it and handlers write over each other.          *)
DocumentsValid == \A d \in Dashboard : Valid(doc[d])

(* resolve: a tile is drawn for the members of its report's workspace, not   *)
(* of its dashboard's; None: the report is no longer available.              *)
DrawnFor(t) == place[t.report]

(* What the tile shows is not for the members of the dashboard's workspace.  *)
Stray(d, t) == DrawnFor(t) \notin {None, at[d]}

(* A tile leaves its dashboard's workspace only because its report does: the *)
(* step is the report's move, or the write of a request during which it      *)
(* moved, or one that puts back a tile that was stray and has been taken off *)
(* meanwhile.  (models.py: "a tile names a report in THIS workspace".)       *)
StrayNeedsMove ==
  [][\A d \in Dashboard : \A t \in doc'[d] :
       Stray(d, t)' /\ ~ (t \in doc[d] /\ Stray(d, t)) =>
         \/ place'[t.report] # place[t.report]
         \/ \E h \in Handler :
              /\ req[h] # None /\ req[h].d = d /\ req'[h] = None
              /\ t.report \in req[h].moved \/ (req[h].raced /\ t \in req[h].read)]_vars

(* A tile appears or disappears only because a request asked for just that,  *)
(* or the dashboard is deleted; the write of a request that overlapped with  *)
(* another write of the same dashboard is the one exception.                 *)
ChangesAreAsked ==
  [][\A d \in Dashboard :
       doc'[d] # doc[d] =>
         \/ at'[d] = None
         \/ \E h \in Handler :
              /\ req[h] # None /\ req[h].d = d /\ req'[h] = None
              /\ \/ req[h].raced
                 \/ doc'[d] \ doc[d] = req[h].adds /\ doc[d] \ doc'[d] = req[h].drops]_vars
=============================================================================
