-------------------------------- MODULE Library --------------------------------
(***************************************************************************)
(* What users have pinned and opened (app/library/state.py), and the       *)
(* dashboard each of them opens on Home (app/dashboards/service.py).       *)
(*                                                                         *)
(* Neither the rows of user_item_state nor the home pointer is a foreign   *)
(* key, so keeping them in step with the items they name is the code's own *)
(* task: forget_item and delete_dashboard do it.  Handlers read first and  *)
(* write in one transaction at the end; others commit in between.          *)
(*                                                                         *)
(* An item is a report, a saved explore or a dashboard.  Which workspace   *)
(* it is in, and who is a member of it, does not matter here: a request    *)
(* that passes its gate is one whose item is there, and the deletion of a  *)
(* workspace takes any set of items.  An id that nothing refers to any     *)
(* more may be used again, which keeps the model finite.                   *)
(***************************************************************************)
EXTENDS FiniteSets

CONSTANTS
  User,
  Document,     \* ids of reports and saved explores
  Dashboard,    \* ids of dashboards
  Handler,      \* requests that may be in progress at a time
  None

Item == Document \cup Dashboard

(* `seen`: last_viewed_at is set. *)
Row == [favorite : BOOLEAN, seen : BOOLEAN]

ASSUME ItemAssumption ==
  /\ None \notin Item \cup Handler \cup Row
  /\ Document \cap Dashboard = {}

VARIABLES
  exists,       \* the items that are there
  swept,        \* those that went with their workspace (not in the code)
  row,          \* a user's row for an item, or None
  home,         \* the dashboard a user has chosen, or None
  req           \* what a handler is doing, or None

vars == <<exists, swept, row, home, req>>

(* A request of u on the item i, and what it has read: its own row, or the   *)
(* home pointer.  `raced`: since then the item, or only its rows, have been  *)
(* deleted (or, between the two, a row or a pointer written).  It is not in  *)
(* the code.                                                                 *)
RowRequest ==
  [op : {"pin", "unpin", "view"}, u : User, i : Item, was : Row \cup {None}, raced : BOOLEAN]

HomeRequest ==
  [op : {"home"}, u : User, i : Dashboard, was : Dashboard \cup {None}, raced : BOOLEAN]

DeleteRequest == [op : {"forget", "delete"}, i : Document, raced : BOOLEAN]

(* `cleared`: the users whose pointers the UPDATE before the deletion of a   *)
(* dashboard clears.  Their rows stay locked until the commit.               *)
DropRequest ==
  [op : {"clear", "drop"}, i : Dashboard, cleared : SUBSET User, raced : BOOLEAN]

TypeOK ==
  /\ exists \subseteq Item
  /\ swept \subseteq Item \ exists
  /\ row \in [User -> [Item -> Row \cup {None}]]
  /\ home \in [User -> Dashboard \cup {None}]
  /\ req \in [Handler -> RowRequest \cup HomeRequest \cup DeleteRequest \cup DropRequest
                          \cup {None}]

Init ==
  /\ exists = {}
  /\ swept = {}
  /\ row = [u \in User |-> [i \in Item |-> None]]
  /\ home = [u \in User |-> None]
  /\ req = [h \in Handler |-> None]

At(h, op) == req[h] # None /\ req[h].op = op

Done(h) == req' = [req EXCEPT ![h] = None]

Unused(i) ==
  /\ i \notin exists
  /\ \A u \in User : row[u][i] = None /\ home[u] # i
  /\ \A h \in Handler : req[h] # None => req[h].i # i

(* Handler h, if any, goes on to q; the requests of others on the items S,   *)
(* if they are one of ops, are raced.                                        *)
Racing(h, q, S, ops) ==
  req' = [g \in Handler |->
            IF g = h THEN q
            ELSE IF req[g] # None /\ req[g].i \in S /\ req[g].op \in ops
            THEN [req[g] EXCEPT !.raced = TRUE]
            ELSE req[g]]

Ops == {"pin", "unpin", "view", "home", "forget", "delete", "clear", "drop"}

-----------------------------------------------------------------------------
(* Items come and go. *)

CreateItem(i) ==
  /\ Unused(i)
  /\ exists' = exists \cup {i}
  /\ swept' = swept \ {i}
  /\ UNCHANGED <<row, home, req>>

(* delete_workspace: its reports, and by cascade its explores and            *)
(* dashboards.  Rows and pointers stay.                                      *)
DeleteWorkspace(S) ==
  /\ S # {} /\ S \subseteq exists
  /\ exists' = exists \ S
  /\ swept' = swept \cup S
  /\ Racing(None, None, S, Ops)
  /\ UNCHANGED <<row, home>>

(* delete_dashboard: the users' pointers to it are cleared with it, the rows *)
(* for it are not.  The UPDATE and the DELETE are one transaction.           *)
DeleteDashboard(h, d) ==
  /\ req[h] = None
  /\ d \in exists
  /\ req' = [req EXCEPT ![h] = [op |-> "clear", i |-> d, cleared |-> {}, raced |-> FALSE]]
  /\ UNCHANGED <<exists, swept, row, home>>

(* The row of u is locked by an UPDATE that is not committed.                *)
Locked(u) == \E g \in Handler : At(g, "drop") /\ u \in req[g].cleared

PointingAt(d) == {u \in User : home[u] = d}

(* Mutant: the pointers are left to dangle. *)
ClearPointers_Nobody(h) ==
  /\ At(h, "clear")
  /\ req' = [req EXCEPT ![h].op = "drop"]
  /\ UNCHANGED <<exists, swept, row, home>>

(* The UPDATE of the users; it waits for the locks of another.  Pointers     *)
(* that are written from now on are not in it.                               *)
ClearPointers(h) ==
  /\ At(h, "clear")
  /\ \A u \in PointingAt(req[h].i) : ~ Locked(u)
  /\ req' = [req EXCEPT ![h].op = "drop", ![h].cleared = PointingAt(req[h].i)]
  /\ UNCHANGED <<exists, swept, row, home>>

(* The DELETE and the commit.  A dashboard that is gone already is no error. *)
DropCommit(h) ==
  /\ At(h, "drop")
  /\ exists' = exists \ {req[h].i}
  /\ home' = [u \in User |-> IF u \in req[h].cleared THEN None ELSE home[u]]
  /\ Racing(h, None, {req[h].i}, Ops)
  /\ UNCHANGED <<swept, row>>

(* Mutant: the item is deleted without forgetting it. *)
Delete_NoForget(h, i) ==
  /\ req[h] = None
  /\ i \in exists
  /\ req' = [req EXCEPT ![h] = [op |-> "delete", i |-> i, raced |-> FALSE]]
  /\ UNCHANGED <<exists, swept, row, home>>

(* delete_report, delete_explore: the rows go in a transaction of their own. *)
Delete(h, i) ==
  /\ req[h] = None
  /\ i \in exists
  /\ req' = [req EXCEPT ![h] = [op |-> "forget", i |-> i, raced |-> FALSE]]
  /\ UNCHANGED <<exists, swept, row, home>>

(* forget_item *)
Forget(h) ==
  /\ At(h, "forget")
  /\ row' = [u \in User |-> [row[u] EXCEPT ![req[h].i] = None]]
  /\ Racing(h, [req[h] EXCEPT !.op = "delete", !.raced = FALSE], {req[h].i}, Ops)
  /\ UNCHANGED <<exists, swept, home>>

(* The second commit.  An item that is gone already is no error. *)
DeleteCommit(h) ==
  /\ At(h, "delete")
  /\ exists' = exists \ {req[h].i}
  /\ Racing(h, None, {req[h].i}, Ops)
  /\ UNCHANGED <<swept, row, home>>

(* The last commit fails: a report or explore stays, forgotten, and of a     *)
(* dashboard's deletion nothing is left.                                     *)
DeleteFails(h) ==
  /\ At(h, "delete") \/ At(h, "drop")
  /\ Done(h)
  /\ UNCHANGED <<exists, swept, row, home>>

-----------------------------------------------------------------------------
(* A request on an item that is not there is refused, whatever it is. *)
NotFound == exists # Item /\ UNCHANGED vars

(* set_favorite and record_view *)

Ask(h, u, i, op) ==
  /\ req[h] = None
  /\ i \in exists
  /\ req' = [req EXCEPT ![h] =
               [op |-> op, u |-> u, i |-> i, was |-> row[u][i], raced |-> FALSE]]
  /\ UNCHANGED <<exists, swept, row, home>>

OnRow(h) == req[h] # None /\ req[h].op \in {"pin", "unpin", "view"}

(* What the request makes of a row: it sets its one column. *)
Updated(q, r) ==
  IF q.op = "view" THEN [r EXCEPT !.seen = TRUE]
  ELSE [r EXCEPT !.favorite = q.op = "pin"]

New == [favorite |-> FALSE, seen |-> FALSE]

(* A favourite that has the value already is not written. *)
Unchanged(q) == q.was # None /\ q.op # "view" /\ q.was.favorite = (q.op = "pin")

(* The row was there and was deleted, or was not there and is by now (the    *)
(* unique constraint): an internal error.                                    *)
Collides(q) == (q.was = None) # (row[q.u][q.i] = None)

(* Mutant: the row is written as a whole, as it was read. *)
WriteRow_Whole(h) ==
  LET q == req[h] IN
  /\ OnRow(h)
  /\ ~ Unchanged(q) /\ ~ Collides(q)
  /\ row' = [row EXCEPT ![q.u][q.i] = Updated(q, IF q.was = None THEN New ELSE q.was)]
  /\ Racing(h, None, {q.i}, {"delete"})
  /\ UNCHANGED <<exists, swept, home>>

(* UPDATE of the column, or INSERT. *)
WriteRow(h) ==
  LET q == req[h] IN
  /\ OnRow(h)
  /\ ~ Unchanged(q) /\ ~ Collides(q)
  /\ row' = [row EXCEPT ![q.u][q.i] = Updated(q, IF @ = None THEN New ELSE @)]
  /\ Racing(h, None, {q.i}, {"delete"})
  /\ UNCHANGED <<exists, swept, home>>

WriteNothing(h) ==
  /\ OnRow(h)
  /\ Unchanged(req[h]) \/ Collides(req[h])
  /\ Done(h)
  /\ UNCHANGED <<exists, swept, row, home>>

-----------------------------------------------------------------------------
(* set_home_dashboard *)

ChooseHome(h, u, d) ==
  /\ req[h] = None
  /\ d \in exists
  /\ req' = [req EXCEPT ![h] =
               [op |-> "home", u |-> u, i |-> d, was |-> home[u], raced |-> FALSE]]
  /\ UNCHANGED <<exists, swept, row, home>>

(* A pointer equal to the one that was read is not written; another one     *)
(* waits for the lock of its row.                                            *)
SetHome(h) ==
  LET q == req[h] IN
  /\ At(h, "home")
  /\ q.was # q.i /\ ~ Locked(q.u)
  /\ home' = [home EXCEPT ![q.u] = q.i]
  /\ Racing(h, None, {q.i}, {"drop"})
  /\ UNCHANGED <<exists, swept, row>>

KeepHome(h) ==
  /\ At(h, "home")
  /\ req[h].was = req[h].i
  /\ Done(h)
  /\ UNCHANGED <<exists, swept, row, home>>

ClearHome(u) ==
  /\ home[u] # None /\ ~ Locked(u)
  /\ home' = [home EXCEPT ![u] = None]
  /\ UNCHANGED <<exists, swept, row, req>>

-----------------------------------------------------------------------------
Next ==
  \/ \E i \in Item : CreateItem(i)
  \/ \E S \in SUBSET Item : DeleteWorkspace(S)
  \/ \E u \in User : ClearHome(u)
  \/ NotFound
  \/ \E h \in Handler :
       \/ \E i \in Document : Delete(h, i)
       \/ Forget(h) \/ DeleteCommit(h)
       \/ \E d \in Dashboard : DeleteDashboard(h, d)
       \/ ClearPointers(h) \/ DropCommit(h) \/ DeleteFails(h)
       \/ \E u \in User, i \in Item, op \in {"pin", "unpin", "view"} : Ask(h, u, i, op)
       \/ WriteRow(h) \/ WriteNothing(h)
       \/ \E u \in User, d \in Dashboard : ChooseHome(h, u, d)
       \/ SetHome(h) \/ KeepHome(h)

Spec == Init /\ [][Next]_vars
-----------------------------------------------------------------------------
Favorite(u, i) == row[u][i] # None /\ row[u][i].favorite

(* A favourite is lost only because its user unpins it, or somebody deletes  *)
(* the item: opening the item at the same time does not undo it, and no      *)
(* other user's request does.                                                *)
FavoriteKept ==
  [][\A u \in User, i \in Item :
       Favorite(u, i) /\ ~ Favorite(u, i)' =>
         \E h \in Handler :
           /\ req'[h] # req[h]
           /\ \/ At(h, "unpin") /\ req[h].u = u /\ req[h].i = i
              \/ At(h, "forget") /\ req[h].i = i]_vars

(* A request on i ends that overlapped with its deletion.                    *)
RacedOn(i) ==
  \E h \in Handler : req[h] # None /\ req[h].i = i /\ req[h].raced /\ req'[h] = None

Phantom(u, i) == row[u][i] # None /\ i \notin exists

(* A row outlives its item only where the code does not forget the item at   *)
(* all (a dashboard, or a workspace's deletion), or because requests on the  *)
(* item overlapped with its deletion.                                        *)
PhantomNeedsRace ==
  [][\A u \in User, i \in Item :
       Phantom(u, i)' /\ ~ Phantom(u, i) =>
         i \in Dashboard \/ i \in swept' \/ RacedOn(i)]_vars

(* home_dashboard: a choice that is not there any more is no choice.         *)
HomeDashboard(u) == IF home[u] \in exists THEN home[u] ELSE None

Dangling(u) == home[u] # HomeDashboard(u)

(* delete_dashboard: "Anyone who chose it for their home now has no          *)
(* dashboard chosen."  A pointer dangles only by a workspace's deletion, or  *)
(* because the choice overlapped with the dashboard's deletion: it was       *)
(* checked before the commit, or written after the UPDATE.                   *)
DanglingNeedsRace ==
  [][\A u \in User :
       Dangling(u)' /\ ~ Dangling(u) => home'[u] \in swept' \/ RacedOn(home'[u])]_vars
=============================================================================
