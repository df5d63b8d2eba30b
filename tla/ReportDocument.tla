----------------------------- MODULE ReportDocument -----------------------------
(***************************************************************************)
(* The report builder's document: loaded, edited, saved, bound to a view,  *)
(* and left for another report, with answers that arrive in any order      *)
(* (frontend/src/reports/builder/useReportDocument.ts, BuilderPage.tsx).   *)
(*                                                                         *)
(* One user in one tab.  A document is told apart by the report it was     *)
(* made for, the edits in it and whether it is bound to a view; normalising*)
(* keeps these.  The server stores what it is sent (update_report).  The   *)
(* query cache and the mutations are react-query's, as the hook uses them: *)
(* cached data is shown at once and fetched again, a fetch that fails marks*)
(* the query although its data stays, an unmounted component hears nothing,*)
(* and reset() forgets a mutation without stopping it.                     *)
(***************************************************************************)
EXTENDS Integers, FiniteSets

CONSTANTS
  Report,
  Edit,      \* what can be changed in a document
  Call,      \* ids of requests under way
  None

Doc == [home : Report, edits : SUBSET Edit, bound : BOOLEAN]

(* A fetch under way: what it has read, if it has.                           *)
Fetch == [doc : Doc \cup {None}]

(* `watched`: save.isPending is about this one; `mounted`: the component     *)
(* that sent it is still there to hear the answer.                           *)
Request ==
  [kind : {"save", "bind"}, to : Report, doc : Doc, served : BOOLEAN,
   watched : BOOLEAN, mounted : BOOLEAN]

ASSUME DocumentAssumption ==
  None \notin Report \cup Call \cup Doc \cup Fetch \cup Request

VARIABLES
  server,    \* the stored definitions
  cache,     \* the query cache: a document, or None
  fetch,     \* a fetch under way and the document it has read, or None
  failed,    \* the queries that report an error: report.isError
  cur,       \* reportId of the mounted builder, or None
  def,       \* definition, or None
  base,      \* savedJson, or None
  calls,     \* requests of save and bind under way
  lateBind,  \* a bind was answered when another report was open (not in the code)
  doubt      \* reports the client may be wrong about (not in the code)

vars == <<server, cache, fetch, failed, cur, def, base, calls, lateBind, doubt>>

TypeOK ==
  /\ server \in [Report -> Doc]
  /\ cache \in [Report -> Doc \cup {None}]
  /\ fetch \in [Report -> Fetch \cup {None}]
  /\ failed \subseteq Report
  /\ cur \in Report \cup {None}
  /\ def \in Doc \cup {None} /\ base \in Doc \cup {None}
  /\ calls \in [Call -> Request \cup {None}]
  /\ lateBind \in BOOLEAN /\ doubt \subseteq Report
  /\ cur = None => def = None
  /\ def = None <=> base = None

Init ==
  /\ server = [r \in Report |-> [home |-> r, edits |-> {}, bound |-> FALSE]]
  /\ cache = [r \in Report |-> None]
  /\ fetch = [r \in Report |-> None]
  /\ failed = {}
  /\ cur = None /\ def = None /\ base = None
  /\ calls = [c \in Call |-> None]
  /\ lateBind = FALSE /\ doubt = {}

dirty == def # None /\ def # base

(* The builder is on screen, not an alert and not "Loading report".          *)
OnScreen == def # None /\ cur \notin failed /\ cache[cur] # None

Pending(kind) == \E c \in Call : calls[c] # None /\ calls[c].kind = kind /\ calls[c].watched

ToReport(r) == {c \in Call : calls[c] # None /\ calls[c].to = r}
-----------------------------------------------------------------------------
(* Showing a report.                                                         *)

(* The populate effect, with the document there is.                          *)
Populate(r, d) ==
  /\ def' = d /\ base' = d
  /\ doubt' = IF d = None THEN doubt
              ELSE IF d = server[r] /\ ToReport(r) = {} THEN doubt \ {r}
              ELSE doubt \cup {r}

(* A fetch of a query that has data leaves its error until it has ended.     *)
StartFetch(r) ==
  /\ fetch' = [fetch EXCEPT ![r] = [doc |-> None]]
  /\ failed' = IF cache[r] = None THEN failed \ {r} ELSE failed

(* useQuery mounts with a new key: what is cached is shown, and fetched anew.*)
Show(r) ==
  /\ cur' = r
  /\ Populate(r, cache[r])
  /\ IF fetch[r] = None THEN StartFetch(r) ELSE UNCHANGED <<fetch, failed>>

Open(r) ==
  /\ cur = None
  /\ Show(r)
  /\ UNCHANGED <<server, cache, calls, lateBind>>

(* Mutant: the effect on reportId is missing.                                *)
Go_NoReset(r) ==
  /\ cur \notin {None, r} /\ def # None
  /\ cur' = r
  /\ IF fetch[r] = None THEN StartFetch(r) ELSE UNCHANGED <<fetch, failed>>
  /\ UNCHANGED <<server, cache, def, base, calls, lateBind, doubt>>

(* The route changes but the component stays: the effect on reportId resets  *)
(* the document and the save, and not the bind.                              *)
Go(r) ==
  /\ cur \notin {None, r}
  /\ Show(r)
  /\ calls' = [c \in Call |->
       IF calls[c] # None /\ calls[c].kind = "save"
       THEN [calls[c] EXCEPT !.watched = FALSE] ELSE calls[c]]
  /\ UNCHANGED <<server, cache, lateBind>>

(* The builder unmounts.                                                     *)
Leave ==
  /\ cur # None
  /\ cur' = None /\ def' = None /\ base' = None
  /\ calls' = [c \in Call |->
       IF calls[c] # None /\ ~ calls[c].served
       THEN [calls[c] EXCEPT !.watched = FALSE, !.mounted = FALSE] ELSE None]
  /\ UNCHANGED <<server, cache, fetch, failed, lateBind, doubt>>

(* A query that nobody has looked at for the cache time is forgotten.        *)
Forget(r) ==
  /\ cur # r /\ fetch[r] = None
  /\ cache[r] # None \/ r \in failed
  /\ cache' = [cache EXCEPT ![r] = None]
  /\ failed' = failed \ {r}
  /\ UNCHANGED <<server, fetch, cur, def, base, calls, lateBind, doubt>>

(* The report on screen is fetched again: the network is back, or it has been*)
(* moved (MovePanel).  One under way that starts over reads later, no more.  *)
Refetch(r) ==
  /\ cur = r /\ fetch[r] = None
  /\ StartFetch(r)
  /\ UNCHANGED <<server, cache, cur, def, base, calls, lateBind, doubt>>

FetchRead(r) ==
  /\ fetch[r] # None /\ fetch[r].doc = None
  /\ fetch' = [fetch EXCEPT ![r].doc = server[r]]
  /\ UNCHANGED <<server, cache, failed, cur, def, base, calls, lateBind, doubt>>

(* Once there is a definition, a newer document that arrives is only cached; *)
(* it takes an alert off the screen.                                         *)
FetchArrives(r) ==
  /\ fetch[r] # None /\ fetch[r].doc # None
  /\ cache' = [cache EXCEPT ![r] = fetch[r].doc]
  /\ fetch' = [fetch EXCEPT ![r] = None]
  /\ failed' = failed \ {r}
  /\ IF cur = r /\ def = None
     THEN Populate(r, fetch[r].doc)
     ELSE UNCHANGED <<def, base, doubt>>
  /\ UNCHANGED <<server, cur, calls, lateBind>>

(* An alert takes the place of the builder and of whatever has been done in  *)
(* it, also when there is a definition.                                      *)
FetchFails(r) ==
  /\ fetch[r] # None
  /\ fetch' = [fetch EXCEPT ![r] = None]
  /\ failed' = failed \cup {r}
  /\ UNCHANGED <<server, cache, cur, def, base, calls, lateBind, doubt>>
-----------------------------------------------------------------------------
(* Editing and saving.                                                       *)

MakeEdit(e) ==
  /\ OnScreen /\ e \notin def.edits
  /\ def' = [def EXCEPT !.edits = @ \cup {e}]
  /\ UNCHANGED <<server, cache, fetch, failed, cur, base, calls, lateBind, doubt>>

Undo(e) ==
  /\ OnScreen /\ e \in def.edits
  /\ def' = [def EXCEPT !.edits = @ \ {e}]
  /\ UNCHANGED <<server, cache, fetch, failed, cur, base, calls, lateBind, doubt>>

Send(c, kind, doc) ==
  /\ calls[c] = None
  /\ calls' = [d \in Call |->
       IF d = c THEN [kind |-> kind, to |-> cur, doc |-> doc, served |-> FALSE,
                      watched |-> kind = "save", mounted |-> TRUE]
       ELSE IF calls[d] # None /\ calls[d].kind = kind
            THEN [calls[d] EXCEPT !.watched = FALSE] ELSE calls[d]]
  /\ doubt' = IF ToReport(cur) = {} THEN doubt
              ELSE doubt \cup {cur}
  /\ UNCHANGED <<server, cache, fetch, failed, cur, def, base, lateBind>>

(* The Save button.                                                          *)
Save(c) ==
  /\ OnScreen /\ dirty /\ ~ Pending("save")
  /\ Send(c, "save", def)

(* bindView, from the panel that is shown while the report has no view, or   *)
(* has one that is not there any more, as may come about at any time.        *)
BindView(c) ==
  /\ OnScreen
  /\ Send(c, "bind", [def EXCEPT !.bound = TRUE])

(* update_report.  An answer that nobody is there to hear is dropped at once.*)
Serve(c) ==
  /\ calls[c] # None /\ ~ calls[c].served
  /\ server' = [server EXCEPT ![calls[c].to] = calls[c].doc]
  /\ calls' = IF calls[c].mounted THEN [calls EXCEPT ![c].served = TRUE]
              ELSE [calls EXCEPT ![c] = None]
  /\ UNCHANGED <<cache, fetch, failed, cur, def, base, lateBind, doubt>>

(* Mutant: the baseline is what is on screen by now.                        *)
SaveAnswered_Screen(c) ==
  /\ calls[c] # None /\ calls[c].kind = "save" /\ calls[c].served
  /\ base' = IF def = None THEN base ELSE def
  /\ calls' = [calls EXCEPT ![c] = None]
  /\ UNCHANGED <<server, cache, fetch, failed, cur, def, lateBind, doubt>>

(* Mutant: what was stored is also shown.                                   *)
SaveAnswered_Shows(c) ==
  /\ calls[c] # None /\ calls[c].kind = "save" /\ calls[c].served
  /\ base' = IF def = None THEN base ELSE calls[c].doc
  /\ calls' = [calls EXCEPT ![c] = None]
  /\ def' = base'
  /\ UNCHANGED <<server, cache, fetch, failed, cur, lateBind, doubt>>

(* onSuccess of save: the baseline is what was stored.  It runs for whatever *)
(* report is open.                                                           *)
SaveAnswered(c) ==
  /\ calls[c] # None /\ calls[c].kind = "save" /\ calls[c].served
  /\ LET heard == def # None IN
       /\ base' = IF heard THEN calls[c].doc ELSE base
       /\ doubt' = IF heard /\ calls[c].to # cur
                   THEN doubt \cup {cur} ELSE doubt
  /\ calls' = [calls EXCEPT ![c] = None]
  /\ UNCHANGED <<server, cache, fetch, failed, cur, def, lateBind>>

(* onSuccess of bind: what was stored is also shown.                         *)
BindAnswered(c) ==
  /\ calls[c] # None /\ calls[c].kind = "bind" /\ calls[c].served
  /\ LET doc == calls[c].doc
         late == calls[c].to # cur IN
       /\ def' = doc /\ base' = doc
       /\ lateBind' = (lateBind \/ late)
       /\ doubt' = IF late THEN doubt \cup {cur} ELSE doubt
  /\ calls' = [calls EXCEPT ![c] = None]
  /\ UNCHANGED <<server, cache, fetch, failed, cur>>

(* The request or its answer is lost: nothing changes on screen.             *)
CallFails(c) ==
  /\ calls[c] # None
  /\ calls' = [calls EXCEPT ![c] = None]
  /\ doubt' = IF calls[c].served
              THEN doubt \cup {calls[c].to} ELSE doubt
  /\ UNCHANGED <<server, cache, fetch, failed, cur, def, base, lateBind>>
-----------------------------------------------------------------------------
Next ==
  \/ \E r \in Report : Open(r) \/ Go(r) \/ Forget(r) \/ Refetch(r)
       \/ FetchRead(r) \/ FetchArrives(r) \/ FetchFails(r)
  \/ Leave
  \/ \E e \in Edit : MakeEdit(e) \/ Undo(e)
  \/ \E c \in Call : Save(c) \/ BindView(c) \/ Serve(c) \/ SaveAnswered(c) \/ BindAnswered(c) \/ CallFails(c)

Spec == Init /\ [][Next]_vars
-----------------------------------------------------------------------------
(* "Without this reset ... leaving the old definition on screen, editable,   *)
(* with Save posting it to the new id": a document of one report is shown,   *)
(* or stored, under another only after a bind was answered too late.         *)
StrayNeedsLateBind ==
  ~ lateBind =>
    /\ \A r \in Report : server[r].home = r
    /\ def # None => def.home = cur

(* No unsaved changes means saved: when nothing is under way and the         *)
(* document equals its baseline, it is what the server has.  What can        *)
(* mislead the client: a document from the cache or a fetch older than the   *)
(* last save, requests for one report that overlap, an answer that was lost, *)
(* and an answer that came for another report.                               *)
CleanIsStored ==
  cur # None /\ def # None /\ ~ dirty /\ ToReport(cur) = {} /\ cur \notin doubt
    => def = server[cur]

(* What the user has done to the document stays until the user undoes it or  *)
(* goes elsewhere; only the answer to a bind replaces it.  It stays on screen*)
(* but for an alert when a fetch fails, and is back, as it was, with the next*)
(* fetch that does not.                                                      *)
EditsKept ==
  [][cur' = cur /\ def # None =>
       /\ \/ def' # None /\ def.edits \subseteq def'.edits
          \/ \E e \in Edit : Undo(e)
          \/ \E c \in Call : BindAnswered(c)
       /\ OnScreen /\ ~ OnScreen' => FetchFails(cur)
       /\ ~ OnScreen /\ OnScreen' => FetchArrives(cur) /\ def' = def]_vars
=============================================================================
