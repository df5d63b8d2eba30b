----------------------------- MODULE SessionContext -----------------------------
(***************************************************************************)
(* The role and warehouse a session runs as: changed on its connection by  *)
(* set_context (session/routes.py, session/context.py), remembered on the  *)
(* user's row, and replayed on the new connection of the next sign-in      *)
(* (_replay_remembered_context, auth/routes.py).                           *)
(*                                                                         *)
(* One user is modelled; all sessions of a user share the row.  A step is  *)
(* one statement on a connection, or one read or commit of the database.   *)
(* Names are compared as the code resolves them, so a role or a warehouse  *)
(* is one value however it is spelled.  A request that meets the eviction  *)
(* of its entry is ConnectionCache; here a connection is replaced only     *)
(* while no request of its session is in progress.                         *)
(***************************************************************************)
EXTENDS Integers, FiniteSets

CONSTANTS
  Session, Role, Warehouse, Thread, None,
  Usable,             \* the warehouses SHOW WAREHOUSES lists under a role
  DefaultRole,        \* what a new connection runs as
  DefaultWarehouse

OrNone(S) == S \cup {None}

(* `r`, `w`: the body, then the choice once resolved.  `gotR`, `gotW`: what  *)
(* was read back; `oldR`, `oldW`: the row as it was loaded.  `overtaken`:    *)
(* another request has changed the connection or the row since that was      *)
(* read; `hindered`: a grant has changed since it began, or a statement of a *)
(* replay has failed for another reason (neither is in the code).            *)
Request ==
  [op : {"set", "sign_in"},
   at : {"roles", "use_role", "warehouses", "use_wh", "read", "load", "write"},
   s : Session, r : OrNone(Role), w : OrNone(Warehouse),
   gotR : OrNone(Role), gotW : OrNone(Warehouse),
   oldR : OrNone(Role), oldW : OrNone(Warehouse), overtaken : BOOLEAN,
   hindered : BOOLEAN]

ASSUME ContextAssumption ==
  /\ None \notin Role \cup Warehouse \cup Request
  /\ Usable \in [Role -> SUBSET Warehouse]
  /\ DefaultRole \in Role
  /\ DefaultWarehouse \in Warehouse \cup {None}

VARIABLES
  granted,    \* the roles SHOW GRANTS TO USER lists
  up,         \* the sessions that are signed in
  role, wh,   \* CURRENT_ROLE() and CURRENT_WAREHOUSE() of their connections
  lastRole, lastWh,   \* users.last_role and last_warehouse
  req,        \* what a thread is doing, or None
  drift       \* what may differ between a session's connection and the row,
              \* and why, is recorded here (not in the code)

vars == <<granted, up, role, wh, lastRole, lastWh, req, drift>>

TypeOK ==
  /\ DefaultRole \in granted /\ granted \subseteq Role
  /\ up \subseteq Session
  /\ role \in [Session -> Role]
  /\ wh \in [Session -> OrNone(Warehouse)]
  /\ lastRole \in OrNone(Role) /\ lastWh \in OrNone(Warehouse)
  /\ req \in [Thread -> Request \cup {None}]
  /\ drift \in [Session -> SUBSET {"role", "wh"}]

Init ==
  /\ granted = Role
  /\ up = {}
  /\ role = [s \in Session |-> DefaultRole]
  /\ wh = [s \in Session |-> DefaultWarehouse]
  /\ lastRole = None /\ lastWh = None
  /\ req = [t \in Thread |-> None]
  /\ drift = [s \in Session |-> {}]

At(t, p) == req[t] # None /\ req[t].at = p
Is(t, op, p) == At(t, p) /\ req[t].op = op
Busy(s) == \E t \in Thread : req[t] # None /\ req[t].s = s

(* The statements of a block `with entry.lock` are in progress.              *)
Locked(s) ==
  \E t \in Thread :
    /\ req[t] # None /\ req[t].s = s
    /\ req[t].at \in {"roles", "use_role", "warehouses", "use_wh", "read"}

connVars == <<role, wh>>
rowVars == <<lastRole, lastWh>>

Begin(t, op, p, s, r, w) ==
  /\ req[t] = None
  /\ req' = [req EXCEPT ![t] =
       [op |-> op, at |-> p, s |-> s, r |-> r, w |-> w, gotR |-> None,
        gotW |-> None, oldR |-> None, oldW |-> None, overtaken |-> FALSE,
        hindered |-> FALSE]]

GoTo(t, p) == req' = [req EXCEPT ![t].at = p]

(* The other requests past their read-back on this session are overtaken.    *)
Overtake(t, s, p) ==
  req' = [u \in Thread |->
            IF u = t THEN [req[t] EXCEPT !.at = p]
            ELSE IF req[u] # None /\ req[u].s = s /\ req[u].at \in {"load", "write"}
                 THEN [req[u] EXCEPT !.overtaken = TRUE] ELSE req[u]]

Drifts(s, what) == drift' = [drift EXCEPT ![s] = @ \cup what]
-----------------------------------------------------------------------------
(* POST /api/session/context                                                 *)

(* From taking entry.lock: a request that waits for it has done nothing yet. *)
Ask(t, s, r, w) ==
  /\ s \in up /\ ~ Locked(s)
  /\ Begin(t, "set", "roles", s, r, w)
  /\ UNCHANGED <<granted, up, connVars, rowVars, drift>>

(* resolve(body.role, available_roles(conn)): nothing, a match or a refusal. *)
ResolveRole(t) ==
  LET r == req[t].r IN
  /\ At(t, "roles")
  /\ req' = IF r = None THEN [req EXCEPT ![t].at = "warehouses"]
            ELSE IF r \in granted THEN [req EXCEPT ![t].at = "use_role"]
            ELSE [req EXCEPT ![t] = None]
  /\ UNCHANGED <<granted, up, connVars, rowVars, drift>>

(* USE ROLE.  The connection keeps its warehouse, or Snowflake leaves it     *)
(* with none when the new role may not use that one.                         *)
Switched(s, r) ==
  /\ r \in granted
  /\ role' = [role EXCEPT ![s] = r]
  /\ \/ UNCHANGED wh
     \/ wh[s] \notin Usable[r] /\ wh' = [wh EXCEPT ![s] = None]

UseRole(t) ==
  LET s == req[t].s IN
  /\ Is(t, "set", "use_role")
  /\ Switched(s, req[t].r)
  /\ Overtake(t, s, "warehouses")
  /\ Drifts(s, IF wh' = wh THEN {} ELSE {"wh"})
  /\ UNCHANGED <<granted, up, rowVars>>

(* The list is the one of the new role.  A refusal here leaves the role      *)
(* applied.                                                                  *)
ResolveWarehouse(t) ==
  LET s == req[t].s IN
  /\ At(t, "warehouses")
  /\ \/ /\ req[t].w = None
        /\ GoTo(t, "read") /\ UNCHANGED drift
     \/ /\ req[t].w \in Usable[role[s]]
        /\ GoTo(t, "use_wh") /\ UNCHANGED drift
     \/ /\ req[t].w \notin Usable[role[s]] \cup {None}
        /\ req' = [req EXCEPT ![t] = None]
        /\ Drifts(s, IF req[t].r = None THEN {} ELSE {"role"})
  /\ UNCHANGED <<granted, up, connVars, rowVars>>

UseWarehouse(t) ==
  LET s == req[t].s IN
  /\ Is(t, "set", "use_wh")
  /\ wh' = [wh EXCEPT ![s] = req[t].w]
  /\ Overtake(t, s, "read")
  /\ UNCHANGED <<granted, up, role, rowVars, drift>>

ReadBack(t) ==
  LET s == req[t].s IN
  /\ Is(t, "set", "read")
  /\ req' = [req EXCEPT ![t].at = "load", ![t].gotR = role[s], ![t].gotW = wh[s]]
  /\ UNCHANGED <<granted, up, connVars, rowVars, drift>>

(* A statement raises: the block ends, the row is not written, and what was  *)
(* applied stays.                                                            *)
StatementFails(t) ==
  /\ req[t] # None /\ req[t].op = "set"
  /\ req[t].at \in {"roles", "use_role", "warehouses", "use_wh", "read"}
  /\ req' = [req EXCEPT ![t] = None]
  /\ Drifts(req[t].s, {d \in {"role", "wh"} :
       IF d = "role" THEN req[t].r # None ELSE req[t].w # None})
  /\ UNCHANGED <<granted, up, connVars, rowVars>>

(* db.get(User)                                                              *)
Load(t) ==
  /\ Is(t, "set", "load")
  /\ req' = [req EXCEPT ![t].at = "write", ![t].oldR = lastRole, ![t].oldW = lastWh]
  /\ UNCHANGED <<granted, up, connVars, rowVars, drift>>

(* The commit: an UPDATE of the columns whose new value differs from the one *)
(* loaded.                                                                   *)
Store(t, newR, newW) ==
  /\ lastRole' = IF newR # req[t].oldR THEN newR ELSE lastRole
  /\ lastWh' = IF newW # req[t].oldW THEN newW ELSE lastWh

HasLoaded(u) ==
  Is(u, "set", "write") \/ \E p \in {"use_role", "use_wh", "read"} : Is(u, "sign_in", p)

(* After a commit of t: whoever has loaded the row before holds stale        *)
(* values, and the other sessions may run as something else.                 *)
Committed(t, written) ==
  /\ req' = [u \in Thread |->
               IF u = t THEN None
               ELSE IF HasLoaded(u) THEN [req[u] EXCEPT !.overtaken = TRUE]
               ELSE req[u]]
  /\ drift' = [s \in Session |->
                 IF s # req[t].s \/ req[t].overtaken
                 THEN IF s \in up \cup {req[t].s} THEN drift[s] \cup written ELSE {}
                 ELSE drift[s] \ written]

Or(a, b) == IF a = None THEN b ELSE a

Remember(t) ==
  LET q == req[t] IN
  /\ Is(t, "set", "write")
  /\ Store(t, IF q.r = None THEN q.oldR ELSE Or(q.gotR, q.r),
              IF q.w = None THEN q.oldW ELSE Or(q.gotW, q.w))
  /\ Committed(t, {d \in {"role", "wh"} :
       IF d = "role" THEN q.r # None ELSE q.w # None})
  /\ UNCHANGED <<granted, up, connVars>>
-----------------------------------------------------------------------------
(* Sign-in: a new connection in the default context, the remembered one      *)
(* replayed on it, best effort, and what took effect recorded.               *)

SignIn(t, s) ==
  /\ s \notin up /\ ~ Busy(s)
  /\ Begin(t, "sign_in", "load", s, None, None)
  /\ UNCHANGED <<granted, up, connVars, rowVars, drift>>

LoadRemembered(t) ==
  /\ Is(t, "sign_in", "load")
  /\ req' = [req EXCEPT ![t].at = "use_role", ![t].oldR = lastRole, ![t].oldW = lastWh]
  /\ UNCHANGED <<granted, up, connVars, rowVars, drift>>

(* Mutant: the warehouse is applied before the role it may need.             *)
ReplayRole_WarehouseFirst(t) ==
  LET s == req[t].s
      r == req[t].oldR
      w == req[t].oldW IN
  /\ Is(t, "sign_in", "use_role")
  /\ GoTo(t, "read")
  /\ IF w \in Usable[role[s]] \cup {None} /\ r \in granted
     THEN /\ role' = [role EXCEPT ![s] = r]
          /\ wh' = [wh EXCEPT ![s] = IF w = None THEN @ ELSE w]
     ELSE UNCHANGED connVars
  /\ UNCHANGED <<granted, up, rowVars, drift>>

(* apply_context: USE ROLE if there is one, then USE WAREHOUSE if there is   *)
(* one; the first that fails ends it.                                        *)
ReplayRole(t) ==
  LET s == req[t].s IN
  /\ Is(t, "sign_in", "use_role")
  /\ \/ req[t].oldR = None /\ GoTo(t, "use_wh") /\ UNCHANGED connVars
     \/ req[t].oldR # None /\ Switched(s, req[t].oldR) /\ GoTo(t, "use_wh")
     \/ req[t].oldR \notin granted \cup {None} /\ GoTo(t, "read") /\ UNCHANGED connVars
  /\ UNCHANGED <<granted, up, rowVars, drift>>

ReplayWarehouse(t) ==
  LET s == req[t].s
      w == req[t].oldW IN
  /\ Is(t, "sign_in", "use_wh")
  /\ wh' = IF w \in Usable[role[s]] THEN [wh EXCEPT ![s] = w] ELSE wh
  /\ GoTo(t, "read")
  /\ UNCHANGED <<granted, up, role, rowVars, drift>>

(* Any other error of a statement, a lost connection say, ends the replay as *)
(* a refusal does; the statement may have taken effect.                      *)
ReplayFails(t) ==
  LET q == req[t] IN
  /\ \/ /\ Is(t, "sign_in", "use_role") /\ q.oldR # None
        /\ UNCHANGED connVars \/ Switched(q.s, q.oldR)
     \/ /\ Is(t, "sign_in", "use_wh") /\ q.oldW # None
        /\ wh' \in {wh} \cup {[wh EXCEPT ![q.s] = w] : w \in Usable[role[q.s]] \cap {q.oldW}}
        /\ UNCHANGED role
  /\ req' = [req EXCEPT ![t].at = "read", ![t].hindered = TRUE]
  /\ UNCHANGED <<granted, up, rowVars, drift>>

(* Mutant: the row keeps what was remembered, whatever took effect.          *)
RecordLive_Remembered(t) ==
  LET s == req[t].s IN
  /\ Is(t, "sign_in", "read")
  /\ UNCHANGED rowVars
  /\ Committed(t, {"role", "wh"})
  /\ up' = up \cup {s}
  /\ UNCHANGED <<granted, connVars>>

(* The context is read back and committed in one go as far as others can     *)
(* see: nobody else has this connection yet.                                 *)
RecordLive(t) ==
  LET s == req[t].s IN
  /\ Is(t, "sign_in", "read")
  /\ Store(t, role[s], wh[s])
  /\ Committed(t, {"role", "wh"})
  /\ up' = up \cup {s}
  /\ UNCHANGED <<granted, connVars>>

(* The read-back fails: the sign-in goes on, and the row stays as it was.    *)
ReadBackFails(t) ==
  LET s == req[t].s IN
  /\ Is(t, "sign_in", "read")
  /\ req' = [req EXCEPT ![t] = None]
  /\ up' = up \cup {s}
  /\ Drifts(s, {"role", "wh"})
  /\ UNCHANGED <<granted, connVars, rowVars>>
-----------------------------------------------------------------------------
SignOut(s) ==
  /\ s \in up /\ ~ Busy(s)
  /\ up' = up \ {s}
  /\ role' = [role EXCEPT ![s] = DefaultRole]
  /\ wh' = [wh EXCEPT ![s] = DefaultWarehouse]
  /\ drift' = [drift EXCEPT ![s] = {}]
  /\ UNCHANGED <<granted, rowVars, req>>

(* acquire builds the connection anew from the token: default context, and   *)
(* nothing is replayed.                                                      *)
Rebuild(s) ==
  /\ s \in up /\ ~ Busy(s)
  /\ role' = [role EXCEPT ![s] = DefaultRole]
  /\ wh' = [wh EXCEPT ![s] = DefaultWarehouse]
  /\ Drifts(s, {"role", "wh"})
  /\ UNCHANGED <<granted, up, rowVars, req>>

(* An administrator grants or revokes a role.                                *)
Regrant(r) ==
  /\ r # DefaultRole
  /\ granted' = IF r \in granted THEN granted \ {r} ELSE granted \cup {r}
  /\ req' = [t \in Thread |->
       IF req[t] # None /\ req[t].op = "sign_in"
       THEN [req[t] EXCEPT !.hindered = TRUE] ELSE req[t]]
  /\ UNCHANGED <<up, connVars, rowVars, drift>>

Set(t) ==
  \/ ResolveRole(t) \/ UseRole(t) \/ ResolveWarehouse(t)
  \/ UseWarehouse(t) \/ ReadBack(t) \/ StatementFails(t) \/ Load(t) \/ Remember(t)

Replay(t) ==
  \/ LoadRemembered(t) \/ ReplayRole(t) \/ ReplayWarehouse(t) \/ ReplayFails(t)
  \/ RecordLive(t) \/ ReadBackFails(t)

Next ==
  \/ \E t \in Thread :
       \/ \E s \in Session :
            \/ SignIn(t, s)
            \/ \E r \in OrNone(Role), w \in OrNone(Warehouse) : Ask(t, s, r, w)
       \/ Set(t) \/ Replay(t)
  \/ \E s \in Session : SignOut(s) \/ Rebuild(s)
  \/ \E r \in Role : Regrant(r)

Spec == Init /\ [][Next]_vars
-----------------------------------------------------------------------------
(* "Reading the context back afterwards keeps the stored value honest": once *)
(* its requests are over, a session runs as what the row says, but for the   *)
(* causes in drift: a warehouse refused or a statement failed after the role *)
(* was applied, a request overtaken between its read-back and its commit,    *)
(* the row written for another session, a rebuilt connection, and a switch   *)
(* of role that took the warehouse away.                                     *)
DriftExplained ==
  \A s \in up : ~ Busy(s) =>
    /\ "role" \notin drift[s] => lastRole = role[s]
    /\ "wh" \notin drift[s] => lastWh = wh[s]

(* "Put the user back in the role and warehouse they last chose": what was   *)
(* remembered when a sign-in loaded it is what its connection runs as when   *)
(* it is done, as long as the role is still granted and may use that         *)
(* warehouse, and unless a statement fails for another reason.  "A           *)
(* remembered role that has since been revoked" costs no more than the       *)
(* preference.                                                               *)
ChoiceComesBack ==
  [][\A t \in Thread : RecordLive(t) =>
       LET q == req[t] IN
       ~ q.hindered =>
         /\ q.oldR \in granted => role[q.s] = q.oldR
         /\ q.oldR \in granted /\ q.oldW \in Usable[q.oldR] => wh[q.s] = q.oldW]_vars

=============================================================================
