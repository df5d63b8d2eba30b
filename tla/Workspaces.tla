------------------------------ MODULE Workspaces ------------------------------
(***************************************************************************)
(* Workspaces and their members (app/workspaces), and the part of signing  *)
(* in that creates a user and a personal workspace.                        *)
(*                                                                         *)
(* A handler reads first and writes in one transaction at its end.  Other  *)
(* handlers commit in between (PostgreSQL, READ COMMITTED, no row locks),  *)
(* so a handler has up to three steps here: it asks (the authorization     *)
(* check, and the member row it will change), it counts the admins, and it *)
(* commits.  A handler that is refused has no effect and is not kept.      *)
(* Names are left out: nothing depends on them.  The id of a deleted       *)
(* workspace that no request refers to may be used again, which keeps the  *)
(* model finite without bounding how many workspaces are created.          *)
(***************************************************************************)
EXTENDS Integers, FiniteSets

CONSTANTS
  User,         \* Snowflake users of one account, signed in or not
  Workspace,    \* ids of the workspaces that may exist at a time
  Handler,      \* requests that may be in progress at a time
  None

Role == {"viewer", "editor", "admin"}

ASSUME SetAssumption ==
  /\ IsFiniteSet(User)
  /\ IsFiniteSet(Workspace)
  /\ None \notin User \cup Role

VARIABLES
  known,        \* rows of the users table
  kind,         \* "personal" or "shared", or "absent"
  member,       \* the role of a user in a workspace, or None
  req           \* what a handler is doing, or None

vars == <<known, kind, member, req>>

(* Roles are ranked by their position; anything else satisfies nothing. *)
Rank(r) == CASE r = "viewer" -> 1 [] r = "editor" -> 2 [] r = "admin" -> 3 [] OTHER -> -1

AtLeast(actual, need) == Rank(actual) >= 0 /\ Rank(need) >= 0 /\ Rank(actual) >= Rank(need)

Live(w) == kind[w] \in {"personal", "shared"}

Admins(w) == {u \in User : member[w][u] = "admin"}

(* A handler's request: what it does to whom, and what it has read so far.   *)
(* `was` is the member's role when it was read.  `raced` says whether the    *)
(* members of the workspace have changed since: it is not in the code.       *)
Request ==
  [op : {"delete", "add", "role", "remove"}, by : User, w : Workspace,
   to : User, role : Role, was : Role \cup {None},
   step : {"count", "commit"}, raced : BOOLEAN]

SignInRequest ==
  [op : {"sign in"}, by : User, found : BOOLEAN, personal : BOOLEAN]

TypeOK ==
  /\ known \subseteq User
  /\ kind \in [Workspace -> {"absent", "personal", "shared"}]
  /\ member \in [Workspace -> [User -> Role \cup {None}]]
  /\ req \in [Handler -> Request \cup SignInRequest \cup {None}]

Init ==
  /\ known = {}
  /\ kind = [w \in Workspace |-> "absent"]
  /\ member = [w \in Workspace |-> [u \in User |-> None]]
  /\ req = [h \in Handler |-> None]

Done(h) == req' = [req EXCEPT ![h] = None]

-----------------------------------------------------------------------------
(* Access: app/workspaces/access.py. *)

(* require_workspace: the workspace is there and the user's role suffices. *)
MayAct(u, w, need) == Live(w) /\ member[w][u] # None /\ AtLeast(member[w][u], need)

OnWorkspace(h, w) == req[h] # None /\ req[h].op # "sign in" /\ req[h].w = w

Unused == {w \in Workspace : kind[w] = "absent" /\ \A h \in Handler : ~ OnWorkspace(h, w)}

(* The members of w become m: a request in progress on w has been raced. *)
MembersBecome(h, w, m) ==
  /\ member' = [member EXCEPT ![w] = m]
  /\ req' = [g \in Handler |->
               IF g = h THEN None
               ELSE IF OnWorkspace(g, w) THEN [req[g] EXCEPT !.raced = TRUE]
               ELSE req[g]]

-----------------------------------------------------------------------------
(* Signing in: create_session and ensure_personal_workspace. *)

(* Bound: a sign-in or a creation starts only if an id will be left for it. *)
Room == Cardinality(Unused) > Cardinality({h \in Handler : req[h] # None /\ req[h].op = "sign in"})

(* What ensure_personal_workspace looks up.  It also stands for having signed *)
(* in: only then do requests of u come.                                      *)
HasPersonal(u) == \E w \in Workspace : kind[w] = "personal" /\ member[w][u] # None

SignIn(h, u) ==
  /\ req[h] = None
  /\ Room
  /\ req' = [req EXCEPT ![h] =
               [op |-> "sign in", by |-> u, found |-> u \in known, personal |-> HasPersonal(u)]]
  /\ UNCHANGED <<known, kind, member>>

(* A new workspace, with one admin. *)
Opened(w, k, u) ==
  /\ w \in Unused
  /\ kind' = [kind EXCEPT ![w] = k]
  /\ member' = [member EXCEPT ![w] = [[x \in User |-> None] EXCEPT ![u] = "admin"]]

(* Another sign-in has created the user meanwhile: the unique constraint     *)
(* fails this one.                                                           *)
SignInFails(h) ==
  /\ req[h] # None /\ req[h].op = "sign in"
  /\ ~ req[h].found /\ req[h].by \in known
  /\ Done(h)
  /\ UNCHANGED <<known, kind, member>>

SignInCommit(h) ==
  /\ req[h] # None /\ req[h].op = "sign in"
  /\ req[h].found \/ req[h].by \notin known
  /\ known' = known \cup {req[h].by}
  /\ \/ req[h].personal /\ UNCHANGED <<kind, member>>
     \/ ~ req[h].personal /\ \E w \in Workspace : Opened(w, "personal", req[h].by)
  /\ Done(h)

-----------------------------------------------------------------------------
(* Workspaces: create_workspace has nothing to check. *)

Create(u, w) ==
  /\ HasPersonal(u)
  /\ Room
  /\ Opened(w, "shared", u)
  /\ UNCHANGED <<known, req>>

(* Mutant: personal workspaces are not rejected. *)
Ask_Personal(h, u, w, op, v, r) ==
  /\ req[h] = None
  /\ HasPersonal(u)
  /\ MayAct(u, w, "admin")
  /\ op = "add" => member[w][v] = None
  /\ op \in {"role", "remove"} => member[w][v] # None
  /\ req' = [req EXCEPT ![h] =
               [op |-> op, by |-> u, w |-> w, to |-> v, role |-> r, was |-> member[w][v],
                step |-> IF op \in {"role", "remove"} THEN "count" ELSE "commit",
                raced |-> FALSE]]
  /\ UNCHANGED <<known, kind, member>>

(* delete_workspace, add_member, set_member_role and remove_member up to     *)
(* their writes.  Only the first two reject a personal workspace; the others *)
(* leave that to the count of admins.                                        *)
Ask(h, u, w, op, v, r) ==
  /\ req[h] = None
  /\ HasPersonal(u)
  /\ MayAct(u, w, "admin")
  /\ op \in {"delete", "add"} => kind[w] # "personal"
  /\ op = "add" => member[w][v] = None
  /\ op \in {"role", "remove"} => member[w][v] # None
  /\ req' = [req EXCEPT ![h] =
               [op |-> op, by |-> u, w |-> w, to |-> v, role |-> r, was |-> member[w][v],
                step |-> IF op \in {"role", "remove"} THEN "count" ELSE "commit",
                raced |-> FALSE]]
  /\ UNCHANGED <<known, kind, member>>

(* Does the request take the admin role away from somebody? *)
TakesAdmin(q) == q.was = "admin" /\ (q.op = "remove" \/ q.role # "admin")

(* Mutant: leaving is always allowed, only demotion is guarded. *)
GuardLastAdmin_DemotionOnly(h) ==
  /\ req[h] # None /\ req[h].op \in {"role", "remove"} /\ req[h].step = "count"
  /\ IF TakesAdmin(req[h]) /\ req[h].op = "role" /\ Cardinality(Admins(req[h].w)) <= 1
     THEN Done(h)
     ELSE req' = [req EXCEPT ![h].step = "commit"]
  /\ UNCHANGED <<known, kind, member>>

(* _guard_last_admin refuses if there is no other admin. *)
GuardLastAdmin(h) ==
  /\ req[h] # None /\ req[h].op \in {"role", "remove"} /\ req[h].step = "count"
  /\ IF TakesAdmin(req[h]) /\ Cardinality(Admins(req[h].w)) <= 1
     THEN Done(h)
     ELSE req' = [req EXCEPT ![h].step = "commit"]
  /\ UNCHANGED <<known, kind, member>>

At(h, op) == req[h] # None /\ req[h].op = op /\ req[h].step = "commit"

(* The rows go with their workspace, explicitly and by cascade; a workspace  *)
(* that is gone already is no error.                                         *)
DeleteWorkspace(h) ==
  /\ At(h, "delete")
  /\ kind' = [kind EXCEPT ![req[h].w] = "absent"]
  /\ MembersBecome(h, req[h].w, [u \in User |-> None])
  /\ UNCHANGED known

(* The target's user row is created on demand. *)
AddMember(h) ==
  LET q == req[h] IN
  /\ At(h, "add")
  /\ Live(q.w) /\ member[q.w][q.to] = None
  /\ known' = known \cup {q.to}
  /\ MembersBecome(h, q.w, [member[q.w] EXCEPT ![q.to] = q.role])
  /\ UNCHANGED kind

(* UPDATE, unless the role is the one that was read: then nothing is         *)
(* written.                                                                  *)
SetMemberRole(h) ==
  LET q == req[h] IN
  /\ At(h, "role")
  /\ IF q.role = q.was
     THEN Done(h) /\ UNCHANGED member
     ELSE /\ member[q.w][q.to] # None
          /\ MembersBecome(h, q.w, [member[q.w] EXCEPT ![q.to] = q.role])
  /\ UNCHANGED <<known, kind>>

(* DELETE: a row that is gone already is no error. *)
RemoveMember(h) ==
  LET q == req[h] IN
  /\ At(h, "remove")
  /\ MembersBecome(h, q.w, [member[q.w] EXCEPT ![q.to] = None])
  /\ UNCHANGED <<known, kind>>

(* The row to change is gone, or the row to insert is there (or its          *)
(* workspace is not): the database refuses, an internal error.               *)
WriteFails(h) ==
  LET q == req[h] IN
  /\ \/ At(h, "add") /\ (~ Live(q.w) \/ member[q.w][q.to] # None)
     \/ At(h, "role") /\ q.role # q.was /\ member[q.w][q.to] = None
  /\ Done(h)
  /\ UNCHANGED <<known, kind, member>>

-----------------------------------------------------------------------------
Next ==
  \/ \E u \in User, w \in Workspace : Create(u, w)
  \/ \E h \in Handler :
       \/ \E u \in User : SignIn(h, u)
       \/ SignInFails(h) \/ SignInCommit(h)
       \/ \E u, v \in User, w \in Workspace,
             op \in {"delete", "add", "role", "remove"}, r \in Role : Ask(h, u, w, op, v, r)
       \/ GuardLastAdmin(h)
       \/ DeleteWorkspace(h) \/ AddMember(h) \/ SetMemberRole(h) \/ RemoveMember(h)
       \/ WriteFails(h)

Spec == Init /\ [][Next]_vars
-----------------------------------------------------------------------------
(* A personal workspace is one person's: whatever overlaps, it has exactly   *)
(* one member, an admin.  (Nothing but the count of admins stops the owner   *)
(* from leaving, or another request from demoting them.)                     *)
PersonalIsPrivate ==
  \A w \in Workspace : kind[w] = "personal" =>
    \E u \in User : \A x \in User : member[w][x] = IF x = u THEN "admin" ELSE None

(* A workspace that is not live has no members left behind, and everyone who *)
(* is a member is a user.                                                    *)
MembersAreReal ==
  \A w \in Workspace, u \in User :
    member[w][u] # None => Live(w) /\ u \in known

(* A workspace loses its last admin only to a request during which its       *)
(* members changed: handlers that do not overlap keep an admin.              *)
AdminLossNeedsRace ==
  [][\A w \in Workspace :
       Live(w) /\ Live(w)' /\ Admins(w) # {} /\ Admins(w)' = {} =>
         \E h \in Handler : OnWorkspace(h, w) /\ req[h].raced /\ req'[h] = None]_vars

=============================================================================
