--------------------------- MODULE WorkspacesProofs ---------------------------
(***************************************************************************)
(* What Workspaces satisfies for every set of users, workspaces and        *)
(* overlapping handlers, by proof.                                         *)
(***************************************************************************)
EXTENDS Workspaces, FiniteSetTheorems, TLAPS

(* The actions of one handler, besides the ones that start it. *)
Proceed(h) ==
  \/ SignInFails(h) \/ SignInCommit(h) \/ GuardLastAdmin(h)
  \/ DeleteWorkspace(h) \/ AddMember(h) \/ SetMemberRole(h) \/ RemoveMember(h)
  \/ WriteFails(h)

(* Every step is one of these; stated once for the proofs by cases. *)
LEMMA NextCases ==
  ASSUME Next
  PROVE  \/ \E u \in User, w \in Workspace : Create(u, w)
         \/ \E h \in Handler, u \in User : SignIn(h, u)
         \/ \E h \in Handler, u, v \in User, w \in Workspace,
              op \in {"delete", "add", "role", "remove"}, r \in Role : Ask(h, u, w, op, v, r)
         \/ \E h \in Handler : Proceed(h)
  BY DEF Next, Proceed

(* A request on a workspace is a Request: its fields have their types. *)
LEMMA OnType ==
  ASSUME TypeOK, NEW h \in Handler, NEW w, OnWorkspace(h, w)
  PROVE  req[h] \in Request /\ w \in Workspace
  BY DEF TypeOK, OnWorkspace, Request, SignInRequest

LEMMA AtType ==
  ASSUME TypeOK, NEW h \in Handler, NEW op \in {"delete", "add", "role", "remove"}, At(h, op)
  PROVE  req[h] \in Request /\ OnWorkspace(h, req[h].w)
  BY DEF TypeOK, At, OnWorkspace, Request, SignInRequest

(* The new members of a workspace keep the types. *)
LEMMA MembersType ==
  ASSUME TypeOK, NEW h \in Handler, NEW w \in Workspace, NEW m \in [User -> Role \cup {None}],
         MembersBecome(h, w, m)
  PROVE  /\ member' \in [Workspace -> [User -> Role \cup {None}]]
         /\ req' \in [Handler -> Request \cup SignInRequest \cup {None}]
<1>1. ASSUME NEW g \in Handler, OnWorkspace(g, w)
      PROVE  [req[g] EXCEPT !.raced = TRUE] \in Request
  <2>1. req[g] \in Request
    BY <1>1, OnType
  <2> QED BY <2>1 DEF Request
<1>2. \A g \in Handler : req'[g] \in Request \cup SignInRequest \cup {None}
  BY <1>1 DEF MembersBecome, TypeOK
<1>3. req' \in [Handler -> Request \cup SignInRequest \cup {None}]
  BY <1>2 DEF MembersBecome
<1>4. member' \in [Workspace -> [User -> Role \cup {None}]]
  BY DEF MembersBecome, TypeOK
<1> QED BY <1>3, <1>4

LEMMA InitType == Init => TypeOK
  BY DEF Init, TypeOK, Role

LEMMA TypeStep == TypeOK /\ [Next]_vars => TypeOK'
<1> SUFFICES ASSUME TypeOK, [Next]_vars PROVE TypeOK'
  OBVIOUS
<1>1. CASE UNCHANGED vars
  BY <1>1 DEF vars, TypeOK
<1>2. ASSUME NEW u \in User, NEW w \in Workspace, Create(u, w) PROVE TypeOK'
  BY <1>2 DEF Create, Opened, TypeOK, Role
<1>3. ASSUME NEW h \in Handler, NEW u \in User, SignIn(h, u) PROVE TypeOK'
  <2>1. [op |-> "sign in", by |-> u, found |-> u \in known, personal |-> HasPersonal(u)]
          \in SignInRequest
    <3>1. HasPersonal(u) \in BOOLEAN
      BY DEF HasPersonal
    <3>2. (u \in known) \in BOOLEAN
      OBVIOUS
    <3> QED BY <3>1, <3>2 DEF SignInRequest
  <2> QED BY <1>3, <2>1 DEF SignIn, TypeOK
<1>4. ASSUME NEW h \in Handler, NEW u \in User, NEW v \in User, NEW w \in Workspace,
             NEW op \in {"delete", "add", "role", "remove"}, NEW r \in Role,
             Ask(h, u, w, op, v, r)
      PROVE  TypeOK'
  <2>1. member[w][v] \in Role \cup {None}
    BY DEF TypeOK
  <2>2. [op |-> op, by |-> u, w |-> w, to |-> v, role |-> r, was |-> member[w][v],
         step |-> IF op \in {"role", "remove"} THEN "count" ELSE "commit",
         raced |-> FALSE] \in Request
    BY <2>1 DEF Request
  <2> QED BY <1>4, <2>2 DEF Ask, TypeOK
<1>5. ASSUME NEW h \in Handler, Proceed(h) PROVE TypeOK'
  <2>1. CASE SignInFails(h)
    BY <2>1 DEF SignInFails, Done, TypeOK
  <2>2. CASE SignInCommit(h)
    <3>1. req[h].by \in User
      BY <2>2 DEF SignInCommit, TypeOK, Request, SignInRequest
    <3> QED BY <2>2, <3>1 DEF SignInCommit, Opened, Done, TypeOK, Role
  <2>3. CASE GuardLastAdmin(h)
    <3>1. req[h] \in Request
      BY <2>3 DEF GuardLastAdmin, TypeOK, Request, SignInRequest
    <3>2. [req[h] EXCEPT !.step = "commit"] \in Request
      BY <3>1 DEF Request
    <3> QED BY <2>3, <3>2 DEF GuardLastAdmin, Done, TypeOK
  <2>4. CASE DeleteWorkspace(h)
    <3>1. req[h] \in Request
      BY <2>4, AtType DEF DeleteWorkspace
    <3> DEFINE m == [u \in User |-> None]
    <3>2. req[h].w \in Workspace /\ m \in [User -> Role \cup {None}]
      BY <3>1 DEF Request
    <3>3. MembersBecome(h, req[h].w, m)
      BY <2>4 DEF DeleteWorkspace
    <3> HIDE DEF m
    <3> QED BY <2>4, <3>2, <3>3, MembersType DEF DeleteWorkspace, TypeOK
  <2>5. CASE AddMember(h)
    <3>1. req[h] \in Request
      BY <2>5, AtType DEF AddMember
    <3> DEFINE m == [member[req[h].w] EXCEPT ![req[h].to] = req[h].role]
    <3>2. /\ req[h].w \in Workspace
          /\ req[h].to \in User
          /\ m \in [User -> Role \cup {None}]
      BY <3>1 DEF Request, TypeOK
    <3>3. MembersBecome(h, req[h].w, m)
      BY <2>5 DEF AddMember
    <3> HIDE DEF m
    <3> QED BY <2>5, <3>2, <3>3, MembersType DEF AddMember, TypeOK
  <2>6. CASE SetMemberRole(h)
    <3>1. req[h] \in Request
      BY <2>6, AtType DEF SetMemberRole
    <3> DEFINE m == [member[req[h].w] EXCEPT ![req[h].to] = req[h].role]
    <3>2. req[h].w \in Workspace /\ m \in [User -> Role \cup {None}]
      BY <3>1 DEF Request, TypeOK
    <3>3. CASE Done(h) /\ UNCHANGED member
      BY <2>6, <3>3 DEF SetMemberRole, Done, TypeOK
    <3>4. CASE MembersBecome(h, req[h].w, m)
      <4> HIDE DEF m
      <4> QED BY <2>6, <3>2, <3>4, MembersType DEF SetMemberRole, TypeOK
    <3> QED BY <2>6, <3>3, <3>4 DEF SetMemberRole
  <2>7. CASE RemoveMember(h)
    <3>1. req[h] \in Request
      BY <2>7, AtType DEF RemoveMember
    <3> DEFINE m == [member[req[h].w] EXCEPT ![req[h].to] = None]
    <3>2. req[h].w \in Workspace /\ m \in [User -> Role \cup {None}]
      BY <3>1 DEF Request, TypeOK
    <3>3. MembersBecome(h, req[h].w, m)
      BY <2>7 DEF RemoveMember
    <3> HIDE DEF m
    <3> QED BY <2>7, <3>2, <3>3, MembersType DEF RemoveMember, TypeOK
  <2>8. CASE WriteFails(h)
    BY <2>8 DEF WriteFails, Done, TypeOK
  <2> QED BY <1>5, <2>1, <2>2, <2>3, <2>4, <2>5, <2>6, <2>7, <2>8 DEF Proceed
<1> QED BY <1>1, <1>2, <1>3, <1>4, <1>5, NextCases

(* The tables and the requests in progress keep their types. *)
THEOREM TypeCorrect == Spec => []TypeOK
  BY InitType, TypeStep, PTL DEF Spec
-----------------------------------------------------------------------------
(* Members are users of live workspaces: inductive as it stands. *)

LEMMA MembersStep == TypeOK /\ MembersAreReal /\ [Next]_vars => MembersAreReal'
<1> SUFFICES ASSUME TypeOK, MembersAreReal, [Next]_vars PROVE MembersAreReal'
  OBVIOUS
<1>1. CASE UNCHANGED vars
  BY <1>1 DEF vars, MembersAreReal, Live
<1>2. ASSUME NEW u \in User, NEW w \in Workspace, Create(u, w) PROVE MembersAreReal'
  <2>1. u \in known
    BY <1>2 DEF Create, HasPersonal, MembersAreReal
  <2> QED BY <1>2, <2>1 DEF Create, Opened, MembersAreReal, Live, TypeOK
<1>3. ASSUME NEW h \in Handler, NEW u \in User, SignIn(h, u) PROVE MembersAreReal'
  BY <1>3 DEF SignIn, MembersAreReal, Live
<1>4. ASSUME NEW h \in Handler, NEW u \in User, NEW v \in User, NEW w \in Workspace,
             NEW op \in {"delete", "add", "role", "remove"}, NEW r \in Role,
             Ask(h, u, w, op, v, r)
      PROVE  MembersAreReal'
  BY <1>4 DEF Ask, MembersAreReal, Live
<1>5. ASSUME NEW h \in Handler, Proceed(h) PROVE MembersAreReal'
  <2>1. CASE SignInFails(h) \/ GuardLastAdmin(h) \/ WriteFails(h)
    BY <2>1 DEF SignInFails, GuardLastAdmin, WriteFails, MembersAreReal, Live
  <2>2. CASE SignInCommit(h)
    <3>1. known \subseteq known' /\ req[h].by \in known'
      BY <2>2 DEF SignInCommit
    <3>2. CASE UNCHANGED <<kind, member>>
      BY <3>1, <3>2 DEF MembersAreReal, Live
    <3>3. ASSUME NEW w \in Workspace, Opened(w, "personal", req[h].by) PROVE MembersAreReal'
      BY <3>1, <3>3 DEF Opened, MembersAreReal, Live, TypeOK
    <3> QED BY <2>2, <3>2, <3>3 DEF SignInCommit
  <2>3. CASE DeleteWorkspace(h)
    <3>1. req[h] \in Request
      BY <2>3, AtType DEF DeleteWorkspace
    <3> QED BY <2>3, <3>1 DEF DeleteWorkspace, MembersBecome, MembersAreReal, Live, TypeOK, Request
  <2>4. CASE AddMember(h)
    <3>1. req[h] \in Request
      BY <2>4, AtType DEF AddMember
    <3> QED BY <2>4, <3>1 DEF AddMember, MembersBecome, MembersAreReal, Live, TypeOK, Request
  <2>5. CASE SetMemberRole(h)
    <3>1. req[h] \in Request
      BY <2>5, AtType DEF SetMemberRole
    <3> QED BY <2>5, <3>1 DEF SetMemberRole, MembersBecome, MembersAreReal, Live, TypeOK, Request
  <2>6. CASE RemoveMember(h)
    <3>1. req[h] \in Request
      BY <2>6, AtType DEF RemoveMember
    <3> QED BY <2>6, <3>1 DEF RemoveMember, MembersBecome, MembersAreReal, Live, TypeOK, Request
  <2> QED BY <1>5, <2>1, <2>2, <2>3, <2>4, <2>5, <2>6 DEF Proceed
<1> QED BY <1>1, <1>2, <1>3, <1>4, <1>5, NextCases

(* No workspace that is gone leaves members behind, and members are users. *)
THEOREM MembersCorrect == Spec => []MembersAreReal
<1>1. Init => MembersAreReal
  BY DEF Init, MembersAreReal
<1> QED BY <1>1, InitType, TypeStep, MembersStep, PTL DEF Spec

-----------------------------------------------------------------------------
(* Personal workspaces.  What stops the owner from leaving, or from being    *)
(* demoted, is that the requests that get as far as a personal workspace are *)
(* on the one member it has, and go past the count of admins only if they    *)
(* change nothing.                                                           *)
Harmless(h, w) ==
  /\ req[h].op \in {"role", "remove"}
  /\ req[h].was = "admin"
  /\ member[w][req[h].to] = "admin"
  /\ req[h].step = "commit" => req[h].op = "role" /\ req[h].role = "admin"

HarmlessRequests ==
  \A h \in Handler, w \in Workspace :
    OnWorkspace(h, w) /\ kind[w] = "personal" => Harmless(h, w)

PersonalInv == PersonalIsPrivate /\ HarmlessRequests

LEMMA OneAdmin ==
  ASSUME NEW w \in Workspace, NEW u \in User,
         \A x \in User : member[w][x] = IF x = u THEN "admin" ELSE None
  PROVE  Cardinality(Admins(w)) = 1
<1>1. Admins(w) = {u}
  BY SetAssumption DEF Admins, Role
<1> QED BY <1>1, FS_Singleton

(* A new workspace has one admin and no request refers to it. *)
LEMMA OpenedPrivate ==
  ASSUME TypeOK, PersonalInv, NEW w \in Workspace, NEW k \in {"personal", "shared"},
         NEW u \in User, Opened(w, k, u)
  PROVE  /\ PersonalIsPrivate'
         /\ \A v \in Workspace : kind'[v] = "personal" /\ v # w =>
              kind[v] = "personal" /\ member'[v] = member[v]
         /\ \A h \in Handler : ~ OnWorkspace(h, w)
<1>1. PersonalIsPrivate'
  <2> SUFFICES ASSUME NEW v \in Workspace, kind'[v] = "personal"
               PROVE  \E x \in User : \A y \in User :
                        member'[v][y] = IF y = x THEN "admin" ELSE None
    BY DEF PersonalIsPrivate
  <2>1. CASE v = w
    BY <2>1 DEF Opened, TypeOK
  <2>2. CASE v # w
    BY <2>2 DEF Opened, TypeOK, PersonalInv, PersonalIsPrivate
  <2> QED BY <2>1, <2>2
<1> QED BY <1>1 DEF Opened, TypeOK, Unused

(* ... so a new workspace leaves the requests that were there harmless.      *)
LEMMA OpenedHarmless ==
  ASSUME TypeOK, PersonalInv, NEW w \in Workspace, NEW k \in {"personal", "shared"},
         NEW u \in User, Opened(w, k, u),
         \A g \in Handler, x \in Workspace :
           OnWorkspace(g, x)' => OnWorkspace(g, x) /\ req'[g] = req[g]
  PROVE  HarmlessRequests'
<1> SUFFICES ASSUME NEW g \in Handler, NEW x \in Workspace, OnWorkspace(g, x)',
                    kind'[x] = "personal"
             PROVE  Harmless(g, x)'
  BY DEF HarmlessRequests
<1>1. OnWorkspace(g, x) /\ req'[g] = req[g]
  OBVIOUS
<1>2. kind[x] = "personal" /\ member'[x] = member[x]
  BY <1>1, OpenedPrivate
<1> QED BY <1>1, <1>2 DEF PersonalInv, HarmlessRequests, Harmless

(* A change of the members of a shared workspace leaves personal ones alone. *)
LEMMA SharedOnly ==
  ASSUME TypeOK, PersonalInv, NEW h \in Handler, NEW w \in Workspace, NEW m,
         kind[w] # "personal", MembersBecome(h, w, m),
         \A v \in Workspace : v # w => kind'[v] = kind[v],
         kind'[w] # "personal"
  PROVE  PersonalInv'
<1>1. \A v \in Workspace : kind'[v] = "personal" =>
        kind[v] = "personal" /\ v # w /\ member'[v] = member[v]
  BY DEF MembersBecome, TypeOK
<1>2. PersonalIsPrivate'
  BY <1>1 DEF PersonalIsPrivate, PersonalInv
<1>3. ASSUME NEW g \in Handler, NEW v \in Workspace, OnWorkspace(g, v)', v # w
      PROVE  OnWorkspace(g, v) /\ req'[g] = req[g]
  <2>1. g # h /\ req'[g] # None
    BY <1>3 DEF MembersBecome, OnWorkspace
  <2>2. CASE OnWorkspace(g, w)
    <3>1. req[g] \in Request /\ req[g].w = w
      BY <2>2, OnType DEF OnWorkspace
    <3>2. req'[g] = [req[g] EXCEPT !.raced = TRUE]
      BY <2>1, <2>2 DEF MembersBecome
    <3>3. req'[g].w = w
      BY <3>1, <3>2 DEF Request
    <3> QED BY <1>3, <3>3 DEF OnWorkspace
  <2>3. CASE ~ OnWorkspace(g, w)
    BY <1>3, <2>1, <2>3 DEF MembersBecome, OnWorkspace
  <2> QED BY <2>2, <2>3
<1>4. HarmlessRequests'
  BY <1>1, <1>3 DEF HarmlessRequests, Harmless, PersonalInv
<1> QED BY <1>2, <1>4 DEF PersonalInv

(* Nothing but the request of one handler changes, and that one is on no     *)
(* workspace any more.                                                       *)
LEMMA DoneHarmless ==
  ASSUME TypeOK, PersonalInv, NEW h \in Handler, Done(h), UNCHANGED <<kind, member>>
  PROVE  PersonalInv'
<1>1. \A g \in Handler, w \in Workspace :
        OnWorkspace(g, w)' => OnWorkspace(g, w) /\ req'[g] = req[g]
  BY DEF OnWorkspace, Done, TypeOK
<1> QED BY <1>1 DEF PersonalInv, PersonalIsPrivate, HarmlessRequests, Harmless

LEMMA PersonalStep == TypeOK /\ PersonalInv /\ [Next]_vars => PersonalInv'
<1> SUFFICES ASSUME TypeOK, PersonalInv, [Next]_vars PROVE PersonalInv'
  OBVIOUS
<1>1. CASE UNCHANGED vars
  BY <1>1 DEF vars, PersonalInv, PersonalIsPrivate, HarmlessRequests, Harmless, OnWorkspace
<1>2. ASSUME NEW u \in User, NEW w \in Workspace, Create(u, w) PROVE PersonalInv'
  <2>1. Opened(w, "shared", u) /\ req' = req
    BY <1>2 DEF Create
  <2>2. PersonalIsPrivate'
    BY <2>1, OpenedPrivate
  <2>3. HarmlessRequests'
    <3>1. \A g \in Handler, x \in Workspace :
            OnWorkspace(g, x)' => OnWorkspace(g, x) /\ req'[g] = req[g]
      BY <2>1 DEF OnWorkspace
    <3> QED BY <2>1, <3>1, OpenedHarmless
  <2> QED BY <2>2, <2>3 DEF PersonalInv
<1>3. ASSUME NEW h \in Handler, NEW u \in User, SignIn(h, u) PROVE PersonalInv'
  <2>1. \A g \in Handler, w \in Workspace :
          OnWorkspace(g, w)' => OnWorkspace(g, w) /\ req'[g] = req[g]
    BY <1>3 DEF SignIn, OnWorkspace, TypeOK
  <2>2. kind' = kind /\ member' = member
    BY <1>3 DEF SignIn
  <2>3. HarmlessRequests'
    BY <2>1, <2>2 DEF PersonalInv, HarmlessRequests, Harmless
  <2> QED BY <2>2, <2>3 DEF PersonalInv, PersonalIsPrivate
<1>4. ASSUME NEW h \in Handler, NEW u \in User, NEW v \in User, NEW w \in Workspace,
             NEW op \in {"delete", "add", "role", "remove"}, NEW r \in Role,
             Ask(h, u, w, op, v, r)
      PROVE  PersonalInv'
  <2>1. \A g \in Handler, x \in Workspace :
          OnWorkspace(g, x)' /\ g # h => OnWorkspace(g, x) /\ req'[g] = req[g]
    BY <1>4 DEF Ask, OnWorkspace, TypeOK
  <2>2. /\ req'[h].op = op /\ req'[h].w = w /\ req'[h].to = v
        /\ req'[h].was = member[w][v]
        /\ req'[h].step = IF op \in {"role", "remove"} THEN "count" ELSE "commit"
    BY <1>4 DEF Ask, TypeOK
  <2>3. ASSUME kind[w] = "personal"
        PROVE  /\ req'[h].op \in {"role", "remove"}
               /\ req'[h].was = "admin"
               /\ member[w][req'[h].to] = "admin"
               /\ req'[h].step # "commit"
    <3>1. op \in {"role", "remove"} /\ member[w][v] # None
      BY <1>4, <2>3 DEF Ask
    <3>2. member[w][v] = "admin"
      BY <2>3, <3>1 DEF PersonalInv, PersonalIsPrivate
    <3> QED BY <2>2, <3>1, <3>2
  <2>4. kind' = kind /\ member' = member
    BY <1>4 DEF Ask
  <2>5. ASSUME NEW g \in Handler, NEW x \in Workspace, OnWorkspace(g, x)', kind'[x] = "personal"
        PROVE  Harmless(g, x)'
    <3>1. CASE g = h
      <4>1. x = w
        BY <2>2, <2>5, <3>1 DEF OnWorkspace
      <4> QED BY <2>3, <2>4, <2>5, <3>1, <4>1 DEF Harmless
    <3>2. CASE g # h
      <4>1. OnWorkspace(g, x) /\ req'[g] = req[g] /\ Harmless(g, x)
        BY <2>1, <2>4, <2>5, <3>2 DEF PersonalInv, HarmlessRequests, Harmless
      <4> QED BY <2>4, <4>1 DEF Harmless
    <3> QED BY <3>1, <3>2
  <2> QED BY <2>4, <2>5 DEF PersonalInv, PersonalIsPrivate, HarmlessRequests, Harmless
<1>5. ASSUME NEW h \in Handler, Proceed(h) PROVE PersonalInv'
  <2>1. CASE SignInFails(h) \/ WriteFails(h)
    BY <2>1, DoneHarmless DEF SignInFails, WriteFails
  <2>2. CASE SignInCommit(h)
    <3>1. req[h].by \in User
      BY <2>2 DEF SignInCommit, TypeOK, Request, SignInRequest
    <3>2. CASE UNCHANGED <<kind, member>>
      BY <2>2, <3>2, DoneHarmless DEF SignInCommit
    <3>3. ASSUME NEW w \in Workspace, Opened(w, "personal", req[h].by) PROVE PersonalInv'
      <4>1. PersonalIsPrivate'
        BY <3>1, <3>3, OpenedPrivate
      <4>2. \A g \in Handler, x \in Workspace :
              OnWorkspace(g, x)' => OnWorkspace(g, x) /\ req'[g] = req[g]
        BY <2>2 DEF SignInCommit, Done, OnWorkspace, TypeOK
      <4>3. HarmlessRequests'
        BY <3>1, <3>3, <4>2, OpenedHarmless
      <4> QED BY <4>1, <4>3 DEF PersonalInv
    <3> QED BY <2>2, <3>2, <3>3 DEF SignInCommit
  <2>3. CASE GuardLastAdmin(h)
    <3>1. req[h] \in Request
      BY <2>3 DEF GuardLastAdmin, TypeOK, Request, SignInRequest
    <3>2. CASE Done(h)
      BY <2>3, <3>2, DoneHarmless DEF GuardLastAdmin
    <3>3. CASE /\ req' = [req EXCEPT ![h].step = "commit"]
               /\ ~ (TakesAdmin(req[h]) /\ Cardinality(Admins(req[h].w)) <= 1)
      <4>1. req'[h] = [req[h] EXCEPT !.step = "commit"]
        BY <3>3 DEF TypeOK
      <4>2. /\ req'[h].op = req[h].op /\ req'[h].w = req[h].w /\ req'[h].to = req[h].to
            /\ req'[h].was = req[h].was /\ req'[h].role = req[h].role
        BY <3>1, <4>1 DEF Request
      <4>3. \A g \in Handler : g # h => req'[g] = req[g]
        BY <3>3 DEF TypeOK
      <4>4. ASSUME kind[req[h].w] = "personal"
            PROVE  req[h].op = "role" /\ req[h].role = "admin"
        <5>1. req[h].w \in Workspace /\ OnWorkspace(h, req[h].w)
          BY <2>3, <3>1 DEF GuardLastAdmin, Request, OnWorkspace
        <5>2. Cardinality(Admins(req[h].w)) = 1
          BY <4>4, <5>1, OneAdmin DEF PersonalInv, PersonalIsPrivate
        <5>3. ~ TakesAdmin(req[h])
          BY <3>3, <5>2
        <5> QED BY <4>4, <5>1, <5>3 DEF PersonalInv, HarmlessRequests, Harmless, TakesAdmin
      <4>5. HarmlessRequests'
        <5> SUFFICES ASSUME NEW g \in Handler, NEW w \in Workspace, OnWorkspace(g, w)',
                            kind'[w] = "personal"
                     PROVE  Harmless(g, w)'
          BY DEF HarmlessRequests
        <5>1. kind' = kind /\ member' = member
          BY <2>3 DEF GuardLastAdmin
        <5>2. CASE g = h
          <6>0. OnWorkspace(h, w) /\ kind[w] = "personal"
            BY <2>3, <4>2, <5>1, <5>2 DEF GuardLastAdmin, OnWorkspace
          <6>1. OnWorkspace(h, w) /\ Harmless(h, w)
            BY <6>0 DEF PersonalInv, HarmlessRequests
          <6>2. req[h].op = "role" /\ req[h].role = "admin"
            BY <4>4, <5>1, <6>1 DEF OnWorkspace
          <6> QED BY <4>2, <5>1, <5>2, <6>1, <6>2 DEF Harmless
        <5>3. CASE g # h
          <6>1. OnWorkspace(g, w) /\ req'[g] = req[g]
            BY <4>3, <5>3 DEF OnWorkspace
          <6> QED BY <5>1, <6>1 DEF PersonalInv, HarmlessRequests, Harmless
        <5> QED BY <5>2, <5>3
      <4> QED BY <2>3, <4>5 DEF GuardLastAdmin, PersonalInv, PersonalIsPrivate
    <3> QED BY <2>3, <3>2, <3>3 DEF GuardLastAdmin
  <2>4. CASE DeleteWorkspace(h)
    <3>1. req[h].w \in Workspace /\ OnWorkspace(h, req[h].w) /\ req[h].op = "delete"
      BY <2>4, AtType DEF DeleteWorkspace, Request, At
    <3>2. kind[req[h].w] # "personal"
      BY <3>1 DEF PersonalInv, HarmlessRequests, Harmless
    <3> QED BY <2>4, <3>1, <3>2, SharedOnly DEF DeleteWorkspace, TypeOK
  <2>5. CASE AddMember(h)
    <3>1. req[h].w \in Workspace /\ OnWorkspace(h, req[h].w) /\ req[h].op = "add"
      BY <2>5, AtType DEF AddMember, Request, At
    <3>2. kind[req[h].w] # "personal"
      BY <3>1 DEF PersonalInv, HarmlessRequests, Harmless
    <3> QED BY <2>5, <3>1, <3>2, SharedOnly DEF AddMember, TypeOK
  <2>6. CASE SetMemberRole(h)
    <3>1. /\ req[h].w \in Workspace /\ OnWorkspace(h, req[h].w)
          /\ req[h].op = "role" /\ req[h].step = "commit"
      BY <2>6, AtType DEF SetMemberRole, Request, At
    <3>2. CASE req[h].role = req[h].was
      BY <2>6, <3>2, DoneHarmless DEF SetMemberRole
    <3>3. CASE req[h].role # req[h].was
      <4>1. kind[req[h].w] # "personal"
        BY <3>1, <3>3 DEF PersonalInv, HarmlessRequests, Harmless
      <4> QED BY <2>6, <3>1, <3>3, <4>1, SharedOnly DEF SetMemberRole, TypeOK
    <3> QED BY <3>2, <3>3
  <2>7. CASE RemoveMember(h)
    <3>1. /\ req[h].w \in Workspace /\ OnWorkspace(h, req[h].w)
          /\ req[h].op = "remove" /\ req[h].step = "commit"
      BY <2>7, AtType DEF RemoveMember, Request, At
    <3>2. kind[req[h].w] # "personal"
      BY <3>1 DEF PersonalInv, HarmlessRequests, Harmless
    <3> QED BY <2>7, <3>1, <3>2, SharedOnly DEF RemoveMember, TypeOK
  <2> QED BY <1>5, <2>1, <2>2, <2>3, <2>4, <2>5, <2>6, <2>7 DEF Proceed
<1> QED BY <1>1, <1>2, <1>3, <1>4, <1>5, NextCases

(* Whatever overlaps, a personal workspace has its owner as its one member. *)
THEOREM PersonalCorrect == Spec => []PersonalIsPrivate
<1>1. Init => PersonalInv
  BY DEF Init, PersonalInv, PersonalIsPrivate, HarmlessRequests, Harmless
<1>2. PersonalInv => PersonalIsPrivate
  BY DEF PersonalInv
<1> QED BY <1>1, <1>2, InitType, TypeStep, PersonalStep, PTL DEF Spec
-----------------------------------------------------------------------------
(* The last admin.  A request that nobody has raced still has in hand what   *)
(* it read: the member's role, and, past the count, that others are admins.  *)
Current(h, w) ==
  /\ member[w][req[h].to] = req[h].was
  /\ req[h].step = "commit" /\ TakesAdmin(req[h]) => Cardinality(Admins(w)) > 1

UnracedInv ==
  \A h \in Handler, w \in Workspace :
    OnWorkspace(h, w) /\ ~ req[h].raced /\ req[h].op \in {"role", "remove"} => Current(h, w)

(* A request that is left as it is, on a workspace whose members are too.    *)
LEMMA CurrentKept ==
  ASSUME UnracedInv, NEW h \in Handler, NEW w \in Workspace, OnWorkspace(h, w),
         req'[h] = req[h], member'[w] = member[w],
         ~ req[h].raced, req[h].op \in {"role", "remove"}
  PROVE  Current(h, w)'
<1>1. Current(h, w)
  BY DEF UnracedInv
<1>2. Admins(w)' = Admins(w)
  BY DEF Admins
<1> QED BY <1>1, <1>2 DEF Current, TakesAdmin

(* Whoever changes the members of a workspace races the others on it.        *)
LEMMA RacedOthers ==
  ASSUME TypeOK, UnracedInv, NEW h \in Handler, NEW w \in Workspace, NEW m,
         MembersBecome(h, w, m)
  PROVE  UnracedInv'
<1> SUFFICES ASSUME NEW g \in Handler, NEW v \in Workspace, OnWorkspace(g, v)',
                    ~ req'[g].raced, req'[g].op \in {"role", "remove"}
             PROVE  Current(g, v)'
  BY DEF UnracedInv
<1>1. g # h /\ req'[g] # None
  BY DEF MembersBecome, OnWorkspace
<1>2. ~ OnWorkspace(g, w)
  <2> SUFFICES ASSUME OnWorkspace(g, w) PROVE FALSE
    OBVIOUS
  <2>1. req[g] \in Request
    BY OnType
  <2>2. req'[g] = [req[g] EXCEPT !.raced = TRUE]
    BY <1>1 DEF MembersBecome
  <2> QED BY <2>1, <2>2 DEF Request
<1>3. req'[g] = req[g] /\ OnWorkspace(g, v)
  BY <1>1, <1>2 DEF MembersBecome, OnWorkspace
<1>4. member'[v] = member[v]
  BY <1>2, <1>3 DEF MembersBecome, OnWorkspace, TypeOK
<1> QED BY <1>3, <1>4, CurrentKept

(* The other requests stay, and members change only where there are none.    *)
LEMMA UnracedKept ==
  ASSUME TypeOK, UnracedInv,
         \A g \in Handler, v \in Workspace :
           OnWorkspace(g, v)' => OnWorkspace(g, v) /\ req'[g] = req[g] /\ member'[v] = member[v]
  PROVE  UnracedInv'
  BY CurrentKept DEF UnracedInv

LEMMA UnracedStep == TypeOK /\ UnracedInv /\ [Next]_vars => UnracedInv'
<1> SUFFICES ASSUME TypeOK, UnracedInv, [Next]_vars PROVE UnracedInv'
  OBVIOUS
<1>1. CASE UNCHANGED vars
  BY <1>1, UnracedKept DEF vars, OnWorkspace
<1>2. ASSUME NEW u \in User, NEW w \in Workspace, Create(u, w) PROVE UnracedInv'
  BY <1>2, UnracedKept DEF Create, Opened, Unused, OnWorkspace, TypeOK
<1>3. ASSUME NEW h \in Handler, NEW u \in User, SignIn(h, u) PROVE UnracedInv'
  BY <1>3, UnracedKept DEF SignIn, OnWorkspace, TypeOK
<1>4. ASSUME NEW h \in Handler, NEW u \in User, NEW v \in User, NEW w \in Workspace,
             NEW op \in {"delete", "add", "role", "remove"}, NEW r \in Role,
             Ask(h, u, w, op, v, r)
      PROVE  UnracedInv'
  <2> SUFFICES ASSUME NEW g \in Handler, NEW x \in Workspace, OnWorkspace(g, x)',
                      ~ req'[g].raced, req'[g].op \in {"role", "remove"}
               PROVE  Current(g, x)'
    BY DEF UnracedInv
  <2>1. CASE g = h
    <3>1. /\ req'[h].op = op /\ req'[h].w = w /\ req'[h].to = v
          /\ req'[h].was = member[w][v]
          /\ req'[h].step = IF op \in {"role", "remove"} THEN "count" ELSE "commit"
      BY <1>4 DEF Ask, TypeOK
    <3>2. x = w /\ member' = member
      BY <1>4, <2>1, <3>1 DEF Ask, OnWorkspace
    <3> QED BY <2>1, <3>1, <3>2 DEF Current
  <2>2. CASE g # h
    <3>1. req'[g] = req[g] /\ member' = member
      BY <1>4, <2>2 DEF Ask, TypeOK
    <3>2. OnWorkspace(g, x)
      BY <3>1 DEF OnWorkspace
    <3> QED BY <3>1, <3>2, CurrentKept
  <2> QED BY <2>1, <2>2
<1>5. ASSUME NEW h \in Handler, Proceed(h) PROVE UnracedInv'
  <2>1. ASSUME Done(h), UNCHANGED member PROVE UnracedInv'
    BY <2>1, UnracedKept DEF Done, OnWorkspace, TypeOK
  <2>2. CASE SignInFails(h) \/ WriteFails(h)
    BY <2>1, <2>2 DEF SignInFails, WriteFails
  <2>3. CASE SignInCommit(h)
    <3>1. \A g \in Handler, v \in Workspace :
            OnWorkspace(g, v)' => OnWorkspace(g, v) /\ req'[g] = req[g]
      BY <2>3 DEF SignInCommit, Done, OnWorkspace, TypeOK
    <3>2. ASSUME NEW w \in Workspace, Opened(w, "personal", req[h].by) PROVE UnracedInv'
      <4>1. \A g \in Handler, v \in Workspace : OnWorkspace(g, v) => member'[v] = member[v]
        BY <3>2 DEF Opened, Unused, TypeOK
      <4> QED BY <3>1, <4>1, UnracedKept
    <3> QED BY <2>1, <2>3, <3>2 DEF SignInCommit
  <2>4. CASE GuardLastAdmin(h)
    <3>1. req[h] \in Request
      BY <2>4 DEF GuardLastAdmin, TypeOK, Request, SignInRequest
    <3>2. CASE Done(h)
      BY <2>1, <2>4, <3>2 DEF GuardLastAdmin
    <3>3. CASE /\ req' = [req EXCEPT ![h].step = "commit"]
               /\ ~ (TakesAdmin(req[h]) /\ Cardinality(Admins(req[h].w)) <= 1)
      <4>1. req'[h] = [req[h] EXCEPT !.step = "commit"]
        BY <3>3 DEF TypeOK
      <4>2. /\ req'[h].op = req[h].op /\ req'[h].w = req[h].w /\ req'[h].to = req[h].to
            /\ req'[h].was = req[h].was /\ req'[h].role = req[h].role
            /\ req'[h].raced = req[h].raced
        BY <3>1, <4>1 DEF Request
      <4>3. member' = member
        BY <2>4 DEF GuardLastAdmin
      <4> SUFFICES ASSUME NEW g \in Handler, NEW x \in Workspace, OnWorkspace(g, x)',
                          ~ req'[g].raced, req'[g].op \in {"role", "remove"}
                   PROVE  Current(g, x)'
        BY DEF UnracedInv
      <4>4. CASE g = h
        <5>1. OnWorkspace(h, x) /\ ~ req[h].raced /\ req[h].op \in {"role", "remove"}
          BY <2>4, <4>2, <4>4 DEF GuardLastAdmin, OnWorkspace
        <5>2. member[x][req[h].to] = req[h].was
          BY <5>1 DEF UnracedInv, Current
        <5>3. IsFiniteSet(Admins(x)) /\ Cardinality(Admins(x)) \in Nat
          <6>1. Admins(x) \subseteq User
            BY DEF Admins
          <6> QED BY <6>1, SetAssumption, FS_Subset, FS_CardinalityType
        <5>4. TakesAdmin(req[h]) => Cardinality(Admins(x)) > 1
          <6>1. req[h].w = x
            BY <5>1 DEF OnWorkspace
          <6>2. TakesAdmin(req[h]) => ~ (Cardinality(Admins(x)) <= 1)
            BY <3>3, <6>1, Zenon
          <6> QED BY <5>3, <6>2
        <5>5. TakesAdmin(req[h])' = TakesAdmin(req[h]) /\ Admins(x)' = Admins(x)
          BY <4>2, <4>3 DEF TakesAdmin, Admins
        <5>6. member'[x][req'[h].to] = req'[h].was
          BY <4>2, <4>3, <5>2
        <5>7. TakesAdmin(req[h])' => Cardinality(Admins(x))' > 1
          BY <5>4, <5>5
        <5> QED BY <4>4, <5>6, <5>7 DEF Current
      <4>5. CASE g # h
        <5>1. OnWorkspace(g, x) /\ req'[g] = req[g]
          BY <3>3, <4>5 DEF OnWorkspace, TypeOK
        <5> QED BY <4>3, <5>1, CurrentKept
      <4> QED BY <4>4, <4>5
    <3> QED BY <2>4, <3>2, <3>3 DEF GuardLastAdmin
  <2>5. CASE DeleteWorkspace(h) \/ AddMember(h) \/ RemoveMember(h)
    <3>1. req[h] \in Request
      BY <2>5, AtType DEF DeleteWorkspace, AddMember, RemoveMember
    <3>2. \E m : MembersBecome(h, req[h].w, m)
      BY <2>5 DEF DeleteWorkspace, AddMember, RemoveMember
    <3> QED BY <3>1, <3>2, RacedOthers DEF Request
  <2>6. CASE SetMemberRole(h)
    <3>1. req[h] \in Request
      BY <2>6, AtType DEF SetMemberRole
    <3>2. (Done(h) /\ UNCHANGED member) \/ (\E m : MembersBecome(h, req[h].w, m))
      BY <2>6 DEF SetMemberRole
    <3> QED BY <2>1, <3>1, <3>2, RacedOthers DEF Request
  <2> QED BY <1>5, <2>2, <2>3, <2>4, <2>5, <2>6 DEF Proceed
<1> QED BY <1>1, <1>2, <1>3, <1>4, <1>5, NextCases

(* Two admins, one of them taken away: there is still one.                   *)
LEMMA AnotherAdmin ==
  ASSUME NEW w \in Workspace, NEW u \in User, Cardinality(Admins(w)) > 1
  PROVE  \E x \in User : x # u /\ member[w][x] = "admin"
<1> SUFFICES ASSUME \A x \in Admins(w) : x = u PROVE FALSE
  BY DEF Admins
<1>1. Admins(w) = {} \/ Admins(w) = {u}
  OBVIOUS
<1>2. Cardinality({}) = 0 /\ Cardinality({u}) = 1
  BY FS_EmptySet, FS_Singleton
<1> QED BY <1>1, <1>2

(* What the action property says of one workspace. *)
LosesAdmins(w) == Live(w) /\ Live(w)' /\ Admins(w) # {} /\ Admins(w)' = {}
RaceOn(w) == \E h \in Handler : OnWorkspace(h, w) /\ req[h].raced /\ req'[h] = None

LEMMA RaceStep ==
  ASSUME TypeOK, UnracedInv, [Next]_vars, NEW w \in Workspace, LosesAdmins(w)
  PROVE  RaceOn(w)
<1>1. PICK a \in User : member[w][a] = "admin"
  BY DEF LosesAdmins, Admins
<1>2. \A x \in User : member'[w][x] # "admin"
  BY DEF LosesAdmins, Admins
<1>3. member'[w] # member[w]
  BY <1>1, <1>2
<1>4. PICK h \in Handler : Proceed(h)
  <2>1. ASSUME NEW u \in User, NEW v \in Workspace, Create(u, v) PROVE FALSE
    BY <1>3, <2>1 DEF Create, Opened, Unused, TypeOK, LosesAdmins, Live
  <2>2. ASSUME NEW g \in Handler, NEW u \in User, SignIn(g, u) PROVE FALSE
    BY <1>3, <2>2 DEF SignIn
  <2>3. ASSUME NEW g \in Handler, NEW u \in User, NEW v \in User, NEW x \in Workspace,
               NEW op \in {"delete", "add", "role", "remove"}, NEW r \in Role,
               Ask(g, u, x, op, v, r)
        PROVE  FALSE
    BY <1>3, <2>3 DEF Ask
  <2>4. Next
    BY <1>3 DEF vars
  <2> QED BY <2>1, <2>2, <2>3, <2>4, NextCases
<1>5. CASE SignInCommit(h)
  BY <1>3, <1>5 DEF SignInCommit, Opened, Unused, TypeOK, LosesAdmins, Live
<1>6. CASE SignInFails(h) \/ GuardLastAdmin(h) \/ WriteFails(h)
  BY <1>3, <1>6 DEF SignInFails, GuardLastAdmin, WriteFails
<1>7. ASSUME NEW m, MembersBecome(h, req[h].w, m)
      PROVE  req[h].w = w /\ member'[w] = m /\ req'[h] = None
  BY <1>3, <1>7 DEF MembersBecome, TypeOK
<1>8. ASSUME DeleteWorkspace(h) PROVE FALSE
  BY <1>7, <1>8 DEF DeleteWorkspace, LosesAdmins, Live, TypeOK
<1>9. ASSUME AddMember(h) PROVE FALSE
  <2>0. req[h] \in Request
    BY <1>9, AtType DEF AddMember
  <2>1. /\ req[h].w = w
        /\ member'[w] = [member[req[h].w] EXCEPT ![req[h].to] = req[h].role]
        /\ member[req[h].w][req[h].to] = None
    BY <1>7, <1>9 DEF AddMember
  <2>2. a # req[h].to
    BY <1>1, <2>1, SetAssumption DEF Role
  <2> QED BY <1>1, <1>2, <2>0, <2>1, <2>2 DEF TypeOK
<1>10. ASSUME SetMemberRole(h) \/ RemoveMember(h) PROVE RaceOn(w)
  <2>1. req[h] \in Request
    BY <1>10, AtType DEF SetMemberRole, RemoveMember
  <2>2. /\ req[h].w = w /\ req'[h] = None
        /\ req[h].step = "commit" /\ req[h].op \in {"role", "remove"}
        /\ OnWorkspace(h, w)
        /\ \/ req[h].op = "remove" /\ member'[w] = [member[w] EXCEPT ![req[h].to] = None]
           \/ /\ req[h].op = "role" /\ req[h].role # req[h].was
              /\ member'[w] = [member[w] EXCEPT ![req[h].to] = req[h].role]
    BY <1>3, <1>7, <1>10 DEF SetMemberRole, RemoveMember, At, OnWorkspace
  <2>3. SUFFICES ASSUME ~ req[h].raced PROVE FALSE
    BY <2>2 DEF RaceOn
  <2>4. member[w][req[h].to] = req[h].was
    BY <2>2, <2>3 DEF UnracedInv, Current
  <2>5. a = req[h].to
    <3>1. \E r \in Role \cup {None} : member'[w] = [member[w] EXCEPT ![req[h].to] = r]
      BY <2>1, <2>2 DEF Request
    <3> QED BY <1>1, <1>2, <3>1 DEF TypeOK
  <2>6. req[h].was = "admin" /\ (req[h].op = "role" => req[h].role # "admin")
    BY <1>1, <2>2, <2>4, <2>5
  <2>7. TakesAdmin(req[h])
    BY <2>2, <2>6 DEF TakesAdmin
  <2>8. Cardinality(Admins(w)) > 1
    BY <2>2, <2>3, <2>7 DEF UnracedInv, Current
  <2>9. PICK x \in User : x # a /\ member[w][x] = "admin"
    BY <2>8, AnotherAdmin
  <2>10. member'[w][x] = member[w][x]
    <3>1. \E r : member'[w] = [member[w] EXCEPT ![a] = r]
      BY <2>2, <2>5
    <3> QED BY <2>9, <3>1 DEF TypeOK
  <2> QED BY <1>2, <2>9, <2>10
<1> QED BY <1>4, <1>5, <1>6, <1>8, <1>9, <1>10 DEF Proceed

(* A workspace loses its last admin only to a request that was raced.        *)
THEOREM AdminLossCorrect == Spec => AdminLossNeedsRace
<1>1. Init => UnracedInv
  BY DEF Init, UnracedInv, OnWorkspace
<1>2. TypeOK /\ UnracedInv /\ [Next]_vars =>
        [\A w \in Workspace :
           Live(w) /\ Live(w)' /\ Admins(w) # {} /\ Admins(w)' = {} =>
             \E h \in Handler : OnWorkspace(h, w) /\ req[h].raced /\ req'[h] = None]_vars
  BY RaceStep DEF LosesAdmins, RaceOn
<1> QED BY <1>1, <1>2, InitType, TypeStep, UnracedStep, PTL DEF Spec, AdminLossNeedsRace
=============================================================================
