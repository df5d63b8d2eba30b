----------------------------------- MODULE Mdx -----------------------------------
(***************************************************************************)
(* What Excel puts on an axis (xmla/mdx.py) and what is made of it         *)
(* (xmla/classify.py).                                                     *)
(*                                                                         *)
(* A statement is taken as parsed: HIERARCHIZE, UNION, DISTINCT and braces *)
(* have become their arguments, DRILLDOWNLEVEL a mark on each member, and  *)
(* a parenthesised list of members a tuple.  A hierarchy is the sequence   *)
(* of its fields: an attribute hierarchy has one, a user hierarchy, defined*)
(* on a report, has more.  A member names the values on the way to it as   *)
(* MDX spells them.                                                        *)
(***************************************************************************)
EXTENDS Integers, Sequences, SequencesExt

CONSTANTS
  Field,      \* the fields of the view
  Hierarchy,  \* the hierarchies there are
  Value,      \* what a field can hold, spelled as text
  AllText,    \* the value that is spelled "All"
  Entry,      \* what a set can be made of, and sets in it
  Depth       \* how deep sets are nested in each other

ASSUME HierarchyAssumption ==
  \A h \in Hierarchy : h \in Seq(Field) /\ h # <<>> /\ IsInjective(h)

ASSUME ValueAssumption == Value \subseteq Nat /\ AllText \in Value

ASSUME DepthInNat == Depth \in Nat

(* Names in brackets that are no values.                                     *)
All == -2

Level(i) == -2 - i       \* the name of a hierarchy's i-th level

IsUser(h) == Len(h) > 1

Ref(h, rest, suffix) ==
  [kind |-> "member", hier |-> h, rest |-> rest, suffix |-> suffix, drilled |-> FALSE]

(* _is_all_ref, and a bare hierarchy, which means the same.  The key flag    *)
(* tells [All] from a value that is spelled so.                              *)
IsAll(m) == m.rest \in {<<>>, <<All>>}

(* In an attribute hierarchy only the text counts, but with Exists.          *)
TakenForAll(m) == IsAll(m) \/ (~ IsUser(m.hier) /\ m.rest = <<AllText>>)

(* A member that DRILLDOWNLEVEL marks is no longer a bare reference.         *)
IsRef(e) == e.kind = "member" /\ ~ e.drilled

(* A set is made of members, below All by a path, and of sets.               *)
PathsIn(h) == {p \in Seq(Value) : Len(p) \in 1..Len(h)}

MemberRef ==
  [kind : {"member"}, hier : Hierarchy, rest : Seq(Int), suffix : {"", "CHILDREN", "MEMBERS"},
   drilled : BOOLEAN]

RefTyped(m) ==
  /\ m \in MemberRef
  /\ IsAll(m) \/ IF m.suffix = "MEMBERS" THEN \E i \in DOMAIN m.hier : m.rest = <<Level(i)>>
                 ELSE m.rest \in PathsIn(m.hier)

EntryTyped(e) ==
  \/ e \in [kind : {"measure"}, name : Nat \ {0}]
  \/ e \in [kind : {"cross", "tuple", "except"}, args : Seq(Entry)]
  \/ e \in [kind : {"exists"}, args : Seq(Entry), among : Seq(Entry)]
  \/ e \in [kind : {"drillmember"}, args : Seq(Entry), drill : Seq(Entry),
            target : Hierarchy \cup {<<>>}]
  \/ e.kind = "member" /\ RefTyped(e)

ASSUME EntryAssumption == \A e \in Entry : EntryTyped(e)

Members(entries) == {e \in ToSet(entries) : IsRef(e)}

(* What one hierarchy contributes to an axis: the All member, the children   *)
(* of All, members by name; the parents a child shows under; and for a user  *)
(* hierarchy paths and depths that are expanded, collapsed, or listed flat.  *)
HierSpec(h) ==
  [hier |-> h, all |-> FALSE, children |-> FALSE, members |-> <<>>,
   parent |-> <<>>, limited |-> FALSE, include |-> {}, exclude |-> {},
   drilled |-> {}, undrilled |-> {}, depths |-> {}, flat |-> {}, paths |-> <<>>]

AddNew(seq, x) == IF Contains(seq, x) THEN seq ELSE Append(seq, x)

Path(m) == IF IsAll(m) THEN <<>> ELSE m.rest

UserMember(spec, m) ==
  CASE m.suffix = "CHILDREN" ->
         [spec EXCEPT !.drilled = @ \cup {Path(m)}, !.all = @ \/ IsAll(m)]
    [] m.suffix = "MEMBERS" /\ IsAll(m) ->
         [spec EXCEPT !.all = TRUE, !.drilled = @ \cup (IF m.rest = <<>> THEN {<<>>} ELSE {})]
    [] m.suffix = "MEMBERS" /\ ~ IsAll(m) ->
         [spec EXCEPT !.flat = @ \cup {i \in DOMAIN m.hier : m.rest = <<Level(i)>>}]
    [] m.suffix = "" ->
         [spec EXCEPT !.all = @ \/ IsAll(m),
                      !.paths = IF IsAll(m) THEN @ ELSE AddNew(@, m.rest),
                      !.drilled = @ \cup (IF m.drilled THEN {Path(m)} ELSE {})]

AttributeMember(spec, m) ==
  CASE m.suffix = "CHILDREN" -> [spec EXCEPT !.children = @ \/ TakenForAll(m)]
    [] m.suffix = "MEMBERS" ->
         [spec EXCEPT !.all = @ \/ TakenForAll(m),
                      !.children = @ \/ m.rest \in {<<>>, <<Level(1)>>}]
    [] m.suffix = "" /\ TakenForAll(m) -> [spec EXCEPT !.all = TRUE, !.children = @ \/ m.drilled]
    [] m.suffix = "" /\ ~ TakenForAll(m) -> [spec EXCEPT !.members = AddNew(@, m.rest[1])]

on_member(spec, m) == IF IsUser(m.hier) THEN UserMember(spec, m) ELSE AttributeMember(spec, m)
-----------------------------------------------------------------------------
(* A walk over a set: its entries in the order in which they take effect,    *)
(* each after its arguments.  One round opens one level of nesting.          *)

Nests(e) == e.kind \in {"cross", "tuple", "exists", "drillmember"} /\ e.args # <<>>

Opened(entries) ==
  FlattenSeq([i \in DOMAIN entries |->
    IF Nests(entries[i]) THEN entries[i].args \o <<[entries[i] EXCEPT !.args = <<>>]>>
    ELSE <<entries[i]>>])

(* What is left of an entry when its arguments are done is one, too.         *)
ASSUME ClosedAssumption ==
  \A e \in Entry : Nests(e) => [e EXCEPT !.args = <<>>] \in Entry

walk(entries) ==
  LET walked[n \in 0..Depth] == IF n = 0 THEN entries ELSE Opened(walked[n - 1]) IN
  walked[Depth]

(* leaf_values: the members a drill set names, by their text even if it is   *)
(* [All], and those in its complements.                                      *)
Named(drill) ==
  FlattenSeq([i \in DOMAIN drill |->
    IF IsRef(drill[i]) /\ drill[i].rest # <<>> THEN <<drill[i]>> ELSE <<>>])

Spelled(m) == IF m.rest = <<All>> THEN <<AllText>> ELSE m.rest

Excepted(drill) ==
  FlattenSeq([i \in DOMAIN drill |->
    IF drill[i].kind = "except" THEN Named(drill[i].args) ELSE <<>>])

OfUser(members) ==
  FlattenSeq([i \in DOMAIN members |-> IF IsUser(members[i].hier) THEN <<members[i]>> ELSE <<>>])

OfAttribute(members) ==
  FlattenSeq([i \in DOMAIN members |-> IF IsUser(members[i].hier) THEN <<>> ELSE <<members[i]>>])

Parents(drill) ==
  FlattenSeq([i \in DOMAIN drill |->
    OfAttribute(Named(IF drill[i].kind = "except" THEN drill[i].args ELSE <<drill[i]>>))])

(* What an entry has to do once its arguments are done, move by move.        *)
(* DRILLDOWNMEMBER opens or closes paths of user hierarchies; the target     *)
(* hierarchy gains its members, under the parents that the drill set names   *)
(* or under all but those in its complement; members that are named also     *)
(* belong to the axis.                                                       *)
As(members, kind) ==
  [i \in DOMAIN members |-> [members[i] EXCEPT !.kind = kind, !.rest = Spelled(members[i])]]

OnTarget(e, kind) == <<[kind |-> kind, hier |-> e.target, drill |-> e.drill]>>

Targeted(e) ==
  IF e.target = <<>> THEN <<>>
  ELSE OnTarget(e, "children") \o Parents(e.drill)
         \o (IF Parents(e.drill) = <<>> THEN <<>> ELSE OnTarget(e, "limit"))

OpenedOrClosed(drill) ==
  FlattenSeq([i \in DOMAIN drill |->
    IF drill[i].kind = "except" THEN As(OfUser(Named(drill[i].args)), "close")
    ELSE As(OfUser(Named(<<drill[i]>>)), "open")])

on_drillmember(e) == OpenedOrClosed(e.drill) \o Targeted(e)

Moves(e) ==
  CASE e.kind \in {"measure", "member", "exists"} -> <<e>>
    [] e.kind = "drillmember" -> on_drillmember(e)
    [] OTHER -> <<>>

Leaves(members) == {Spelled(m)[1] : m \in ToSet(OfAttribute(members))}

Limited(spec, drill) ==
  [spec EXCEPT !.parent = Last(Parents(drill)).hier,
               !.limited = \E e \in ToSet(drill) : IsRef(e),
               !.include = Leaves(Named(drill)),
               !.exclude = Leaves(Excepted(drill))]

Specified(spec, m) ==
  CASE m.kind = "member" -> on_member(spec, m)
    [] m.kind = "open" -> [spec EXCEPT !.drilled = @ \cup {m.rest}]
    [] m.kind = "close" ->
         [spec EXCEPT !.undrilled = @ \cup {m.rest}, !.depths = @ \cup {Len(m.rest)}]
    [] m.kind = "children" -> [spec EXCEPT !.children = TRUE]
    [] m.kind = "limit" -> Limited(spec, m.drill)

(* Mutant: _is_all_ref without the key flag.                                 *)
Below_KeyForgotten(entries) == {m \in Members(entries) : ~ TakenForAll(m)}

(* Exists(setA, setB): the members of B constrain the whole query, those of  *)
(* an attribute by a filter, those of a user hierarchy as whole paths.       *)
Below(entries) == {m \in Members(entries) : ~ IsAll(m)}

FiltersOf(among) ==
  {[field |-> h[1], values |-> {m.rest[1] : m \in {x \in Below(among) : x.hier = h}}] :
     h \in {m.hier : m \in {x \in Below(among) : ~ IsUser(x.hier)}}}

PathsOf(among) ==
  {[hier |-> m.hier, path |-> m.rest] : m \in {x \in Below(among) : IsUser(x.hier)}}

(* field_spec: hierarchies are kept in the order in which they are first met.*)
Apply(st, m) ==
  CASE m.kind = "measure" -> [st EXCEPT !.measures = Append(@, m.name)]
    [] m.kind = "exists" -> [st EXCEPT !.filters = @ \cup FiltersOf(m.among),
                                       !.sink = @ \cup PathsOf(m.among)]
    [] OTHER -> [st EXCEPT !.order = AddNew(@, m.hier),
                           !.spec[m.hier] = Specified(@, m)]

Unspecified ==
  [measures |-> <<>>, order |-> <<>>, spec |-> [h \in Hierarchy |-> HierSpec(h)],
   filters |-> {}, sink |-> {}]

(* A complement that is no part of a drill set is refused.                   *)
Unsupported(entries) == \E e \in ToSet(walk(entries)) : e.kind = "except"

AllMoves(walked) == FlattenSeq([i \in DOMAIN walked |-> Moves(walked[i])])

Made(moves) ==
  LET st[n \in 0..Len(moves)] == IF n = 0 THEN Unspecified ELSE Apply(st[n - 1], moves[n]) IN
  st[Len(moves)]

(* The hierarchies and measures of an axis, and the filters and paths that   *)
(* scope the query.                                                          *)
_classify(entries) == Made(AllMoves(walk(entries)))

Specs(st) == [i \in DOMAIN st.order |-> st.spec[st.order[i]]]
=============================================================================
