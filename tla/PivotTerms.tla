-------------------------------- MODULE PivotTerms --------------------------------
(***************************************************************************)
(* What the proofs about module Pivot speak of: the types of its values,   *)
(* what its loops have come to after some of their rounds, and what each   *)
(* of its operators makes of keys, members and tuples.                     *)
(***************************************************************************)
EXTENDS Pivot

(* The four loops of the model (a walk, the moves of an axis, a descent, the *)
(* hidden paths) as one: what they start from, a round, the rounds they      *)
(* make.                                                                     *)
Start(how, a, b, c) ==
  IF how = "walk" THEN a
  ELSE IF how = "made" THEN Unspecified
  ELSE IF how = "deeper" THEN <<[key |-> c, open |-> TRUE]>>
  ELSE ShownKeys(a, b)

(* One round of each loop.                                                   *)
Put(how, a, b, w, n) ==
  IF how = "walk" THEN Opened(w)
  ELSE IF how = "made" THEN Apply(w, a[n])
  ELSE IF how = "deeper" THEN Deeper(a, b, w)
  ELSE WithHidden(a, b, w, ByLength(b)[n])

(* The function g is n rounds of the loop.                                   *)
Repeat(how, a, b, c, n, g) == g = [k \in 0..n |-> IF k = 0 THEN Start(how, a, b, c) ELSE Put(how, a, b, g[k - 1], k)]

(* What the loop has come to after n rounds.                                 *)
LoopEnd(how, a, b, c, n) == (CHOOSE g : Repeat(how, a, b, c, n, g))[n]

(* The same, round by round.                                                 *)
Steps(how, a, b, c, n, g) == g[0] = Start(how, a, b, c) /\ \A k \in 1..n : g[k] = Put(how, a, b, g[k - 1], k)

(* The rounds of a descent from a prefix.                                    *)
Descends(rows, spec, prefix, g) ==
  /\ g[0] = <<[key |-> prefix, open |-> TRUE]>>
  /\ \A n \in 1..Len(spec.hier) : g[n] = Deeper(rows, spec, g[n - 1])
  /\ Descend(rows, spec, prefix) =
       [i \in 1..(Len(g[Len(spec.hier)]) - 1) |-> g[Len(spec.hier)][i + 1].key]

(* A function that lists n elements of S.                                    *)
Lists(f, n, S) == f \in [1..n -> S]

(* What FlattenSeq computes, row after row.                                  *)
IsFlat(rows, g) == g = [i \in 1..Len(rows) |-> IF i = 1 THEN rows[i] ELSE g[i - 1] \o rows[i]]

(* The function g flattens rows, one row per round.                          *)
FlatBy(rows, n, g) ==
  /\ FlattenSeq(rows) = g[n]
  /\ \A k \in 1..n : g[k] = IF k = 1 THEN rows[k] ELSE g[k - 1] \o rows[k]

(* A sequence of sequences, one behind the other.                            *)
Joined(rows, n) == UNION {ToSet(rows[i]) : i \in 1..n}

(* Two keys differ at level i first, and there a comes before b.             *)
FirstAt(a, b, i) == Less(a[i], b[i]) /\ \A j \in 1..(i - 1) : a[j] = b[j]

(* Keys of n levels.                                                         *)
Keys(n) == [1..n -> Int]

(* How many keys of a set come before one of them.                           *)
Rank(keys, k) == Cardinality({x \in keys : Before(x, k)})

(* References to members of a hierarchy, with a rest the hierarchy can have. *)
Refs == {m \in MemberRef : RefTyped(m)}

(* Keys of a hierarchy, of any of its lengths; a key may hold NULL.          *)
KeysIn(h) == {p \in Seq(Int) : Len(p) <= Len(h)}

(* What an entry of a drill set names, by itself or in a complement.         *)
EntryNamed(e) == Named(IF e.kind = "except" THEN e.args ELSE <<e>>)

(* The moves.                                                                *)
Mark == [kind : {"open", "close"}, hier : Hierarchy, rest : Seq(Int),
         suffix : {"", "CHILDREN", "MEMBERS"}, drilled : BOOLEAN]

(* Moves that open or close a path.                                          *)
Marks == {m \in Mark : Len(m.rest) <= Len(m.hier) /\ Null \notin ToSet(m.rest)}

(* Moves that ask for the children on a target hierarchy.                    *)
Targets == [kind : {"children"}, hier : Hierarchy, drill : Seq(Entry)]

(* Moves that limit a drill to its parents.                                  *)
Limits == {m \in [kind : {"limit"}, hier : Hierarchy, drill : Seq(Entry)] : Parents(m.drill) # <<>>}

(* What the classification of an axis is made of.                            *)
Move == {e \in Entry : e.kind \in {"measure", "member", "exists"}} \cup Refs \cup Marks \cup Targets \cup Limits

(* What DRILLDOWNMEMBER has to do.                                           *)
DrillMove == Refs \cup Marks \cup Targets \cup Limits

(* What is gathered of a hierarchy.                                          *)
SpecSet(h) ==
  [hier : {h}, all : BOOLEAN, children : BOOLEAN, members : Seq(Value),
   parent : {g \in Hierarchy : ~ IsUser(g)} \cup {<<>>}, limited : BOOLEAN, include : SUBSET Int, exclude : SUBSET Int,
   drilled : SUBSET KeysIn(h), undrilled : SUBSET KeysIn(h), depths : SUBSET Nat, flat : SUBSET Nat,
   paths : Seq(PathsIn(h))]

(* No key of them goes through NULL.                                         *)
NoneNull(keys) == \A p \in keys : Null \notin ToSet(p)

(* The same, with finitely many drilled paths.                               *)
SpecIn(h) == {s \in SpecSet(h) : IsFiniteSet(s.drilled) /\ NoneNull(s.drilled)}

(* The state of a classification.                                            *)
StateOK(st) ==
  /\ st = [measures |-> st.measures, order |-> st.order, spec |-> st.spec,
           filters |-> st.filters, sink |-> st.sink]
  /\ st.measures \in Seq(Nat \ {0}) /\ st.order \in Seq(Hierarchy)
  /\ \A i, j \in DOMAIN st.order : st.order[i] = st.order[j] => i = j
  /\ st.spec = [h \in Hierarchy |-> st.spec[h]]
  /\ \A h \in Hierarchy : st.spec[h] \in SpecIn(h)

(* Tables: finite sets of rows.                                              *)
Table == {rows \in SUBSET [Field -> Value \cup {Null}] : IsFiniteSet(rows)}

(* The members a hierarchy can have.                                         *)
Mems(h) == {Member(h, p, d) : p \in KeysIn(h), d \in BOOLEAN}

(* The nodes of a descent: a key, and whether to look under it.              *)
Nodes(h) == [key : KeysIn(h), open : BOOLEAN]

(* The tuples of an axis: one member of each of its hierarchies.             *)
AnyMem == UNION {Mems(h) : h \in Hierarchy}

(* Tuples of an axis: a member of each hierarchy, in the order of the axis.  *)
TupSet(st) == {t \in [1..Len(st.order) -> AnyMem] : \A i \in 1..Len(st.order) : t[i].hier = st.order[i]}

(* The same with a measure.                                                  *)
AxisTup(st) == [members : TupSet(st), measure : Nat]

(* The axes of an answer are axes of the statement, in their order.          *)
Places(n, T, N, k) ==
  /\ DOMAIN N = 1..Len(k) /\ Len(N) = Len(k) /\ Len(k) \in 0..n
  /\ \A j \in 1..Len(k) : k[j] \in 1..n /\ N[j] = T[k[j]] /\ T[k[j]] # <<>>
  /\ \A i, j \in 1..Len(k) : i < j => k[i] < k[j]
  /\ \A i \in 1..n : T[i] # <<>> => \E j \in 1..Len(k) : k[j] = i

(* The parts that an answer is made of.                                      *)
Scoped(d, s) == KeptRows(d, Scope(d, s, Classified(s)))

(* The measures a statement asks for.                                        *)
Wanted(s) == MeasuresOf(Classified(s), s.slicer)

(* The tuples of every axis of it.                                           *)
AllTuples(d, s) == [i \in 1..Len(s.axes) |-> Tuples(Scoped(d, s), Classified(s)[i], Wanted(s))]

(* The axes that have tuples.                                                *)
Shown(d, s) == NonEmpty(AllTuples(d, s))

(* What Pivot keeps: the answer is the answer to the statement.              *)
Replied == data \in Data /\ (stm # Nothing => stm \in Statement /\ answer = execute(data, stm))

(* A filter for each level of a path.                                        *)
FiltersAlong(h, p) == {[field |-> h[i], values |-> {p[i]}] : i \in DOMAIN p}

(* The rows a path stands for.                                               *)
BelowPath(d, h, p) == {r \in d : \A i \in 1..Len(p) : r[h[i]] = p[i]}

(* Members of different hierarchies have no field in common.                 *)
Apart(ms) == \A l, m \in ms : l # m => l.hier # m.hier /\ ToSet(l.hier) \cap ToSet(m.hier) = {}

(* The members of a cell are apart when different hierarchies on the axes    *)
(* have no field in common.                                                  *)
Hiers2(s) == UNION {ToSet(st.order) : st \in ToSet(Classified(s))}

(* No two hierarchies of a statement's axes share a field.                   *)
FieldsApart(s) == \A g, h \in Hiers2(s) : g # h => ToSet(g) \cap ToSet(h) = {}

(* A place has a tuple on each axis.                                         *)
AtPlace(axes, at) == \A i \in DOMAIN axes : at[i] \in DOMAIN axes[i]

(* The ordinal of a place, and the places there are.                         *)
Shape(axes) == [i \in DOMAIN axes |-> Len(axes[i])]

(* At most two axes, none of them empty.                                     *)
IsAxes(axes) ==
  /\ Len(axes) \in 0..2 /\ DOMAIN axes = 1..Len(axes) /\ (axes = <<>> <=> Len(axes) = 0)
  /\ \A i \in 1..Len(axes) : Len(axes[i]) \in Nat \ {0} /\ DOMAIN axes[i] = 1..Len(axes[i])

(* The cell at a place.                                                      *)
Cell(rows, axes, measures, at) ==
  [ordinal |-> Ordinal(axes, at), measure |-> MetricOf(TuplesAt(axes, at), measures), rows |-> CountedAt(rows, axes, at)]

(* What members that are only named come to.                                 *)
Plain == {e \in Refs : Names(e)}

(* The values plain members name of an attribute hierarchy.                  *)
LeafsOf(D, h) == {m.rest[1] : m \in {x \in D : x.hier = h /\ ~ IsUser(h) /\ ~ TakenForAll(x)}}

(* The paths plain members name of a user hierarchy.                         *)
StemsOf(D, h) == {m.rest : m \in {x \in D : x.hier = h /\ IsUser(h) /\ ~ IsAll(x)}}

(* After the moves D.                                                        *)
Holding(st, D) ==
  /\ StateOK(st) /\ st.filters = {} /\ st.sink = {} /\ ToSet(st.order) = {m.hier : m \in D}
  /\ \A h \in Hierarchy : /\ ToSet(st.spec[h].members) = LeafsOf(D, h)
                          /\ ToSet(st.spec[h].paths) = StemsOf(D, h)

(* A row passes the filters.                                                 *)
Passes(row, filters) == \A f \in filters : row[f.field] \in f.values

(* A row is one of every set of combinations.                                *)
Fits(row, combos) ==
  \A c \in combos : Null \notin ToSet(Along(c.fields, row)) /\ Along(c.fields, row) \in c.rows

(* A row meets a part of the scope.                                          *)
Meets(row, part) == Passes(row, part.filters) /\ Fits(row, part.combos)

(* A row passes what the slicer's members ask.                               *)
Sliced(row, slicer) == \A m \in Members(slicer) : Passes(row, _member_filter(m))

(* Members that are named, of a value that is not empty.                     *)
Solid == {m \in Plain : ~ IsAll(m) /\ Blank \notin ToSet(m.rest)}

(* Members of attributes: one filter for each hierarchy.                     *)
TakenFilters(L) ==
  {[field |-> h[1], values |-> {m.rest[1] : m \in {x \in L : x.hier = h}}] :
     h \in {m.hier : m \in {x \in L : ~ IsUser(x.hier)}}}

(* The paths the members of a set take.                                      *)
TakenPaths(L) == {[hier |-> m.hier, path |-> m.rest] : m \in {x \in L : IsUser(x.hier)}}

(* One of the set's members of this hierarchy stands for the row.            *)
InHier(row, L, h) == \E m \in L : m.hier = h /\ InMember(row, m)

(* The tuples of a set that are taken as combinations.                       *)
Taken(entries) == {e \in Elements(entries, "tuple") : IsCombination(e)}

(* The members of a set outside those.                                       *)
Loose(entries) ==
  {m \in Members(entries) \cup UNION {ToSet(e.args) : e \in Elements(entries, "tuple") \ Taken(entries)} :
     m.suffix = ""}

(* All left out.                                                             *)
NamedLoose(entries) == {m \in Loose(entries) : ~ IsAll(m)}

(* Members of attributes.                                                    *)
Attr == {m \in Solid : ~ IsUser(m.hier)}

(* The fields a combination is of.                                           *)
FieldsOf(e) == [i \in DOMAIN e.args |-> e.args[i].hier[1]]

(* The values it has there.                                                  *)
ValuesOf(e) == [i \in DOMAIN e.args |-> e.args[i].rest[1]]

(* A combination stands for a row.                                           *)
Stands(row, e) == \A m \in ToSet(e.args) : InMember(row, m)

(* A set whose scope is not known to be wrong.                               *)
Fine(entries) ==
  /\ entries \in Seq(Entry) /\ SubselectTyped(entries) /\ ~ Mixed(entries)
  /\ \A m \in Flat(entries) : m.kind = "member" => Blank \notin ToSet(m.rest)

(* The moves that scope.                                                     *)
ExistsOf(moves) == {m \in ToSet(moves) : m.kind = "exists"}

(* The filters such moves bring.                                             *)
FiltersFrom(M) == UNION {FiltersOf(m.among) : m \in M}

(* The paths they bring.                                                     *)
PathsFrom(M) == UNION {PathsOf(m.among) : m \in M}

(* What one source asks of a row.                                            *)
Part(t) == [filters |-> TakenFilters(NamedLoose(t)), combos |-> Combinations(t), paths |-> TakenPaths(NamedLoose(t))]

(* The parts execute gathers.                                                *)
Parts0 ==
  {Subselected(s) : s \in stm.subselects}
    \cup {[filters |-> st.filters, combos |-> {}, paths |-> st.sink] : st \in ToSet(Classified(stm))}

(* The paths of all of them.                                                 *)
AllPaths == UNION {p.paths : p \in Parts0}

(* A member that is named, alone.                                            *)
OnlyOf(b) ==
  [filters |-> IF IsUser(b.hier) THEN {} ELSE {[field |-> b.hier[1], values |-> {b.rest[1]}]},
   combos |-> {},
   paths |-> IF IsUser(b.hier) THEN {[hier |-> b.hier, path |-> b.rest]} ELSE {}]

(* Each element of a sequence is related to the ones behind it.              *)
Ordered(s, R) == \A i, j \in 1..Len(s) : i < j => <<s[i], s[j]>> \in R

(* Everything in A comes before everything in B.                             *)
AllBefore(A, B, R) == \A x \in A, y \in B : <<x, y>> \in R

(* What is one level under a key, by its name.                               *)
Kids(rows, h, x) == ToSet(ChildrenOf(rows, h, canon_path(x)))

(* A key that some row has.                                                  *)
InData(rows, h, q) == q \in _run(rows, SubSeq(h, 1, Len(q)))

(* A key one level under another, with the same names above.                 *)
IsKid(rows, h, x, q) ==
  Len(q) = Len(x) + 1 /\ InData(rows, h, q) /\ \A i \in 1..Len(x) : Text(q[i]) = Text(x[i])

(* A member that is drilled down by its name.                                *)
Opens(s, x) == IsDrilled(s, canon_path(x))

(* A node that its children have been taken from.                            *)
Shut(x) == [x EXCEPT !.open = FALSE]

(* A node after a round: one from before, now shut, or a child of an open    *)
(* one.                                                                      *)
NodeStep(rows, h, s, N, z) ==
  \E x \in N : z = Shut(x) \/ (x.open /\ \E q \in Kids(rows, h, x.key) : z = Node(s, q))

(* Nodes behind which only longer keys follow.                               *)
Later(h, prefix) == {w \in Nodes(h) \X Nodes(h) : Len(w[2].key) > Len(prefix)}

(* What holds of the nodes after n rounds.                                   *)
KeysOf(N) == {x.key : x \in N}

(* A key whose children a descent takes: where it starts, and drilled ones.  *)
Source(s, prefix, y) == y = prefix \/ Opens(s, y)

(* A descent after n rounds: what is shut has its children there, what is    *)
(* open is n levels down, and each key came from one above.                  *)
Spread(rows, h, s, prefix, nodes, n) ==
  /\ nodes \in Seq(Nodes(h)) /\ Ordered(nodes, Later(h, prefix))
  /\ prefix \in KeysOf(ToSet(nodes))
  /\ \A x \in ToSet(nodes) :
       /\ Len(x.key) >= Len(prefix)
       /\ x.open => Len(x.key) = Len(prefix) + n /\ Source(s, prefix, x.key)
       /\ ~ x.open /\ Source(s, prefix, x.key) => Kids(rows, h, x.key) \subseteq KeysOf(ToSet(nodes))
       /\ x.key = prefix \/ \E y \in ToSet(nodes) : Source(s, prefix, y.key) /\ x.key \in Kids(rows, h, y.key)

(* The keys that are found: each is one level under the prefix or under a    *)
(* key that is drilled down, and all that are there are found.               *)
Descended(rows, h, s, prefix, K) ==
  /\ K \subseteq KeysIn(h) /\ \A q \in K : Len(q) > Len(prefix)
  /\ \A x \in K \cup {prefix} : Source(s, prefix, x) => Kids(rows, h, x) \subseteq K
  /\ \A q \in K : \E y \in K \cup {prefix} : Source(s, prefix, y) /\ q \in Kids(rows, h, y)

(* What is drilled down has its children there; and where a key comes from.  *)
Closed(rows, h, s, K) == \A x \in K : Opens(s, x) => Kids(rows, h, x) \subseteq K

(* A child of a drilled member.                                              *)
UnderOpen(rows, h, s, q) == \E y \in KeysIn(h) : Opens(s, y) /\ q \in Kids(rows, h, y)

(* A member that is named.                                                   *)
Resolved(rows, h, s, q) == \E p \in ToSet(s.paths) : q = _resolve_path(rows, h, p)

(* Paths in order of their lengths.                                          *)
Shorter(h) == {w \in KeysIn(h) \X KeysIn(h) : Len(w[1]) <= Len(w[2])}

(* Below what is itself not shown: a path that no key spells, and that none  *)
(* will, as from now on only longer keys are added.                          *)
Unshown(rows, h, K, b, n, q) ==
  \E y \in KeysIn(h) :
    q \in Kids(rows, h, y) /\ canon_path(y) \notin canon_paths(K)
      /\ \A m \in 1..Len(b) : m > n => Len(y) <= Len(b[m])

(* The keys after n hidden paths: closed, and each named, a child of a       *)
(* drilled one, or below a path that was hidden.                             *)
Grown(rows, h, s, b, n, keys) ==
  /\ keys \in Seq(KeysIn(h)) /\ Closed(rows, h, s, ToSet(keys))
  /\ \A q \in ToSet(keys) :
       Resolved(rows, h, s, q) \/ UnderOpen(rows, h, s, q) \/ Unshown(rows, h, ToSet(keys), b, n, q)

(* What a user hierarchy has on the axis when no level is listed flat.       *)
Parted(rows, h, s, K) ==
  /\ K \subseteq KeysIn(h) /\ Closed(rows, h, s, K)
  /\ \A q \in K :
       \/ Resolved(rows, h, s, q) \/ UnderOpen(rows, h, s, q)
       \/ \E y \in KeysIn(h) : q \in Kids(rows, h, y) /\ canon_path(y) \notin canon_paths(K)

(* k is a place on the way to p, one level above it.                         *)
Step(k, p) == Len(p) = Len(k) + 1 /\ \A i \in 1..Len(k) : p[i] = k[i]

(* The column of a user hierarchy.                                           *)
Told(rows, h, s, M) ==
  /\ \A m \in M : m.path \in KeysIn(h) /\ m.hier = h /\ m = UserMemberOf(s, m.path)
  /\ \A m \in M : m.path # <<>> /\ m.drilled /\ ~ OneName(rows, h) =>
       \A q \in KeysIn(h) : IsKid(rows, h, m.path, q) => UserMemberOf(s, q) \in M
  /\ \A m, l \in M : m.path # <<>> /\ ~ m.drilled /\ Step(m.path, l.path) => canon_path(l.path) \in ToSet(s.paths)

(* A tuple with a member of each column.                                     *)
Row(t, columns, n) == t = [i \in 1..n |-> t[i]] /\ \A i \in 1..n : t[i] \in ToSet(columns[i])

(* The members of a tuple that assign a field.                               *)
Gives(L, n, f) == {i \in 1..n : f \in DOMAIN L[i].assignment}

(* A member that shares no field gives the values of its fields, the others  *)
(* those of all others.                                                      *)
Alone(L, n, i) == \A j \in 1..n : j # i => ToSet(L[j].hier) \cap ToSet(L[i].hier) = {}

(* Members of n hierarchies.                                                 *)
Tup(L, n) == DOMAIN L = 1..n /\ \A i \in 1..n : L[i] \in AnyMem

(* A row that has what is assigned.                                          *)
Agrees(r, A) == \A f \in DOMAIN A : r[f] = A[f]

(* The hierarchy that a nested drill is limited by.                          *)
LimitedBy(m) == Last(Parents(m.drill)).hier

(* After the moves M.                                                        *)
Following(st, M) ==
  /\ StateOK(st)
  /\ \A m \in M : m.kind \notin {"measure", "exists"} => m.hier \in ToSet(st.order)
  /\ \A h \in Hierarchy : st.spec[h].parent # <<>> => \E m \in M : m.kind = "limit" /\ st.spec[h].parent = LimitedBy(m)

(* The drill set of a hierarchy is not about one that shares no field.       *)
Parented(st) ==
  StateOK(st) /\ \A h \in Hierarchy : st.spec[h].parent # <<>> => st.spec[h].parent \in ToSet(st.order)

(* A row that has a key.                                                     *)
Matches(r, h, p) == \A j \in 1..Len(p) : p[j] = r[h[j]]

(* Two tuples with the same members but for one.                             *)
Same(t, u, n, i) == \A j \in 1..n : j # i => u[j] = t[j]

(* A child in C is one of the data, and named if its parent is not drilled.  *)
ChildrenTrue(st, h, C, t, n, O) ==
  \A u \in C : Same(t, u, n, n) /\ Step(t[n].path, u[n].path) =>
    /\ \E r \in O : u[n].path = Along(SubSeq(h, 1, Len(t[n].path) + 1), r)
    /\ ~ t[n].drilled => canon_path(u[n].path) \in ToSet(st.spec[h].paths)

(* All children in the data are in C.                                        *)
ChildrenAll(st, h, C, t, n, O) ==
  \A r \in O : \E u \in C :
    Same(t, u, n, n) /\ Step(t[n].path, u[n].path) /\ u[n].path = Along(SubSeq(h, 1, Len(t[n].path) + 1), r)
===============================================================================
