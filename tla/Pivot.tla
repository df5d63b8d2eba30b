---------------------------------- MODULE Pivot ----------------------------------
(***************************************************************************)
(* The engine that answers Excel's pivots (xmla/engine.py, xmla/members.py *)
(* and the hierarchies of xmla/state.py).                                  *)
(*                                                                         *)
(* A statement is answered from groupings of the view's rows, one query    *)
(* per grouping, all under the same filters.  A metric of a group is the   *)
(* set of the rows in it, so that two different groups never have the same *)
(* value by chance.  The cache of groupings is left out: within a          *)
(* statement it changes no answer.                                         *)
(***************************************************************************)
EXTENDS Mdx, FiniteSets

CONSTANTS
  Data,       \* the tables that are tried: sets of rows, functions from fields
              \* to values
  Statement,  \* the statements that are put to them
  Metric      \* the names of the view's metrics

NoMetric == 0

Null == -1    \* sorts last

ASSUME DataAssumption ==
  \A rows \in Data : IsFiniteSet(rows) /\ rows \subseteq [Field -> Value \cup {Null}]

Blank == 0    \* the empty text

Text(v) == IF v = Null THEN Blank ELSE v

canon_path(p) == [i \in DOMAIN p |-> Text(p[i])]

canon_paths(ps) == {canon_path(p) : p \in ps}

Along(h, row) == [i \in DOMAIN h |-> row[h[i]]]

(* ORDER BY every column: the i-th key has i - 1 keys before it.             *)
Less(v, w) == v # Null /\ (w = Null \/ v < w)

Before(a, b) == \E i \in DOMAIN a : Less(a[i], b[i]) /\ \A j \in 1..(i - 1) : a[j] = b[j]

Sorted(keys) ==
  LET rank == [k \in keys |-> Cardinality({x \in keys : Before(x, k)})] IN
  [i \in 1..Cardinality(keys) |-> CHOOSE k \in keys : rank[k] = i - 1]
-----------------------------------------------------------------------------
(* Filters.  A statement: [axes, slicer, subselects].  `filters` are of the  *)
(* operator `is`; `combos` keep the rows whose fields take one of the tuples.*)

Elements(entries, kind) == {e \in ToSet(entries) : e.kind = kind}

(* A slicer member: one filter per level of its path.                        *)
_member_filter(m) ==
  IF TakenForAll(m) THEN {}
  ELSE {[field |-> m.hier[i], values |-> {m.rest[i]}] : i \in DOMAIN m.rest}

(* A tuple of members of different attribute hierarchies.                    *)
IsCombination(e) ==
  LET hiers == [i \in DOMAIN OfAttribute(e.args) |-> OfAttribute(e.args)[i].hier] IN
  Len(hiers) >= 2 /\ IsInjective(hiers)

(* Tuples over the same fields form one predicate.                           *)
Combinations(entries) ==
  LET found == {e \in Elements(entries, "tuple") : IsCombination(e)}
      fields(e) == [i \in DOMAIN OfAttribute(e.args) |-> OfAttribute(e.args)[i].hier[1]]
      values(e) == [i \in DOMAIN OfAttribute(e.args) |-> OfAttribute(e.args)[i].rest[1]] IN
  {[fields |-> fs, rows |-> {values(e) : e \in {x \in found : fields(x) = fs}}] :
     fs \in {fields(e) : e \in found}}

(* What is left of a subselect when its combinations are taken out: the      *)
(* members of other tuples are alternatives; paths are selections.           *)
PlainEntries(entries) ==
  FlattenSeq([i \in DOMAIN entries |->
    CASE entries[i].kind = "tuple" /\ IsCombination(entries[i]) -> <<>>
      [] entries[i].kind = "tuple" /\ ~ IsCombination(entries[i]) -> OfAttribute(entries[i].args)
      [] OTHER -> <<entries[i]>>])

TuplePaths(entries) ==
  {[hier |-> m.hier, path |-> m.rest] :
     m \in UNION {ToSet(OfUser(e.args)) : e \in Elements(entries, "tuple")}}

Picked(specs, sink, entries) ==
  [filters |-> {[field |-> s.hier[1], values |-> ToSet(s.members)] :
                  s \in {x \in specs : ~ IsUser(x.hier) /\ x.members # <<>>}},
   combos |-> Combinations(entries),
   paths |-> TuplePaths(entries) \cup sink
               \cup UNION {{[hier |-> s.hier, path |-> p] : p \in ToSet(s.paths)} : s \in specs}]

PickedBy(st, entries) == Picked(ToSet(Specs(st)), st.sink, entries)

Subselected(entries) == PickedBy(_classify(PlainEntries(entries)), entries)

(* Selected paths of one hierarchy: by value on the first level, otherwise   *)
(* as the combinations the data has under them, down to the deepest.         *)
(* _distinct reads the data unfiltered.                                      *)
AlongPaths(data, levels, paths) ==
  {r \in {Along(levels, x) : x \in data} : \E p \in paths : IsPrefix(p, canon_path(r))}

InAny(fields, rows) ==
  [filters |-> {}, combos |-> IF rows = {} THEN {} ELSE {[fields |-> fields, rows |-> rows]}]

DownTo(data, levels, paths) ==
  IF Len(levels) = 1
  THEN [filters |-> {[field |-> levels[1], values |-> {p[1] : p \in paths}]}, combos |-> {}]
  ELSE InAny(levels, AlongPaths(data, levels, paths))

PathPredicate(data, h, paths) ==
  DownTo(data, SubSeq(h, 1, Max({Len(p) : p \in paths})), paths)

_apply_path_selections(data, selected) ==
  {PathPredicate(data, h, {s.path : s \in {x \in selected : x.hier = h}}) :
     h \in {s.hier : s \in selected}}

(* What the axes, the subselects, the slicer and the paths ask for together. *)
Merged(slicer, parts) ==
  [filters |-> (UNION {p.filters : p \in parts}) \cup UNION {_member_filter(m) : m \in Members(slicer)},
   combos |-> UNION {p.combos : p \in parts}]

WithPaths(data, slicer, parts) ==
  Merged(slicer, parts \cup _apply_path_selections(data, UNION {p.paths : p \in parts}))

Scope(data, stm, classified) ==
  WithPaths(data, stm.slicer,
    {Subselected(s) : s \in stm.subselects}
      \cup {[filters |-> st.filters, combos |-> {}, paths |-> st.sink] : st \in ToSet(classified)})

(* The WHERE of every query: a NULL equals nothing.                          *)
KeptRows(data, scope) ==
  {row \in data :
     /\ \A f \in scope.filters : row[f.field] \in f.values
     /\ \A c \in scope.combos :
          Null \notin ToSet(Along(c.fields, row)) /\ Along(c.fields, row) \in c.rows}
-----------------------------------------------------------------------------
(* The members of an axis.  A member: its hierarchy, the values on the way   *)
(* to it, and whether its DisplayInfo says drilled down; with it, the        *)
(* assignment it stands for.                                                 *)

Member(h, path, drilled) ==
  [hier |-> h, path |-> path, drilled |-> drilled,
   assignment |-> [f \in {h[i] : i \in DOMAIN path} |->
                     path[CHOOSE i \in DOMAIN path : h[i] = f]]]

_run(rows, fields) == {Along(fields, r) : r \in rows}

AttributeMembers(rows, spec) ==
  LET values == Sorted(_run(rows, spec.hier)) IN
  (IF spec.all THEN <<Member(spec.hier, <<>>, TRUE)>> ELSE <<>>)
    \o (IF spec.children THEN [i \in DOMAIN values |-> Member(spec.hier, values[i], FALSE)]
        ELSE [i \in DOMAIN spec.members |-> Member(spec.hier, <<spec.members[i]>>, FALSE)])

IsDrilled(spec, path) ==
  path \notin spec.undrilled /\ (path \in spec.drilled \/ Len(path) \in spec.depths)

UserMemberOf(spec, path) ==
  Member(spec.hier, path, Len(path) < Len(spec.hier) /\ IsDrilled(spec, canon_path(path)))

(* Raw keys one level under a canonical prefix.                              *)
ChildrenOf(rows, h, prefix) ==
  IF Len(prefix) >= Len(h) THEN <<>>
  ELSE Sorted({k \in _run(rows, SubSeq(h, 1, Len(prefix) + 1)) : IsPrefix(prefix, canon_path(k))})

(* The keys below a prefix, depth first: one round puts the children of what *)
(* is open, and has not been followed by them yet, behind it.                *)
Node(spec, key) == [key |-> key, open |-> IsDrilled(spec, canon_path(key))]

NodesUnder(rows, spec, node) ==
  LET keys == ChildrenOf(rows, spec.hier, canon_path(node.key)) IN
  IF node.open THEN [i \in DOMAIN keys |-> Node(spec, keys[i])] ELSE <<>>

Deeper(rows, spec, nodes) ==
  FlattenSeq([i \in DOMAIN nodes |->
    <<[nodes[i] EXCEPT !.open = FALSE]>> \o NodesUnder(rows, spec, nodes[i])])

Descend(rows, spec, prefix) ==
  LET nodes[n \in 0..Len(spec.hier)] ==
        IF n = 0 THEN <<[key |-> prefix, open |-> TRUE]>> ELSE Deeper(rows, spec, nodes[n - 1])
      found == nodes[Len(spec.hier)] IN
  [i \in 1..(Len(found) - 1) |-> found[i + 1].key]

DescendInto(rows, spec, prefix) ==
  IF IsDrilled(spec, prefix) THEN Descend(rows, spec, prefix) ELSE <<>>

(* The raw values behind a path, or the path if the data has none.           *)
_resolve_path(rows, h, path) ==
  LET keys == {k \in _run(rows, SubSeq(h, 1, Len(path))) : canon_path(k) = path} IN
  IF keys = {} THEN path ELSE Sorted(keys)[1]

(* Levels listed flat, the tree under All, the members by name with the      *)
(* trees under them, and at last the children of what is itself not shown,   *)
(* shorter paths before longer ones.                                         *)
FlatKeys(rows, spec) ==
  FlattenSeq([i \in DOMAIN spec.hier |->
    IF i \in spec.flat THEN Sorted(_run(rows, SubSeq(spec.hier, 1, i))) ELSE <<>>])

NamedKeys(rows, spec) ==
  FlattenSeq([i \in DOMAIN spec.paths |->
    <<_resolve_path(rows, spec.hier, spec.paths[i])>> \o DescendInto(rows, spec, spec.paths[i])])

ShownKeys(rows, spec) ==
  FlatKeys(rows, spec) \o DescendInto(rows, spec, <<>>) \o NamedKeys(rows, spec)

ByLength(spec) ==
  FlattenSeq([n \in DOMAIN spec.hier |-> Sorted({p \in spec.drilled : Len(p) = n})])

WithHidden(rows, spec, keys, path) ==
  IF path \in canon_paths(ToSet(keys)) THEN keys ELSE keys \o Descend(rows, spec, path)

AllKeys(rows, spec) ==
  LET keys[n \in 0..Len(ByLength(spec))] ==
        IF n = 0 THEN ShownKeys(rows, spec)
        ELSE WithHidden(rows, spec, keys[n - 1], ByLength(spec)[n]) IN
  keys[Len(ByLength(spec))]

(* emit: a path is shown once, where it first comes.                         *)
Emitted(keys) ==
  FlattenSeq([i \in DOMAIN keys |->
    IF \E j \in 1..(i - 1) : canon_path(keys[j]) = canon_path(keys[i]) THEN <<>> ELSE <<keys[i]>>])

_userhier_members(rows, spec) ==
  LET keys == (IF spec.all THEN << <<>> >> ELSE <<>>) \o Emitted(AllKeys(rows, spec)) IN
  [i \in DOMAIN keys |-> UserMemberOf(spec, keys[i])]

MembersOf(rows, spec) ==
  IF IsUser(spec.hier) THEN _userhier_members(rows, spec) ELSE AttributeMembers(rows, spec)

(* Does the drill set of the child hierarchy show children under this value? *)
_parent_drilled(child, parent, value) ==
  child.parent = parent.hier =>
    (child.limited => Text(value) \in child.include) /\ Text(value) \notin child.exclude

(* Members that another hierarchy follows are marked by its drill set.       *)
Marked(specs, i, members) ==
  IF i = Len(specs) THEN members
  ELSE [j \in DOMAIN members |->
          IF members[j].path = <<>> THEN members[j]
          ELSE [members[j] EXCEPT !.drilled =
                  _parent_drilled(specs[i + 1], specs[i], members[j].path[1])]]

Columns(rows, specs) == [i \in DOMAIN specs |-> Marked(specs, i, MembersOf(rows, specs[i]))]

(* assignment.update: the last member that has a field gives its value.      *)
Assigned(members) ==
  LET has(f) == {i \in DOMAIN members : f \in DOMAIN members[i].assignment}
      last(f) == CHOOSE i \in has(f) : \A j \in has(f) : j <= i IN
  [f \in UNION {DOMAIN members[i].assignment : i \in DOMAIN members} |->
     members[last(f)].assignment[f]]

(* Mutant: every parent shows the children.                                  *)
_drill_allowed_Always(specs, assignment) == TRUE

(* A constrained hierarchy's children show only where the drill set says.    *)
_drill_allowed(specs, assignment) ==
  \A s \in ToSet(specs) :
    s.parent # <<>> /\ s.hier[1] \in DOMAIN assignment /\ ~ IsUser(s.hier)
      /\ s.parent[1] \in DOMAIN assignment /\ assignment[s.parent[1]] # Null =>
         LET v == assignment[s.parent[1]] IN
         (s.limited => v \in s.include) /\ v \notin s.exclude

Occurring(rows, assignment) ==
  {r \in rows : \A f \in DOMAIN assignment : r[f] = assignment[f]}

(* A combination that never occurs is left out.                              *)
Occurs(rows, specs, assignment) ==
  /\ _drill_allowed(specs, assignment)
  /\ Cardinality(DOMAIN assignment) > 1 => Occurring(rows, assignment) # {}

(* CrossJoin's order, the first hierarchy outermost.                         *)
Crossed(rows, columns, specs) ==
  LET at(ix) == [i \in DOMAIN columns |-> columns[i][ix[i]]]
      places == {ix \in [DOMAIN columns -> UNION {DOMAIN columns[i] : i \in DOMAIN columns}] :
                   /\ \A i \in DOMAIN columns : ix[i] \in DOMAIN columns[i]
                   /\ Occurs(rows, specs, Assigned(at(ix)))}
      order == Sorted(places) IN
  [n \in DOMAIN order |-> at(order[n])]

(* Every measure of the statement, on the axis that has them.                *)
Measured(members, has, measures) ==
  IF has THEN [k \in DOMAIN measures |-> [members |-> members, measure |-> measures[k]]]
  ELSE IF members # <<>> THEN <<[members |-> members, measure |-> NoMetric]>> ELSE <<>>

EachMeasured(crossed, has, measures) ==
  FlattenSeq([i \in DOMAIN crossed |-> Measured(crossed[i], has, measures)])

Tuples(rows, st, measures) ==
  EachMeasured(Crossed(rows, Columns(rows, Specs(st)), Specs(st)), st.measures # <<>>, measures)
-----------------------------------------------------------------------------
(* Cells.                                                                    *)

FirstNonEmpty(a, b) == IF a # <<>> THEN a ELSE b

MeasuresOf(classified, slicer) ==
  FirstNonEmpty(FlattenSeq([i \in DOMAIN classified |-> classified[i].measures]),
                FlattenSeq([i \in DOMAIN slicer |->
                              IF slicer[i].kind = "measure" THEN <<slicer[i].name>> ELSE <<>>]))

(* Mutant: the last axis runs fastest.                                       *)
Coordinates_LastFastest(ordinal, shape) ==
  IF shape = <<>> THEN <<>>
  ELSE IF Len(shape) = 1 THEN <<ordinal + 1>>
  ELSE <<(ordinal \div shape[2]) + 1, (ordinal % shape[2]) + 1>>

(* "row-major with Axis0 FASTEST"                                            *)
Coordinates(ordinal, shape) ==
  IF shape = <<>> THEN <<>>
  ELSE IF Len(shape) = 1 THEN <<ordinal + 1>>
  ELSE <<(ordinal % shape[1]) + 1, (ordinal \div shape[1]) + 1>>

Size(shape) ==
  IF shape = <<>> THEN 1 ELSE IF Len(shape) = 1 THEN shape[1] ELSE shape[1] * shape[2]

(* The tuples, one of each axis, that a cell belongs to.                     *)
Position(axes, ordinal) ==
  LET at == Coordinates(ordinal, [i \in DOMAIN axes |-> Len(axes[i])]) IN
  [i \in DOMAIN axes |-> axes[i][at[i]]]

MetricOf(position, measures) ==
  LET chosen == SelectSeq(position, LAMBDA t : t.measure # NoMetric) IN
  IF chosen = <<>> THEN measures[1] ELSE Last(chosen).measure

AllMembers(position) == FlattenSeq([i \in DOMAIN position |-> position[i].members])

(* A group without rows has no cell.                                         *)
Cells(rows, axes, measures) ==
  IF measures = <<>> THEN {}
  ELSE {c \in {[ordinal |-> o,
                measure |-> MetricOf(Position(axes, o), measures),
                rows |-> Occurring(rows, Assigned(AllMembers(Position(axes, o))))] :
               o \in 0..(Size([i \in DOMAIN axes |-> Len(axes[i])]) - 1)} : c.rows # {}}

Refused == [error |-> TRUE, axes |-> <<>>, cells |-> {}]

Answer(rows, axes, measures) ==
  IF ~ ToSet(measures) \subseteq Metric THEN Refused
  ELSE [error |-> FALSE, axes |-> axes, cells |-> Cells(rows, axes, measures)]

(* An axis without tuples is left out of the answer.                         *)
NonEmpty(axes) == FlattenSeq([i \in DOMAIN axes |-> IF axes[i] = <<>> THEN <<>> ELSE <<axes[i]>>])

Pivoted(rows, classified, measures) ==
  Answer(rows, NonEmpty([i \in DOMAIN classified |-> Tuples(rows, classified[i], measures)]), measures)

Classified(stm) == [i \in DOMAIN stm.axes |-> _classify(stm.axes[i])]

Executed(data, stm, classified) ==
  Pivoted(KeptRows(data, Scope(data, stm, classified)), classified, MeasuresOf(classified, stm.slicer))

(* handle_execute                                                            *)
execute(data, stm) ==
  IF \E i \in DOMAIN stm.axes : Unsupported(stm.axes[i]) THEN Refused
  ELSE Executed(data, stm, Classified(stm))

(* The second arguments of Exists, wherever they are on an axis.             *)
ExistsIn(entries) == {e.among : e \in Elements(walk(entries), "exists")}

(* A selection names members, or tuples of them; tuples over the same        *)
(* hierarchies have them in the same order.                                  *)
Names(e) == IsRef(e) /\ e.suffix = ""

NamesTuple(e) == e.kind = "tuple" /\ \A i \in DOMAIN e.args : Names(e.args[i])

Hiers(e) == [i \in DOMAIN e.args |-> e.args[i].hier]

InOrder(entries) ==
  \A e, f \in {x \in Elements(entries, "tuple") : IsCombination(x)} :
    ToSet(Hiers(e)) = ToSet(Hiers(f)) => Hiers(e) = Hiers(f)

AxesTyped(axes) ==
  /\ Len(axes) <= 2
  /\ \A i, j \in DOMAIN axes : i # j =>
       ToSet(_classify(axes[i]).order) \cap ToSet(_classify(axes[j]).order) = {}
  /\ \A i \in DOMAIN axes : \A among \in ExistsIn(axes[i]) : \A e \in ToSet(among) : Names(e)
  /\ \A i \in DOMAIN axes : \A e \in ToSet(walk(axes[i])) : ~ Nests(e)

SubselectTyped(entries) ==
  (\A e \in ToSet(entries) : Names(e) \/ NamesTuple(e)) /\ InOrder(entries)

ASSUME StatementAssumption ==
  /\ Statement \subseteq [axes : Seq(Seq(Entry)), slicer : Seq(Entry), subselects : SUBSET Seq(Entry)]
  /\ \A s \in Statement : AxesTyped(s.axes) /\ \A t \in s.subselects : SubselectTyped(t)

VARIABLES
  data,     \* the rows of the view
  stm,      \* the statement that was answered last, or Nothing
  answer

pivotVars == <<data, stm, answer>>

(* No statement has an empty subselect.                                      *)
Nothing == [axes |-> <<>>, slicer |-> <<>>, subselects |-> {<<>>}]

PivotInit == data \in Data /\ stm = Nothing /\ answer = Nothing

Execute(s) ==
  /\ stm = Nothing
  /\ stm' = s
  /\ answer' = execute(data, s)
  /\ UNCHANGED data

Close == stm # Nothing /\ stm' = Nothing /\ answer' = Nothing /\ UNCHANGED data

PivotNext == Close \/ \E s \in Statement : Execute(s)

PivotSpec == PivotInit /\ [][PivotNext]_pivotVars
-----------------------------------------------------------------------------
Answered == stm # Nothing /\ ~ answer.error

Under(row, h, path) == \A i \in DOMAIN path : Text(row[h[i]]) = path[i]

InMember(row, m) == IsAll(m) \/ Under(row, m.hier, m.rest)

Sources == (UNION {ExistsIn(stm.axes[i]) : i \in DOMAIN stm.axes}) \cup stm.subselects

(* What one set of members selects: of each hierarchy in it any of the       *)
(* members, except that members in one tuple belong together.                *)
Chosen(row, entries) ==
  LET tuples == {e \in Elements(entries, "tuple") : IsCombination(e)}
      hiersOf(e) == {m.hier : m \in ToSet(e.args)}
      loose == {m \in Members(entries) \cup UNION {ToSet(e.args) : e \in Elements(entries, "tuple") \ tuples} :
                  m.suffix = ""} IN
  /\ \A h \in {m.hier : m \in loose} :
       \E m \in loose : m.hier = h /\ InMember(row, m)
  /\ \A e \in tuples : \E f \in tuples :
       hiersOf(f) = hiersOf(e) /\ \A m \in ToSet(f.args) : InMember(row, m)

Selected ==
  {row \in data : /\ \A m \in Members(stm.slicer) : InMember(row, m)
                  /\ \A s \in Sources : Chosen(row, s)}

(* Known to be answered wrongly, or differently from MDX: a member for NULL  *)
(* that is named; in the slicer or a subselect, a value of an attribute that *)
(* is spelled "All" and taken for the All member; a field that two           *)
(* hierarchies on the axes have in common; a user hierarchy that two sets    *)
(* scope, whose paths are taken together; paths of which the data has none;  *)
(* a NULL below a path, above the level of the deepest, as no combination    *)
(* with a NULL is ever kept; and selections that mix All with other members, *)
(* or paths with what is combined.                                           *)
Flat(entries) ==
  UNION {IF e.kind = "tuple" THEN ToSet(e.args) ELSE {e} : e \in ToSet(entries)}

NamedIn(s, h) == {m \in Flat(s) : m.kind = "member" /\ m.hier = h /\ ~ IsAll(m)}

OnAxes == UNION {ToSet(st.order) : st \in ToSet(Classified(stm))}

TwoSources(h) ==
  \E s, r \in Sources : s # r /\ NamedIn(s, h) # {} /\ NamedIn(r, h) # {}

SelectedPaths(h) == {m.rest : m \in UNION {NamedIn(s, h) : s \in Sources}}

PathsGone(h) ==
  /\ \E p \in SelectedPaths(h) : Len(p) > 1
  /\ \A row \in data : \A p \in SelectedPaths(h) : ~ Under(row, h, p)

NullBelow(h) ==
  \E row \in data : \E p, q \in SelectedPaths(h) :
    Under(row, h, p) /\ Null \in {row[h[i]] : i \in DOMAIN q}

(* All beside other members of its hierarchy; All in a tuple; a path in a    *)
(* combination.                                                              *)
Mixed(s) ==
  \/ \E l, m \in {x \in Flat(s) : x.kind = "member"} : l.hier = m.hier /\ IsAll(l) /\ ~ IsAll(m)
  \/ \E e \in Elements(s, "tuple") : \E m \in ToSet(e.args) :
       IsAll(m) \/ (IsCombination(e) /\ IsUser(m.hier))

Known ==
  \/ \E s \in Sources : Mixed(s)
  \/ \E s \in Sources \cup {stm.slicer} : \E m \in Flat(s) :
       m.kind = "member" /\ Blank \in ToSet(m.rest)
  \/ \E s \in stm.subselects \cup {stm.slicer} : \E m \in Flat(s) :
       m.kind = "member" /\ TakenForAll(m) /\ ~ IsAll(m)
  \/ \E g, h \in OnAxes : g # h /\ ToSet(g) \cap ToSet(h) # {}
  \/ \E h \in {m.hier : m \in {x \in UNION {Flat(s) : s \in Sources} : x.kind = "member"}} :
       IsUser(h) /\ (TwoSources(h) \/ PathsGone(h) \/ NullBelow(h))

(* Stands this row for this member?                                          *)
Holds(row, m) == \A i \in DOMAIN m.path : row[m.hier[i]] = m.path[i]

(* The places of a pivot, one tuple of each axis; their ordinals, the first  *)
(* axis fastest; and the rows that all the members of a place stand for.     *)
PlacesOf(axes) ==
  CASE Len(axes) = 0 -> {<<>>}
    [] Len(axes) = 1 -> {<<i>> : i \in DOMAIN axes[1]}
    [] Len(axes) = 2 -> {<<i, j>> : i \in DOMAIN axes[1], j \in DOMAIN axes[2]}

Width(axes) == IF axes = <<>> THEN 1 ELSE Len(axes[1])

Ordinal(axes, at) ==
  IF Len(at) = 2 THEN Width(axes) * (at[2] - 1) + at[1] - 1 ELSE IF Len(at) = 1 THEN at[1] - 1 ELSE 0

TuplesAt(axes, at) == [i \in DOMAIN axes |-> axes[i][at[i]]]

CountedAt(rows, axes, at) == {r \in rows : \A m \in ToSet(AllMembers(TuplesAt(axes, at))) : Holds(r, m)}

RightCells(rows, axes, measures) ==
  IF measures = <<>> THEN {}
  ELSE {[ordinal |-> Ordinal(axes, at), measure |-> MetricOf(TuplesAt(axes, at), measures),
         rows |-> CountedAt(rows, axes, at)] :
          at \in {x \in PlacesOf(axes) : CountedAt(rows, axes, x) # {}}}

(* The cells of a pivot are at the ordinals that their place on the axes     *)
(* gives, the first axis fastest, and each is the metric of exactly the rows *)
(* that the slicer and the selections keep and that all the members of its   *)
(* tuples stand for: subtotals and grand totals too are of what is selected, *)
(* combinations as combinations.  A cell of no rows is left out.             *)
(* (xmla/engine.py execute: _member_filter, subselects,                      *)
(* _apply_path_selections, the loop over the ordinals)                       *)
CellsAreRight ==
  Answered /\ ~ Known =>
    \A rows \in {Selected}, measures \in {MeasuresOf(Classified(stm), stm.slicer)} :
      answer.cells = RightCells(rows, answer.axes, measures)

(* Tuples of an axis that differ from t at most in the i-th member; and the  *)
(* paths one level under t's that they have there.                           *)
Beside(axis, t, i) ==
  {u \in ToSet(axis) : u.measure = t.measure /\ Len(u.members) = Len(t.members)
                         /\ \A j \in DOMAIN t.members : j # i => u.members[j] = t.members[j]}

ShownUnder(axis, t, i) ==
  {p \in {u.members[i].path : u \in Beside(axis, t, i)} :
     Len(p) = Len(t.members[i].path) + 1 /\ IsPrefix(t.members[i].path, p)}

ChildrenIn(rows, m) == {Along(SubSeq(m.hier, 1, Len(m.path) + 1), r) : r \in rows}

(* Another member of the tuple has a field of the i-th one's hierarchy: the  *)
(* last one counts.  Two members of a hierarchy have one name: NULL and the  *)
(* empty text.                                                               *)
Shares(t, i) ==
  \E j \in DOMAIN t.members : j # i /\ ToSet(t.members[j].hier) \cap ToSet(t.members[i].hier) # {}

OneName(rows, h) == \E f \in ToSet(h) : {Null, Blank} \subseteq {r[f] : r \in rows}

UserTold(spec, rows, axis, t, i) ==
  /\ t.members[i].drilled /\ ~ OneName(rows, t.members[i].hier) =>
       ShownUnder(axis, t, i) = ChildrenIn(Occurring(rows, Assigned(t.members)), t.members[i])
  /\ ~ t.members[i].drilled => canon_paths(ShownUnder(axis, t, i)) \subseteq ToSet(spec.paths)

AttributeTold(t, i) ==
  t.members[i].drilled \/ IsUser(t.members[i + 1].hier) \/ t.members[i + 1].path = <<>>

SpecFor(specs, h) == CHOOSE s \in specs : s.hier = h

(* What the next gesture in Excel starts from is true: a member of a user    *)
(* hierarchy that is told to be drilled down has all its children on the     *)
(* axis, one that is not has none but those named or listed level by level;  *)
(* and a value of an attribute told to be collapsed shows no value of the    *)
(* hierarchy after it.  Known to be otherwise: user hierarchies followed by  *)
(* another hierarchy, members of flat levels, NULL as a collapsed value, a   *)
(* field that two hierarchies of a tuple share, and, where a level has both, *)
(* NULL beside the empty text, of which one is shown.                        *)
(* (xmla/members.py member, drilled, walk, emit; xmla/engine.py              *)
(* _parent_drilled, _drill_allowed)                                          *)
DrillStateTold ==
  Answered => \A classified \in {Classified(stm)} :
    \A rows \in {KeptRows(data, Scope(data, stm, classified))},
       specs \in {UNION {ToSet(Specs(st)) : st \in ToSet(classified)}} :
      \A axis \in ToSet(answer.axes) : \A t \in ToSet(axis) : \A i \in DOMAIN t.members :
        LET m == t.members[i] IN
        ~ Shares(t, i) =>
          /\ IsUser(m.hier) /\ i = Len(t.members) /\ m.path # <<>> /\ SpecFor(specs, m.hier).flat = {} =>
               UserTold(SpecFor(specs, m.hier), rows, axis, t, i)
          /\ ~ IsUser(m.hier) /\ i < Len(t.members) /\ m.path \notin {<<>>, <<Null>>} =>
               AttributeTold(t, i)

(* The reference that Excel makes of a member it was shown.                  *)
Back(m) == Ref(m.hier, canon_path(m.path), "")

(* What Excel sends back for a member that it was shown selects that member: *)
(* in the slicer, as a ticked box, and to scope another hierarchy's dropdown *)
(* with Exists, exactly the rows it stands for.  Known not to: a path through*)
(* NULL, and, but with Exists, a value of an attribute that is spelled "All".*)
(* (xmla/engine.py _member_filter, subselects and _apply_path_selections,    *)
(* xmla/classify.py exists, against the names of xmla/members.py)            *)
MemberSelectsItself ==
  Answered => \A axis \in ToSet(answer.axes) : \A t \in ToSet(axis) : \A m \in ToSet(t.members) :
    LET back == Back(m)
        rows == {r \in data : Holds(r, m)}
        asked == [filters |-> FiltersOf(<<back>>), combos |-> {}, paths |-> PathsOf(<<back>>)] IN
    m.path # <<>> /\ Null \notin ToSet(m.path) /\ rows # {} =>
      /\ KeptRows(data, WithPaths(data, <<>>, {asked})) = rows
      /\ ~ TakenForAll(back) => KeptRows(data, WithPaths(data, <<back>>, {})) = rows
      /\ ~ TakenForAll(back) => KeptRows(data, WithPaths(data, <<>>, {Subselected(<<back>>)})) = rows
=============================================================================
