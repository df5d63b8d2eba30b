----------------------------- MODULE MCSemanticQuery -----------------------------
(* Small instances of SemanticQuery and Visuals for TLC.                     *)
EXTENDS Visuals

Row(kind, parent, object, property, value) ==
  [kind |-> kind, parent |-> parent, object |-> object, property |-> property, value |-> value]

(* Four entities, each with a dimension of its own name; any acyclic graph   *)
(* whose edges go upwards; each with no metric or with one of a name of its  *)
(* own, and the first also with one that is named like a dimension.          *)
Graph == SUBSET {e \in Table \X Table : e[1] < e[2]}

MetricName(t, m) == IF m = 1 THEN 10 + t ELSE 3

Catalogue(graph, metric) ==
  {Row("DIMENSION", t, t, "", 0) : t \in Table}
    \cup {Row("METRIC", t, MetricName(t, metric[t]), "", 0) : t \in {u \in Table : metric[u] # 0}}
    \cup {Row("RELATIONSHIP", e[1], 100 * e[1] + e[2], "REF_TABLE", e[2]) : e \in graph}
    \cup {Row("RELATIONSHIP", 3, 100, "FOREIGN_KEY", 0)}

(* One entity for the filters: two dimensions and two facts.                 *)
Single ==
  {Row("DIMENSION", 1, n, "", 0) : n \in {1, 2}} \cup {Row("FACT", 1, n, "", 0) : n \in {3, 4}}
    \cup {Row("METRIC", 1, 5, "", 0), Row("DIMENSION", 2, 2, "", 0)}

Metrics == {m \in [Table -> 0..2] : m[2] < 2 /\ m[3] < 2 /\ m[4] = 0}

Views == {Catalogue(g, m) : g \in Graph, m \in Metrics} \cup {Single}

F == <<1, 1>>
G == <<1, 2>>
H == <<1, 3>>

Values == {Blank, <<1>>, <<-1>>, <<2>>, <<-2, 1>>}

Clause(op, f, vs) == [op |-> op, field |-> f, values |-> vs]

Filters ==
  {Clause(op, F, vs) : op \in In, vs \in {<<>>, << <<1>> >>, << <<-1>>, Blank>>}}
    \cup {Clause(op, F, <<v>>) : op \in Text, v \in {Blank, <<-1>>, <<2>>}}
    \cup {Clause(op, F, <<>>) : op \in Presence}
    \cup {Clause(op, G, <<v>>) : op \in Compare, v \in {Blank, <<1>>}}
    \cup {Clause(op, G, vs) : op \in Between, vs \in {<<Blank, <<1>> >>, << <<-1>>, <<1>> >>}}

Combos ==
  {[fields |-> <<F, G>>, rows |-> <<>>],
   [fields |-> <<F, G>>, rows |-> << << <<1>>, <<2>> >>, << <<2>>, <<1>> >> >>],
   [fields |-> <<G>>, rows |-> << << <<-1>> >> >>],
   [fields |-> <<G>>, rows |-> << << <<1>> >>, << <<1>>, <<2>> >> >>],
   [fields |-> <<>>, rows |-> <<<<>>>>]}

FilterLists ==
  {<<>>} \cup {<<f>> : f \in Filters} \cup {<<f, g>> : f, g \in Filters}

Requests(d) ==
  IF d = NoView THEN {}
  ELSE IF d = describe_semantic_view(Single)
  THEN {[Plain EXCEPT !.dims = {F}, !.filters = fs, !.combos = cs] :
          fs \in FilterLists, cs \in {<<>>} \cup {<<c>> : c \in Combos}}
       \cup {[Plain EXCEPT !.dims = D, !.facts = S, !.mets = M, !.order = o] :
          D \in SUBSET {F, G, <<2, 2>>}, S \in SUBSET {H, <<1, 4>>}, M \in {{}, {<<1, 5>>}, {<<9, 9>>}},
          o \in {NoField, G, <<0, 2>>, <<0, 3>>, <<0, 9>>}}
       \cup {[Plain EXCEPT !.dims = {F}, !.filters = <<Clause("is", <<1, 5>>, <<>>)>>]}
  ELSE {[Plain EXCEPT !.dims = {<<t, t>> : t \in D}, !.mets = M] :
          D \in SUBSET Table, M \in {N \in SUBSET d.metrics : Cardinality(N) <= 2}}

Pickers(d) == IF d = describe_semantic_view(Single) THEN {F} ELSE {}

Columns_ == SUBSET (Values \cup {Null})

(* Reports on the view of one entity: a chart whose axis, legend, values and *)
(* options vary, beside a table, a card and a slicer, before a second page.  *)
M == <<1, 5>>
Fact2 == <<1, 4>>
Plain_ == [filters |-> <<>>, sort |-> [field |-> NoField, direction |-> ""], topN |-> 0,
           aggregations |-> <<>>]

Visual(id, type, wells) == [id |-> id, type |-> type, wells |-> wells] @@ Plain_

Charts ==
  {Visual(1, "bar", [axis |-> <<a>>, legend |-> l, values |-> vs]) :
     a \in {F, <<0, 1>>}, l \in {<<>>, <<G>>, <<<<0, 2>>>>}, vs \in {<<M>>, <<H>>, <<H, Fact2>>}}

Shaped ==
  {[Visual(1, "hbar", [axis |-> <<<<0, 1>>>>, values |-> <<f>>]) EXCEPT
      !.sort = [field |-> o, direction |-> d], !.topN = n, !.aggregations = g] :
     f \in {M, H}, o \in {NoField, F, G, M}, d \in {"asc", "desc", ""}, n \in {0, 2},
     g \in {<<>>, H :> "avg", M :> "sum"}}

Beside ==
  {<<[Visual(2, "table", [dimensions |-> <<F>>, metrics |-> <<M>>]) EXCEPT
        !.filters = <<Clause("contains", G, <<Blank>>), Clause("gt", G, << <<1>> >>)>>],
     Visual(3, "slicer", [field |-> <<G>>])>>,
   <<Visual(2, "kpi", [value |-> <<H>>]),
     [Visual(3, "kpi", [value |-> <<M>>]) EXCEPT !.filters = <<Clause("contains", <<9, 9>>, <<Blank>>)>>]>>}

SecondPage(kind, v) == [kind |-> kind, visuals |-> <<v>>, filters |-> <<Clause("is", F, << <<2>> >>)>>]

Paths == <<[id |-> 1, levels |-> <<F, G>>], [id |-> 2, levels |-> <<G, F>>]>>

Current(chart, beside, second) ==
  [schemaVersion |-> 3, bound |-> TRUE, hierarchies |-> Paths,
   filters |-> <<Clause("isNot", F, << <<1>> >>)>>,
   pages |-> <<[kind |-> "canvas", visuals |-> <<chart>> \o beside,
                filters |-> <<Clause("lt", G, <<Blank>>), Clause("isNotBlank", G, <<>>)>>], second>>]

Older(chart) ==
  {[schemaVersion |-> 2, bound |-> b, hierarchies |-> h, visuals |-> <<chart>>,
    filters |-> <<Clause("isNot", F, << <<1>> >>)>>] : b \in BOOLEAN, h \in {Paths, Tail(Paths)}}
  \cup {[schemaVersion |-> 1, bound |-> TRUE,
         visuals |-> <<[k \in DOMAIN chart \ {"filters"} |-> chart[k]]>>]}

Clicks == {<<1>>}

Documents(d) ==
  IF d # describe_semantic_view(Single) THEN {}
  ELSE {Current(c, b, SecondPage("canvas", Visual(4, "pie", [legend |-> <<F>>, values |-> <<M>>]))) :
          c \in Charts, b \in Beside}
       \cup {Current(c, <<>>, SecondPage("sheet", Visual(4, "matrix", [rows |-> <<F>>, values |-> <<M>>]))) :
          c \in Shaped}
       \cup {Current(CHOOSE c \in Shaped : TRUE, <<>>, SecondPage(k, Visual(i, "line", w))) :
          k \in {"canvas", "sheet"}, i \in {1, 4},
          w \in {[axis |-> <<F>>, values |-> <<M>>], [axis |-> <<F>>, values |-> <<F>>],
                [axis |-> <<F>>], [axis |-> <<F>>, values |-> <<<<0, 1>>>>]}}
       \cup UNION {Older(c) : c \in {x \in Charts : x.wells.values = <<M>>}}
=============================================================================
