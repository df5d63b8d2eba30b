------------------------------ MODULE SemanticQuery ------------------------------
(***************************************************************************)
(* From a request to one SEMANTIC_VIEW statement: the parsed DESCRIBE      *)
(* (semantic/discovery.py), filters (reports/filters.py) and the           *)
(* predicates made of them (semantic/predicates.py), the statement         *)
(* (semantic/query.py) and the two routes that run one                     *)
(* (semantic/routes.py).                                                   *)
(*                                                                         *)
(* A machine describes a view and then answers one request after another.  *)
(* A value is a text, a sequence of letters; a number and its negative are *)
(* the two cases of a letter.  Numbers and dates are bound and compared as *)
(* texts are.                                                              *)
(***************************************************************************)
EXTENDS Joins, Sequences, SequencesExt

CONSTANTS
  View,           \* the answers to DESCRIBE that are tried
  Question(_),    \* what is asked of a view, once it is described
  Value,          \* the texts a column may hold
  Picker(_),      \* its fields whose values are listed
  Column, Search, Limit,  \* what these hold, and what is asked of them
  RowCap, VALUES_CAP

ASSUME QueryAssumption ==
  /\ RowCap \in Nat \ {0} /\ VALUES_CAP \in Nat \ {0}
  /\ Value \subseteq Seq(Int)
  /\ Limit \subseteq Int /\ Search \subseteq Seq(Int)

Null == <<0>>

Blank == <<>>
-----------------------------------------------------------------------------
(* discovery.py                                                              *)

(* The rows of one relationship: its TABLE property, else its parent, is the *)
(* foreign key side; without REF_TABLE it has no other side.                 *)
Relationship(rows, name) ==
  LET own == {r \in rows : r.kind = "RELATIONSHIP" /\ r.object = name}
      prop(p) == {r.value : r \in {x \in own : x.property = p}}
      parent == CHOOSE t \in {r.parent : r \in own} : TRUE IN
  [table    |-> IF prop("TABLE") = {} THEN parent ELSE CHOOSE t \in prop("TABLE") : TRUE,
   refTable |-> IF prop("REF_TABLE") = {} THEN NoTable
                ELSE CHOOSE t \in prop("REF_TABLE") : TRUE]

describe_semantic_view(rows) ==
  LET fields(kind) == {<<r.parent, r.object>> : r \in {x \in rows : x.kind = kind}} IN
  [relationships |->
     {Relationship(rows, r.object) : r \in {x \in rows : x.kind = "RELATIONSHIP"}},
   dimensions |-> fields("DIMENSION"),
   metrics |-> fields("METRIC"),
   facts |-> fields("FACT")]
-----------------------------------------------------------------------------
(* filters.py and predicates.py.  A filter: [op, field, values].             *)

In == {"is", "isNot"}
Text == {"contains", "notContains", "startsWith", "endsWith"}
Presence == {"isBlank", "isNotBlank"}
Compare == {"gt", "gte", "lt", "lte"}
Between == {"between", "notBetween"}

(* Does it constrain anything yet?                                           *)
is_active(f) ==
  CASE f.op \in In -> f.values # <<>>
    [] f.op \in Presence -> TRUE
    [] OTHER -> \A i \in DOMAIN f.values : f.values[i] # Blank

_filterable(detail) == detail.dimensions \cup detail.facts

Upper(v) == [i \in DOMAIN v |-> IF v[i] < 0 THEN - v[i] ELSE v[i]]

(* What a filter adds to the WHERE: an operator over a column, with so many  *)
(* placeholders, and the values bound to them.                               *)
Fragment(f) == [op |-> f.op, field |-> f.field, holes |-> Len(f.values)]

Params(f) == IF f.op \in Text THEN <<Upper(f.values[1])>> ELSE f.values

NoPredicate == [fragments |-> <<>>, params |-> <<>>]

Extended(where, fragment, values) ==
  [fragments |-> Append(where.fragments, fragment), params |-> where.params \o values]

(* Mutant: the fragment of an unfinished filter is left out, its values are  *)
(* bound all the same.                                                       *)
build_filter_predicates_Misaligned(filters) ==
  LET where[n \in 0..Len(filters)] ==
        IF n = 0 THEN NoPredicate
        ELSE IF is_active(filters[n])
             THEN Extended(where[n - 1], Fragment(filters[n]), Params(filters[n]))
             ELSE [where[n - 1] EXCEPT !.params = @ \o Params(filters[n])]
  IN where[Len(filters)]

(* The loop: after n filters.                                                *)
build_filter_predicates(filters) ==
  LET where[n \in 0..Len(filters)] ==
        IF n = 0 THEN NoPredicate
        ELSE IF is_active(filters[n])
             THEN Extended(where[n - 1], Fragment(filters[n]), Params(filters[n]))
             ELSE where[n - 1]
  IN where[Len(filters)]
-----------------------------------------------------------------------------
(* query.py.  A request: [dims, mets, facts, filters, combos, order, limit]. *)
(* `combos` is the entry the XMLA engine adds: sequences of fields with the  *)
(* rows of values that are kept.  `order`: a field, <<0, a bare name>>, NoField. *)

NoField == <<0, 0>>

Refused(why) == [refused |-> why]

Unresolved(detail, q) ==
  \/ ~ q.dims \subseteq detail.dimensions
  \/ ~ q.mets \subseteq detail.metrics
  \/ ~ q.facts \subseteq detail.facts

(* A combination without fields or without rows constrains nothing.          *)
Constrains(c) == c.fields # <<>> /\ c.rows # <<>>

BadFilter(detail, q) ==
  \/ \E i \in DOMAIN q.filters : q.filters[i].field \notin _filterable(detail)
  \/ \E i \in DOMAIN q.combos : LET c == q.combos[i] IN
       /\ Constrains(c)
       /\ \/ ~ ToSet(c.fields) \subseteq _filterable(detail)
          \/ \E k \in DOMAIN c.rows : Len(c.rows[k]) # Len(c.fields)

(* Mutant: the bridge's first metric is taken, whatever its name.            *)
Unshadowed_Any(detail, q, bridge) == {m \in detail.metrics : m[1] = bridge}

(* The metrics of the bridge whose bare name is not that of a dimension.     *)
Unshadowed(detail, q, bridge) ==
  {m \in detail.metrics : m[1] = bridge /\ m[2] \notin NamesOf(q.dims)}

(* A bridge is of use by one of its metrics, the first that is free.         *)
Repaired(plan, free, dims) ==
  CASE plan.bridge = NoTable -> [bridge |-> NoField, plan |-> plan]
    [] plan.bridge # NoTable /\ free # {} ->
         [bridge |-> CHOOSE m \in free : \A n \in free : m[2] <= n[2], plan |-> plan]
    [] OTHER -> [bridge |-> NoField, plan |-> [NoPlan EXCEPT !.blocked = TablesOf(dims)]]

Bridged(detail, q, plan) == Repaired(plan, Unshadowed(detail, q, plan.bridge), q.dims)

(* The bridging metric, or why there can be no answer.                       *)
_plan_and_repair_join(detail, q) ==
  Bridged(detail, q, plan_join(detail, TablesOf(q.dims), TablesOf(q.mets)))

(* What the message of a refused join names, and what it advises: one of the *)
(* blocked fields, whichever comes first, is to go, or the metrics of the    *)
(* entity are to make way for one of the alternatives (the first three are   *)
(* named), or that field for one of the entity.                              *)
blocked_fields(q, plan) == {f \in q.dims : f[1] \in plan.blocked}

base_metrics(q, plan) == {m \in q.mets : m[1] = plan.base}

Dropping(q, f) == [q EXCEPT !.dims = @ \ {f}]

Measured(q, plan, m) == [q EXCEPT !.mets = (@ \ base_metrics(q, plan)) \cup {m}]

GroupedBy(q, f, g) == [q EXCEPT !.dims = (@ \ {f}) \cup {g}]

OfOneTable(q, t) == [q EXCEPT !.dims = {f \in @ : f[1] = t}]

advice(detail, q, plan) ==
  {Dropping(q, f) : f \in blocked_fields(q, plan)}
    \cup IF plan.base = NoTable THEN {OfOneTable(q, t) : t \in plan.blocked}
         ELSE IF plan.alternatives # {} THEN {Measured(q, plan, m) : m \in plan.alternatives}
         ELSE {GroupedBy(q, f, g) : f \in blocked_fields(q, plan),
                                    g \in {d \in detail.dimensions : d[1] = plan.base}}

(* What an ORDER BY may mean among what is selected.                         *)
OrderHits(q) == {f \in q.dims \cup q.mets \cup q.facts : q.order \in {f, <<0, f[2]>>}}

bridged_through(detail, q) ==
  plan_join(detail, TablesOf(q.dims), TablesOf(q.mets)).bridge

ComboFragment(c) ==
  [op |-> "combo", field |-> c.fields, tuples |-> Len(c.rows), holes |-> Len(c.rows) * Len(c.fields)]

(* The predicates of the filters, and after n of the combinations.           *)
Where(q) ==
  LET where[n \in 0..Len(q.combos)] ==
        IF n = 0 THEN build_filter_predicates(q.filters)
        ELSE IF Constrains(q.combos[n])
             THEN Extended(where[n - 1], ComboFragment(q.combos[n]), FlattenSeq(q.combos[n].rows))
             ELSE where[n - 1]
  IN where[Len(q.combos)]

(* The statement of a request that nothing is wrong with.                    *)
Selecting(q, bridges, where, max_rows) ==
  [refused |-> "", bridge |-> IF bridges = {} THEN NoField ELSE CHOOSE m \in bridges : TRUE,
   selected |-> q.dims \cup q.facts \cup q.mets \cup bridges,
   excluded |-> NamesOf(bridges),
   fragments |-> where.fragments, params |-> where.params,
   order |-> q.order[2],
   limit |-> IF q.limit = 0 \/ q.limit > max_rows THEN max_rows ELSE q.limit]

Joined(detail, q, max_rows, join) ==
  IF Unresolved(detail, q) THEN Refused("field")
  ELSE IF q.mets # {} /\ q.facts # {} THEN Refused("grain")
  ELSE IF q.dims \cup q.mets \cup q.facts = {} THEN Refused("nothing")
  ELSE IF q.facts # {} /\ q.dims # {} /\ Cardinality(TablesOf(q.facts \cup q.dims)) > 1
       THEN Refused("fact")
  ELSE IF join.plan.blocked # {} THEN [refused |-> "blocked", plan |-> join.plan]
  ELSE IF BadFilter(detail, q) THEN Refused("filter")
  ELSE IF q.order # NoField /\ Cardinality(OrderHits(q)) # 1 THEN Refused("order")
  ELSE Selecting(q, {join.bridge} \ {NoField}, Where(q), max_rows)

build_semantic_sql(detail, q, max_rows) ==
  Joined(detail, q, max_rows, _plan_and_repair_join(detail, q))
-----------------------------------------------------------------------------
(* What Snowflake makes of a statement.  An SQL truth value is a set: {} is  *)
(* unknown, and a row is kept where every predicate is {TRUE}.               *)

Less(a, b) ==
  \/ IsStrictPrefix(a, b)
  \/ \E i \in DOMAIN a \cap DOMAIN b :
       a[i] < b[i] /\ \A j \in 1..(i - 1) : a[j] = b[j]

Occurs(w, s) == \E i \in 0..(Len(s) - Len(w)) : SubSeq(s, i + 1, i + Len(w)) = w

Holds(op, x, vs) ==
  CASE op = "is" -> x \in ToSet(vs)
    [] op = "isNot" -> x \notin ToSet(vs)
    [] op = "contains" -> Occurs(vs[1], Upper(x))
    [] op = "notContains" -> ~ Occurs(vs[1], Upper(x))
    [] op = "startsWith" -> IsPrefix(vs[1], Upper(x))
    [] op = "endsWith" -> IsSuffix(vs[1], Upper(x))
    [] op = "gt" -> Less(vs[1], x)
    [] op = "gte" -> ~ Less(x, vs[1])
    [] op = "lt" -> Less(x, vs[1])
    [] op = "lte" -> ~ Less(vs[1], x)
    [] op = "between" -> ~ Less(x, vs[1]) /\ ~ Less(vs[2], x)
    [] op = "notBetween" -> Less(x, vs[1]) \/ Less(vs[2], x)

Truth(f, vs, row) ==
  CASE f.op = "isBlank" -> {row[f.field] \in {Null, Blank}}
    [] f.op = "isNotBlank" -> {row[f.field] \notin {Null, Blank}}
    [] f.op = "combo" ->
         LET n == Len(f.field)
             tuple == [i \in 1..n |-> row[f.field[i]]] IN
         IF Null \in ToSet(tuple) THEN {}
         ELSE {\E k \in 1..f.tuples : SubSeq(vs, (k - 1) * n + 1, k * n) = tuple}
    [] OTHER -> IF row[f.field] = Null THEN {} ELSE {Holds(f.op, row[f.field], vs)}

(* Placeholders take the bound values in order: after k fragments so many.   *)
Placeholders(fragments) ==
  LET before[k \in 0..Len(fragments)] == IF k = 0 THEN 0 ELSE before[k - 1] + fragments[k].holes
  IN before

Bound(sql, i) ==
  LET before == Placeholders(sql.fragments) IN SubSeq(sql.params, before[i - 1] + 1, before[i])

Keeps(sql, row) ==
  \A i \in DOMAIN sql.fragments : Truth(sql.fragments[i], Bound(sql, i), row) = {TRUE}

(* EXCLUDE goes by the bare name.                                            *)
Columns(sql) == {f \in sql.selected : f[2] \notin sql.excluded}
-----------------------------------------------------------------------------
(* routes.py                                                                 *)

Plain == [dims |-> {}, mets |-> {}, facts |-> {}, filters |-> <<>>, combos |-> <<>>,
          order |-> NoField, limit |-> 0]

Clamp(limit) == Max({1, Min({limit, VALUES_CAP})})

(* Mutant: a full page is fetched and no more.                               *)
ValuesRequest_Page(field, search, page) ==
  [Plain EXCEPT !.dims = {field}, !.limit = page,
     !.filters = IF search = Blank THEN <<>>
                 ELSE <<[op |-> "contains", field |-> field, values |-> <<search>>]>>]

ValuesRequest(field, search, page) ==
  [Plain EXCEPT !.dims = {field}, !.limit = page + 1,
     !.filters = IF search = Blank THEN <<>>
                 ELSE <<[op |-> "contains", field |-> field, values |-> <<search>>]>>]

Smallest(n, S) == {x \in S : Cardinality({y \in S : Less(y, x)}) < n}

ValuesAnswer(page, rows) ==
  [values |-> Smallest(page, rows \ {Null}), truncated |-> Cardinality(rows \ {Null}) > page]

VARIABLES
  detail,  \* the described view, or NoView
  out      \* the last call and what it returned, or Nothing

queryVars == <<detail, out>>

NoView == [dimensions |-> {}]
Nothing == [kind |-> "none"]

QueryInit == detail = NoView /\ out = Nothing

Describe(v) ==
  /\ detail' = describe_semantic_view(v)
  /\ UNCHANGED out

(* POST /api/query/semantic                                                  *)
query_semantic(q) ==
  /\ out' = [kind |-> "sql", q |-> q, sql |-> build_semantic_sql(detail, q, RowCap),
             through |-> bridged_through(detail, q)]
  /\ UNCHANGED detail

(* GET .../values.  Without an ORDER BY, any rows that fit the limit may     *)
(* come back.                                                                *)
AnyRows(page, limit, matching, searched) ==
  /\ \E rows \in kSubset(Min({limit, Cardinality(matching)}), matching) :
       out' = [kind |-> "values", page |-> page, matching |-> matching, searched |-> searched,
               answer |-> ValuesAnswer(page, rows)]
  /\ UNCHANGED detail

field_values(field, search, limit, column) ==
  \E page \in {Clamp(limit)} :
    \E sql \in {build_semantic_sql(detail, ValuesRequest(field, search, page), RowCap)} :
      sql.refused = "" /\ AnyRows(page, sql.limit, {x \in column : Keeps(sql, field :> x)}, search # Blank)

Idle == out = Nothing

(* The next one.                                                             *)
Close == ~ Idle /\ out' = Nothing /\ detail' = NoView

QueryNext ==
  \/ Idle /\ detail = NoView /\ \E v \in View : Describe(v)
  \/ Idle /\ detail # NoView /\ \E q \in Question(detail) : query_semantic(q)
  \/ Idle /\ detail # NoView /\
       \E f \in Picker(detail), s \in Search, n \in Limit, c \in Column : field_values(f, s, n, c)
  \/ Close

(* DESCRIBE names tables and fields; the pydantic models type a request.     *)
RowTyped(r) ==
  /\ r.kind \in {"DIMENSION", "METRIC", "FACT"} => r.parent \in Table /\ r.object \in Name
  /\ r.kind = "RELATIONSHIP" =>
       r.parent \in Table /\ (r.property \in {"TABLE", "REF_TABLE"} => r.value \in Table)

Filter ==
  LET Of(ops, values) == [op : ops, field : Nat \X Nat, values : values] IN
  Of(In, Seq(Seq(Int))) \cup Of(Presence, {<<>>}) \cup Of(Between, [1..2 -> Seq(Int)])
    \cup Of(Text \cup Compare, [1..1 -> Seq(Int)])

SemanticQueryRequest ==
  [dims : SUBSET (Nat \X Nat), mets : SUBSET (Nat \X Nat), facts : SUBSET (Nat \X Nat),
   filters : Seq(Filter), combos : Seq([fields : Seq(Nat \X Nat), rows : Seq(Seq(Seq(Int)))]),
   order : Nat \X Nat, limit : Nat]

ASSUME InputAssumption ==
  /\ \A v \in View : /\ \A r \in v : RowTyped(r)
                     /\ Question(describe_semantic_view(v)) \subseteq SemanticQueryRequest
  /\ \A c \in Column : c \subseteq Value \cup {Null} /\ IsFiniteSet(c)
-----------------------------------------------------------------------------
Compiled == out.kind = "sql" /\ out.sql.refused = ""

Blocked == out.kind = "sql" /\ out.sql.refused = "blocked"

(* By definition: in every set of entities that holds s and is closed under  *)
(* the declared relationships.                                               *)
Reaches(s, D) ==
  \A C \in SUBSET Table :
    s \in C /\ (\A e \in build_join_graph(detail) : e[1] \in C => e[2] \in C) => D \subseteq C

(* joins.py: "EVERY metric's entity is a base, and every selected dimension  *)
(* must be reachable from every one of them. ... With only dimensions        *)
(* selected, one of them must reach all the others."                         *)
Answerable(q) ==
  LET D == TablesOf(q.dims) IN
  \/ build_join_graph(detail) = {}
  \/ q.mets # {} /\ \A t \in TablesOf(q.mets) : Reaches(t, D)
  \/ q.mets = {} /\ \E t \in D : Reaches(t, D)
  \/ D = {}

Repairs(q) == {t \in TablesOf(detail.metrics) \ TablesOf(q.dims) : Reaches(t, TablesOf(q.dims))}

(* A request is compiled as it stands exactly if Snowflake can answer it;    *)
(* otherwise it is routed through an entity that reaches everything, and the *)
(* answer names that one; and it is refused only if metrics are asked for or *)
(* no such entity can be used.  (The exception: an entity was found, but     *)
(* each of its metrics is hidden behind the name of a dimension.)            *)
JoinVerdictRight ==
  /\ Compiled =>
       IF Answerable(out.q)
       THEN out.sql.bridge = NoField /\ out.through = NoTable
       ELSE /\ out.q.mets = {}
            /\ out.sql.bridge \in detail.metrics
            /\ out.sql.bridge[1] = out.through /\ out.through \in Repairs(out.q)
  /\ Blocked =>
       /\ ~ Answerable(out.q)
       /\ out.q.mets # {} \/ \E t \in Repairs(out.q) \cup {NoTable} :
            \A m \in detail.metrics : m[1] = t => m[2] \in NamesOf(out.q.dims)

(* The dimensions that a metric entity of a request does not reach.          *)
Hindered(t, q) == {f \in q.dims : t \in TablesOf(q.mets) /\ ~ Reaches(t, {f[1]})}

(* "so removing what the message names actually fixes the query": whatever   *)
(* advice is followed, the entity it names is hindered by less than before,  *)
(* no other by more but for a field taken in exchange, and the request is    *)
(* refused again only for what is left.  Without metrics, fields of one      *)
(* entity are never refused.  (Once is not enough when several fields are    *)
(* blocked: the message advises to remove one of them.)                      *)
AdviceWorks ==
  Blocked =>
    LET q == out.q
        p == out.sql.plan
        again(r) == build_semantic_sql(detail, r, RowCap).refused = "blocked" IN
    \A r \in advice(detail, q, p) :
      IF q.mets = {}
      THEN again(r) => Cardinality(TablesOf(r.dims)) > 1
      ELSE /\ Hindered(p.base, r) \subseteq Hindered(p.base, q)
           /\ Hindered(p.base, r) # Hindered(p.base, q)
           /\ r.dims \subseteq q.dims =>
                \A t \in TablesOf(r.mets) : Hindered(t, r) \subseteq Hindered(t, q)
           /\ again(r) => \E t \in TablesOf(r.mets) : Hindered(t, r) # {}

(* "everything you asked for": the columns that come back are those asked    *)
(* for, the bridge is not among them, and an ORDER BY by a bare name means   *)
(* one of them.                                                              *)
AskedIsShown ==
  Compiled =>
    /\ Columns(out.sql) = out.q.dims \cup out.q.mets \cup out.q.facts
    /\ out.q.order # NoField /\ out.q.order[1] = 0 =>
         Cardinality({f \in Columns(out.sql) : f[2] = out.sql.order}) = 1

Finished(f) ==
  CASE f.op \in In -> f.values # <<>>
    [] f.op \in Presence -> TRUE
    [] OTHER -> Blank \notin ToSet(f.values)

Means(f, x) ==
  CASE f.op = "isBlank" -> x \in {Null, Blank}
    [] f.op = "isNotBlank" -> x \notin {Null, Blank}
    [] f.op \in Text -> x # Null /\ Holds(f.op, x, <<Upper(f.values[1])>>)
    [] OTHER -> x # Null /\ Holds(f.op, x, f.values)

(* "a wrong order is a wrong answer rather than an error": whatever filters  *)
(* and combinations are put together, finished or not, the statement with    *)
(* its bound values keeps the rows that satisfy each of them.                *)
FiltersMean ==
  Compiled /\ out.q.filters \o out.q.combos # <<>> =>
    LET q == out.q
        named == {q.filters[i].field : i \in DOMAIN q.filters}
                   \cup UNION {ToSet(q.combos[i].fields) : i \in DOMAIN q.combos} IN
    \A row \in [named -> Value \cup {Null}] :
      Keeps(out.sql, row) <=>
        /\ \A i \in DOMAIN q.filters :
             Finished(q.filters[i]) => Means(q.filters[i], row[q.filters[i].field])
        /\ \A i \in DOMAIN q.combos : q.combos[i].fields # <<>> /\ q.combos[i].rows # <<>> =>
             LET fs == q.combos[i].fields
                 tuple == [k \in DOMAIN fs |-> row[fs[k]]] IN
             Null \notin ToSet(tuple) /\ tuple \in ToSet(q.combos[i].rows)

(* "`truncated` now means there are more that match": the values listed are  *)
(* real ones, none is missing unless the answer says so, and it says so only *)
(* if some are.  (The exception: NULL, which is dropped after the limit was  *)
(* counted.)                                                                 *)
ValuesHonest ==
  out.kind = "values" =>
    LET real == out.matching \ {Null}
        more == ~ (real \subseteq out.answer.values) IN
    /\ out.answer.values \subseteq real
    /\ Cardinality(out.answer.values) <= out.page
    /\ out.answer.truncated => more
    /\ more => out.answer.truncated \/ Null \in out.matching
=============================================================================
