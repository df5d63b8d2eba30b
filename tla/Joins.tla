---------------------------------- MODULE Joins ----------------------------------
(***************************************************************************)
(* The join graph of a semantic view and what it lets one ask              *)
(* (semantic/joins.py).                                                    *)
(*                                                                         *)
(* `detail` is a parsed DESCRIBE.  A field is <<table, name>>.  Tables and *)
(* names are numbers, which gives them the order the code sorts by; they   *)
(* are compared without regard to case, so a number stands for all the     *)
(* spellings of a name.                                                    *)
(***************************************************************************)
EXTENDS Integers, FiniteSets, FiniteSetsExt

CONSTANTS Table, Name

ASSUME JoinsAssumption == Table \subseteq Nat \ {0} /\ IsFiniteSet(Table) /\ Name \subseteq Nat

NoTable == 0

TablesOf(fields) == {f[1] : f \in fields}

NamesOf(fields) == {f[2] : f \in fields}

(* An edge from the foreign key side to the primary key side; a relationship *)
(* without its two ends gives none.                                          *)
build_join_graph(detail) ==
  {e \in {<<r.table, r.refTable>> : r \in detail.relationships} :
     NoTable \notin {e[1], e[2]}}

(* What is at most k edges away, for each k: the breadth-first search.       *)
Within(graph, start) ==
  LET ball[k \in 0..Cardinality(Table)] ==
        IF k = 0 THEN {start}
        ELSE LET inner == ball[k - 1] IN
             inner \cup {e[2] : e \in {x \in graph : x[1] \in inner}}
  IN ball

(* Mutant: one edge only.                                                    *)
reachable_Direct(graph, start) == {start} \cup {e[2] : e \in {x \in graph : x[1] = start}}

reachable(graph, start) == Within(graph, start)[Cardinality(Table)]

resolve_base(graph, tables) ==
  LET bases == {t \in tables : tables \subseteq reachable(graph, t)} IN
  IF bases = {} THEN NoTable ELSE Min(bases)

_total_distance(graph, start, targets) ==
  LET distance(t) == Min({k \in 0..Cardinality(Table) : t \in Within(graph, start)[k]})
  IN MapThenSumSet(distance, targets)

NoPlan == [bridge |-> NoTable, base |-> NoTable, blocked |-> {}, alternatives |-> {}]

(* The metric entity that blocks the most dimensions; the first one of them. *)
Worst(graph, dims, bases) ==
  LET blocks(b) == Cardinality(dims \ reachable(graph, b)) IN
  CHOOSE b \in bases : \A c \in bases :
    blocks(b) > blocks(c) \/ (blocks(b) = blocks(c) /\ b <= c)

(* Mutant: any entity with a metric will do.                                 *)
Alternatives_Any(detail, graph, dims) ==
  {m \in detail.metrics : dims \cap reachable(graph, m[1]) # {}}

Alternatives(detail, graph, dims) ==
  {m \in detail.metrics : dims \subseteq reachable(graph, m[1])}

BlockedPlan(detail, graph, dims, mets) ==
  LET w == Worst(graph, dims, mets) IN
  [NoPlan EXCEPT !.base = w, !.blocked = dims \ reachable(graph, w),
                 !.alternatives = Alternatives(detail, graph, dims)]

(* Entities outside the query that have a metric and reach every dimension.  *)
Candidates(detail, graph, dims) ==
  {t \in TablesOf(detail.metrics) \ dims : dims \subseteq reachable(graph, t)}

Closest(graph, dims, candidates) ==
  LET far(t) == _total_distance(graph, t, dims) IN
  CHOOSE t \in candidates : \A u \in candidates :
    far(t) < far(u) \/ (far(t) = far(u) /\ t <= u)

BridgePlan(detail, graph, dims) ==
  LET found == Candidates(detail, graph, dims) IN
  IF found = {} THEN [NoPlan EXCEPT !.blocked = dims]
  ELSE [NoPlan EXCEPT !.bridge = Closest(graph, dims, found)]

(* Without relationships nothing is judged; a metric entity that reaches     *)
(* every dimension needs no plan, nor do dimensions one of which does.       *)
PlanOver(detail, graph, dims, mets) ==
  IF \/ graph = {}
     \/ mets # {} /\ \A b \in mets : dims \subseteq reachable(graph, b)
     \/ mets = {} /\ (Cardinality(dims) < 2 \/ resolve_base(graph, dims) # NoTable)
  THEN NoPlan
  ELSE IF mets # {}
       THEN BlockedPlan(detail, graph, dims,
                        {b \in mets : ~ dims \subseteq reachable(graph, b)})
       ELSE BridgePlan(detail, graph, dims)

plan_join(detail, dims, mets) == PlanOver(detail, build_join_graph(detail), dims, mets)
=============================================================================
