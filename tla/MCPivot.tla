--------------------------------- MODULE MCPivot ---------------------------------
(* A small instance of Pivot for TLC: three fields, the hierarchies of two   *)
(* reports over them, and statements of the shapes that Excel sends.         *)
EXTENDS Pivot

A == <<1>>
B == <<2>>
C == <<3>>
H == <<1, 2>>       \* user hierarchies
D == <<1, 2, 3>>

Rows == {1, 2} \X {1, 2} \X {1, 2}

(* The empty and the full table, those of three rows of which one is the     *)
(* first, and some with a NULL, the empty text or a value that is spelled    *)
(* "All" at one level or another.                                            *)
Tables ==
  {{}, Rows} \cup {t \in SUBSET Rows : Cardinality(t) = 3 /\ <<1, 1, 1>> \in t}
    \cup {{<<1, 1, 1>>, <<1, Null, 2>>, <<2, 2, 2>>, <<2, 1, Null>>},
          {<<Null, 1, 1>>, <<Null, 2, 2>>, <<1, 1, 2>>, <<2, 2, 1>>},
          {<<1, Null, 1>>, <<1, Blank, 2>>, <<Blank, 2, 2>>, <<2, 2, 1>>},
          {<<3, 1, 1>>, <<1, 3, 2>>, <<1, 2, 3>>, <<3, 3, 2>>, <<2, 2, 3>>}}

Is(h, rest) == Ref(h, rest, "")
Drill(h) == [Is(h, <<All>>) EXCEPT !.drilled = TRUE]
M(n) == [kind |-> "measure", name |-> n]
Cross(args) == [kind |-> "cross", args |-> args]
Tuple(args) == [kind |-> "tuple", args |-> args]
Exists(args, among) == [kind |-> "exists", args |-> args, among |-> among]
Except(args) == [kind |-> "except", args |-> args]
DrillMember(args, drill, target) ==
  [kind |-> "drillmember", args |-> args, drill |-> drill, target |-> target]

Attributes ==
  {<<Drill(A)>>, <<Ref(A, <<All>>, "CHILDREN")>>, <<Ref(A, <<1>>, "CHILDREN"), Is(A, <<2>>)>>,
   <<Ref(A, <<Level(1)>>, "MEMBERS")>>, <<Is(A, <<2>>), Is(A, <<1>>), Is(A, <<2>>)>>,
   <<Exists(<<Ref(A, <<>>, "MEMBERS")>>, <<Is(C, <<1>>)>>)>>, <<Except(<<Is(A, <<1>>)>>)>>,
   <<Exists(<<Drill(A), Is(C, <<AllText>>)>>, <<Is(A, <<AllText>>), Is(C, <<All>>)>>)>>,
   <<Cross(<<Drill(A), Drill(C)>>)>>,
   <<Cross(<<Drill(A), Is(C, <<2>>), M(1), M(2)>>)>>,
   <<Tuple(<<Is(A, <<1>>), Is(C, <<2>>)>>), Tuple(<<Is(A, <<2>>), Is(C, <<1>>)>>)>>}
  \cup {<<DrillMember(<<Cross(<<Drill(A), Is(C, <<All>>)>>)>>, drill, C)>> :
          drill \in {<<Is(A, <<1>>)>>, <<Except(<<Is(A, <<1>>)>>)>>,
                     <<Is(A, <<1>>), Except(<<Is(A, <<2>>)>>)>>, <<Is(A, <<All>>)>>}}

UserHierarchies ==
  {<<Drill(H)>>, <<Ref(H, <<>>, "MEMBERS"), Is(H, <<2, 2>>)>>, <<Ref(H, <<Level(2)>>, "MEMBERS")>>,
   <<Ref(H, <<1>>, "CHILDREN")>>, <<Is(H, <<1, 2>>), Is(H, <<1>>)>>, <<Drill(H), Is(H, <<2>>)>>,
   <<DrillMember(<<Is(H, <<1>>), Is(H, <<1, 2>>)>>, <<Is(H, <<1>>)>>, <<>>)>>,
   <<Exists(<<Ref(H, <<Level(2)>>, "MEMBERS")>>, <<Is(H, <<1>>)>>)>>,
   <<Cross(<<Drill(C), Drill(H)>>)>>, <<Cross(<<Drill(H), Drill(C), M(2)>>)>>,
   <<DrillMember(<<Drill(D)>>, <<Is(D, <<1>>), Is(D, <<1, 2>>)>>, <<>>)>>,
   <<DrillMember(<<DrillMember(<<Drill(D)>>, <<Except(<<Is(D, <<1>>)>>)>>, <<>>)>>,
                 <<Except(<<Is(D, <<2, 1>>)>>)>>, <<>>)>>}
  \cup {<<DrillMember(<<Drill(H)>>, drill, <<>>)>> :
          drill \in {<<Is(H, <<1>>)>>, <<Is(H, <<1>>), Is(H, <<2>>)>>, <<Except(<<Is(H, <<1>>)>>)>>,
                     <<Except(<<Is(H, <<All>>)>>)>>}}

Axes ==
  {<<>>} \cup {<<cols>> : cols \in {<<M(1)>>, <<Drill(C)>>}}
    \cup {<<cols, rows>> : cols \in {<<>>, <<M(1), M(2)>>, <<Cross(<<Drill(B), M(1)>>)>>},
                           rows \in Attributes \cup UserHierarchies}

Slicers == {<<>>, <<M(1)>>, <<M(1), Is(C, <<1>>)>>, <<M(2), Is(H, <<1, 2>>)>>, <<M(3), Is(A, <<All>>)>>,
            <<M(1), Is(A, <<Blank>>)>>, <<M(1), Is(A, <<AllText>>)>>, <<M(1), Is(H, <<AllText>>)>>}

Subselects ==
  {{}, {<<Is(A, <<1>>)>>}, {<<Is(H, <<1>>), Is(H, <<2, 1>>)>>},
   {<<Tuple(<<Is(H, <<2>>), Is(H, <<1>>)>>)>>},
   {<<Tuple(<<Is(A, <<1>>), Is(C, <<1>>)>>), Tuple(<<Is(A, <<2>>), Is(C, <<2>>)>>)>>, <<Is(B, <<1>>), Is(B, <<2>>)>>},
   {<<Is(H, <<1, 2>>)>>, <<Tuple(<<Is(C, <<1>>), Is(C, <<2>>)>>)>>}}

Statements == [axes : Axes, slicer : Slicers, subselects : Subselects]

Hierarchies == {A, B, C, H, D}

(* The sets of the statements with the sets in them, each also as what is    *)
(* left of it when its arguments are done.                                   *)
Parts(e) ==
  CASE e.kind \in {"cross", "tuple", "except"} -> ToSet(e.args)
    [] e.kind = "exists" -> ToSet(e.args) \cup ToSet(e.among)
    [] e.kind = "drillmember" -> ToSet(e.args) \cup ToSet(e.drill)
    [] OTHER -> {}

WithParts(entries) ==
  entries \cup UNION {Parts(e) : e \in entries}
    \cup {[e EXCEPT !.args = <<>>] : e \in {x \in entries : Nests(x)}}

Outermost ==
  UNION {ToSet(x) : x \in UNION {ToSet(s) : s \in Axes} \cup Slicers \cup UNION Subselects}

Entries == WithParts(WithParts(WithParts(WithParts(Outermost))))
=============================================================================
