--------------------------------- MODULE Visuals ---------------------------------
(***************************************************************************)
(* One report, shown three ways: on the screen, where a tile makes its     *)
(* query of its wells and of what the user has clicked                     *)
(* (reports/useVisualQuery.ts, filters.ts, VisualTile.tsx, builder/        *)
(* useBuilderInteraction.ts), in a workbook exported from there (export/   *)
(* service.py), and in a feed that Excel refreshes from the stored         *)
(* document (feed/service.py).  Each makes a request of its own, and       *)
(* SemanticQuery makes the statement of it.                                *)
(*                                                                         *)
(* A document is one that a save accepts (reports/schema.py, catalog.py),  *)
(* upgraded when it is read (reports/migrate.py).  Sizes, names, the ids   *)
(* of pages and filters and what only the Format pane reads are left out;  *)
(* a field is named as the view names it.                                  *)
(***************************************************************************)
EXTENDS SemanticQuery

CONSTANTS
  Document(_),    \* the documents a save is asked to take, of a view
  Clicked,        \* the values of marks and slicers that are clicked
  MAX_VISUALS, MAX_REFS_PER_WELL

ASSUME VisualsAssumption == MAX_VISUALS \in Nat /\ MAX_REFS_PER_WELL \in Nat
-----------------------------------------------------------------------------
(* catalog.py                                                                *)

Well(key, kind, min, max) == [key |-> key, kind |-> kind, min |-> min, max |-> max]

_CATEGORICAL == {Well("axis", "dimension", 1, 1), Well("legend", "dimension", 0, 1),
                 Well("values", "metric", 1, MAX_REFS_PER_WELL)}

_ONE_BY_ONE == {Well("legend", "dimension", 1, 1), Well("values", "metric", 1, 1)}

CATALOG ==
  [t \in {"bar", "hbar", "line", "area"} |-> _CATEGORICAL]
  @@ [t \in {"pie", "donut", "treemap", "funnel"} |-> _ONE_BY_ONE]
  @@ [combo |-> {Well("axis", "dimension", 1, 1), Well("values", "metric", 1, MAX_REFS_PER_WELL),
                 Well("lineValues", "metric", 0, MAX_REFS_PER_WELL)},
      gauge |-> {Well("value", "metric", 1, 1), Well("target", "metric", 0, 1)},
      scatter |-> {Well("x", "metric", 1, 1), Well("y", "metric", 1, 1),
                   Well("detail", "dimension", 0, 1)},
      table |-> {Well("dimensions", "dimension", 0, MAX_REFS_PER_WELL),
                 Well("metrics", "metric", 0, MAX_REFS_PER_WELL)},
      matrix |-> {Well("rows", "dimension", 1, MAX_REFS_PER_WELL),
                  Well("columns", "dimension", 0, 1),
                  Well("values", "metric", 1, MAX_REFS_PER_WELL)},
      kpi |-> {Well("value", "metric", 1, 1)},
      multiCard |-> {Well("dimensions", "dimension", 0, MAX_REFS_PER_WELL),
                     Well("metrics", "metric", 1, MAX_REFS_PER_WELL)},
      slicer |-> {Well("field", "dimension", 1, 1)}]

Refs(wells, key) == IF key \in DOMAIN wells THEN wells[key] ELSE <<>>

(* The fields of a visual's wells of one kind.                               *)
wells_to_query(type, wells, kind) ==
  UNION {ToSet(Refs(wells, w.key)) : w \in {x \in CATALOG[type] : x.kind = kind}}

(* No problem with this arrangement: every field once, as many as each well  *)
(* takes, none where there is no well.                                       *)
validate_wells(type, wells) ==
  /\ type \in DOMAIN CATALOG
  /\ DOMAIN wells \subseteq {w.key : w \in CATALOG[type]}
  /\ \A w \in CATALOG[type] : Len(Refs(wells, w.key)) \in w.min..w.max
  /\ \A k, l \in DOMAIN wells : \A i \in DOMAIN wells[k], j \in DOMAIN wells[l] :
       wells[k][i] = wells[l][j] => k = l /\ i = j
  /\ type = "table" => \E k \in DOMAIN wells : wells[k] # <<>>
-----------------------------------------------------------------------------
(* migrate.py: 1 has no filters and no hierarchies, 2 has no pages; what 2   *)
(* filters by top-level is its page's.                                       *)

Or(r, key, default) == IF key \in DOMAIN r THEN r[key] ELSE default

_v1_to_v2(d) ==
  [visuals |-> [i \in DOMAIN d.visuals |-> d.visuals[i] @@ [filters |-> <<>>]],
   filters |-> Or(d, "filters", <<>>), hierarchies |-> Or(d, "hierarchies", <<>>)] @@ d

_v2_to_v3(d) ==
  [bound |-> d.bound, hierarchies |-> d.hierarchies, filters |-> <<>>,
   pages |-> <<[kind |-> "canvas", visuals |-> d.visuals, filters |-> d.filters]>>]

migrate_definition(d) ==
  CASE d.schemaVersion = 1 -> _v2_to_v3(_v1_to_v2(d))
    [] d.schemaVersion = 2 -> _v2_to_v3(d)
    [] OTHER -> [k \in DOMAIN d \ {"schemaVersion"} |-> d[k]]
-----------------------------------------------------------------------------
(* schema.py                                                                 *)

(* A well may hold a hierarchy, <<0, its id>>, in the place of a field.      *)
IsHierarchy(ref) == ref[1] = 0

Visuals(d) == FlattenSeq([p \in DOMAIN d.pages |-> d.pages[p].visuals])

_check_hierarchies(d) ==
  LET ids == {d.hierarchies[i].id : i \in DOMAIN d.hierarchies} IN
  /\ Cardinality(ids) = Len(d.hierarchies)
  /\ \A i \in DOMAIN d.hierarchies :
       Len(d.hierarchies[i].levels) >= 2 /\ IsInjective(d.hierarchies[i].levels)
  /\ \A i \in DOMAIN Visuals(d) : LET v == Visuals(d)[i] IN
       /\ \A ref \in wells_to_query(v.type, v.wells, "metric") : ~ IsHierarchy(ref)
       /\ \A ref \in wells_to_query(v.type, v.wells, "dimension") : IsHierarchy(ref) => ref[2] \in ids

(* A save takes the upgraded document.                                       *)
parse_definition(d) ==
  /\ d.pages # <<>> /\ Len(Visuals(d)) <= MAX_VISUALS
  /\ d.bound \/ Visuals(d) = <<>>
  /\ \A p \in DOMAIN d.pages : d.pages[p].kind = "sheet" =>
       /\ Len(d.pages[p].visuals) <= 1
       /\ \A i \in DOMAIN d.pages[p].visuals : d.pages[p].visuals[i].type \in {"matrix", "table"}
  /\ IsInjective([i \in DOMAIN Visuals(d) |-> Visuals(d)[i].id])
  /\ \A i \in DOMAIN Visuals(d) : validate_wells(Visuals(d)[i].type, Visuals(d)[i].wells)
  /\ _check_hierarchies(d)
-----------------------------------------------------------------------------
(* The screen.  `ui`: the page, per visual the path drilled in a hierarchy,  *)
(* the selected mark, per field the ticks of its slicer.                     *)

VARIABLES
  doc,     \* the open report's document, or NoDoc
  ui       \* what has been clicked since

NoDoc == [pages |-> <<>>]
NoMark == [source |-> 0, field |-> NoField, value |-> Blank]
Undrilled == [hierarchy |-> 0, path |-> <<>>]

VisualIds(d) == {Visuals(d)[i].id : i \in DOMAIN Visuals(d)}

FreshUi(d) == [page |-> 1, drill |-> [v \in VisualIds(d) |-> Undrilled],
               cross |-> NoMark, slicers |-> <<>>]

hierarchyById(d, id) == d.hierarchies[CHOOSE i \in DOMAIN d.hierarchies : d.hierarchies[i].id = id]

currentLevel(h, depth) == h.levels[Min({depth + 1, Len(h.levels)})]

depthOf(drill, id) == IF drill.hierarchy = id THEN Len(drill.path) ELSE 0

(* Hierarchies give way to the level on show.                                *)
resolveWells(wells, d, drill) ==
  [k \in DOMAIN wells |-> [i \in DOMAIN wells[k] |->
     IF IsHierarchy(wells[k][i])
     THEN currentLevel(hierarchyById(d, wells[k][i][2]), depthOf(drill, wells[k][i][2]))
     ELSE wells[k][i]]]

Equals(field, values) == [op |-> "is", field |-> field, values |-> values]

drillFilters(drill) ==
  [i \in DOMAIN drill.path |-> Equals(drill.path[i].field, <<drill.path[i].value>>)]

slicerFiltersFrom(slicers) == [i \in DOMAIN slicers |-> Equals(slicers[i].field, slicers[i].values)]

(* Those that are active, in their order: after n of them.                   *)
Active(filters) ==
  LET kept[n \in 0..Len(filters)] ==
        IF n = 0 THEN <<>>
        ELSE kept[n - 1] \o IF is_active(filters[n]) THEN <<filters[n]>> ELSE <<>>
  IN kept[Len(filters)]

(* "A visual filtering itself by its own selection would collapse".          *)
effectiveFilters(d, page, visual, slicerFilters, drill, cross) ==
  Active(d.filters \o page.filters \o slicerFilters \o visual.filters \o drillFilters(drill))
    \o (IF cross = NoMark \/ cross.source = visual.id THEN <<>>
        ELSE <<Equals(cross.field, <<cross.value>>)>>)

(* A request and what the statement of SemanticQuery leaves out of it: the   *)
(* direction of the order, the function over each fact.                      *)
Asked(dims, mets, fns, filters, order, direction, limit) ==
  [q |-> [Plain EXCEPT !.dims = dims, !.mets = mets, !.facts = DOMAIN fns, !.filters = filters,
            !.order = order, !.limit = limit],
   fns |-> fns, direction |-> IF order = NoField THEN "" ELSE direction]

(* A fact without a stored function is summed.                               *)
splitMeasures(measures, stored) ==
  [f \in measures \cap detail.facts |-> IF f \in DOMAIN stored THEN stored[f] ELSE "sum"]

(* A sort by what is not selected is dropped, and the limit with it.         *)
rowShapingFor(v, selected) ==
  LET sorted == v.sort.field \in selected IN
  [order |-> IF sorted THEN v.sort.field ELSE NoField,
   direction |-> IF v.sort.direction = "desc" THEN "desc" ELSE "asc",
   limit |-> IF sorted THEN v.topN ELSE 0]

RequestOf(v, dims, measures, filters, shape) ==
  Asked(dims, measures \ detail.facts, splitMeasures(measures, v.aggregations), filters,
        shape.order, shape.direction, shape.limit)

DimensionsOf(v, wells) == wells_to_query(v.type, wells, "dimension")
MeasuresOf(v, wells) == wells_to_query(v.type, wells, "metric")

ready(v, u) == v.type # "slicer" /\ validate_wells(v.type, resolveWells(v.wells, doc, u.drill[v.id]))

QueryOf(v, wells, filters) ==
  RequestOf(v, DimensionsOf(v, wells), MeasuresOf(v, wells), filters,
            rowShapingFor(v, DimensionsOf(v, wells) \cup MeasuresOf(v, wells)))

useVisualQuery(p, v, u) ==
  QueryOf(v, resolveWells(v.wells, doc, u.drill[v.id]),
          effectiveFilters(doc, doc.pages[p], v, slicerFiltersFrom(u.slicers), u.drill[v.id], u.cross))

Shown(p) == ToSet(doc.pages[p].visuals)

(* Types that are drawn as a chart answer a click on a mark.                 *)
Charted(v) == v.type \notin {"kpi", "table", "matrix", "multiCard", "slicer"}

(* The document is read back upgraded, and shown from its first page.        *)
OpenReport(d) ==
  /\ parse_definition(migrate_definition(d))
  /\ doc' = migrate_definition(d)
  /\ ui' = FreshUi(doc')
  /\ UNCHANGED <<detail, out>>

(* A click drills as long as there is a level below, else selects the mark,  *)
(* and once more clears it.                                                  *)
onMark(v, value) ==
  LET drill == ui.drill[v.id]
      axis == Refs(v.wells, "axis")
      ref == IF axis = <<>> THEN NoField ELSE axis[1]
      h == hierarchyById(doc, ref[2])
      depth == depthOf(drill, ref[2])
      wells == resolveWells(v.wells, doc, drill)
      first == Refs(wells, "axis") \o Refs(wells, "legend")
      mark == [source |-> v.id, field |-> first[1], value |-> value] IN
  /\ Charted(v) /\ ready(v, ui)
  /\ IF ref # NoField /\ IsHierarchy(ref) /\ depth < Len(h.levels) - 1
     THEN ui' = [ui EXCEPT !.drill[v.id] =
            [hierarchy |-> ref[2],
             path |-> (IF @.hierarchy = ref[2] THEN @.path ELSE <<>>)
                        \o <<[field |-> currentLevel(h, depth), value |-> value]>>]]
     ELSE first # <<>> /\ ui' = [ui EXCEPT !.cross = IF @ = mark THEN NoMark ELSE mark]

drillUp(v) ==
  /\ ui.drill[v.id] # Undrilled
  /\ ui' = [ui EXCEPT !.drill[v.id] =
       IF Len(@.path) = 1 THEN Undrilled ELSE [@ EXCEPT !.path = Front(@)]]

Without(slicers, field) == SelectSeq(slicers, LAMBDA s : s.field # field)

(* A field that is sliced already keeps its place.                           *)
With(slicers, field, values) ==
  IF \E s \in ToSet(slicers) : s.field = field
  THEN [i \in DOMAIN slicers |->
          IF slicers[i].field = field THEN [slicers[i] EXCEPT !.values = values] ELSE slicers[i]]
  ELSE Append(slicers, [field |-> field, values |-> values])

(* The ticks of a slicer's field; without any, the field is forgotten.       *)
onSlicerChange(v, values) ==
  LET field == v.wells.field[1] IN
  /\ v.type = "slicer" /\ ~ IsHierarchy(field)
  /\ ui' = [ui EXCEPT !.slicers =
       IF values = <<>> THEN Without(@, field) ELSE With(@, field, values)]

(* What is selected and sliced stays behind on the page.                     *)
Focused(p) == [ui EXCEPT !.page = p, !.cross = NoMark, !.slicers = <<>>]

focusPage(p) == ui.page # p /\ ui' = Focused(p)

CloseReport == doc' = NoDoc /\ ui' = FreshUi(NoDoc) /\ detail' = NoView /\ UNCHANGED out
-----------------------------------------------------------------------------
(* The workbook: filters.ts sheetRequestsFor, as BuilderPage calls it, which *)
(* hands over no slicers; and export/service.py _request, which takes no     *)
(* aggregations.                                                             *)

(* Mutant: the selected mark constrains every page.                          *)
sheetRequestsFor_AllPages(p, v) ==
  LET wells == resolveWells(v.wells, doc, ui.drill[v.id]) IN
  Asked(wells_to_query(v.type, wells, "dimension"), wells_to_query(v.type, wells, "metric"), <<>>,
        effectiveFilters(doc, doc.pages[p], v, <<>>, ui.drill[v.id], ui.cross), NoField, "", 0)

sheetRequestsFor(p, v) ==
  LET wells == resolveWells(v.wells, doc, ui.drill[v.id])
      pageCross == IF \E x \in Shown(p) : x.id = ui.cross.source THEN ui.cross ELSE NoMark IN
  Asked(wells_to_query(v.type, wells, "dimension"), wells_to_query(v.type, wells, "metric"), <<>>,
        effectiveFilters(doc, doc.pages[p], v, <<>>, ui.drill[v.id], pageCross), NoField, "", 0)

Statement(request) == build_semantic_sql(detail, request.q, RowCap)

Sheets ==
  {s \in (DOMAIN doc.pages) \X ToSet(Visuals(doc)) : s[2] \in Shown(s[1]) /\ s[2].type # "slicer"}

(* A sheet whose statement is refused takes the workbook with it.            *)
export_workbook ==
  LET sheet == [s \in Sheets |-> Statement(sheetRequestsFor(s[1], s[2]))] IN
  IF \E s \in Sheets : sheet[s].refused # "" THEN <<>> ELSE sheet
-----------------------------------------------------------------------------
(* The feed: `extra` is what its URL filters by (?f.FIELD=value).            *)

(* Mutant: it serves the deepest level.                                      *)
_top_level_Deepest(ref) ==
  IF IsHierarchy(ref) THEN Last(hierarchyById(doc, ref[2]).levels) ELSE ref

_top_level(ref) ==
  IF IsHierarchy(ref) THEN hierarchyById(doc, ref[2]).levels[1] ELSE ref

build_feed_request(p, v, extra) ==
  LET wells == [k \in DOMAIN v.wells |-> [i \in DOMAIN v.wells[k] |-> _top_level(v.wells[k][i])]]
      metrics == wells_to_query(v.type, wells, "metric")
      aggregated == DOMAIN v.aggregations \cap metrics IN
  Asked(wells_to_query(v.type, wells, "dimension"), metrics \ aggregated,
        [f \in aggregated |-> v.aggregations[f]],
        doc.filters \o doc.pages[p].filters \o v.filters \o extra,
        v.sort.field, IF v.sort.direction = "" THEN "desc" ELSE v.sort.direction, v.topN)
-----------------------------------------------------------------------------
VisualsInit == QueryInit /\ doc = NoDoc /\ ui = FreshUi(NoDoc)

Click ==
  /\ doc # NoDoc
  /\ \/ \E v \in Shown(ui.page), x \in Clicked : onMark(v, x)
     \/ \E v \in Shown(ui.page) : drillUp(v)
     \/ \E v \in Shown(ui.page), xs \in {<<>>} \cup {<<x>> : x \in Clicked} : onSlicerChange(v, xs)
     \/ \E p \in DOMAIN doc.pages : focusPage(p)
  /\ UNCHANGED <<detail, out, doc>>

VisualsNext ==
  \/ doc = NoDoc /\ QueryNext /\ UNCHANGED <<doc, ui>>
  \/ Idle /\ detail # NoView /\ doc = NoDoc /\ \E d \in Document(detail) : OpenReport(d)
  \/ Click
  \/ doc # NoDoc /\ CloseReport

VisualsSpec == VisualsInit /\ [][VisualsNext]_<<queryVars, doc, ui>>

(* The pydantic models type a document; the builder writes its options.      *)
Listed(s) == s \in Seq(ToSet(s))

VisualTyped(v) ==
  /\ v.id \in Nat \ {0} /\ Listed(v.filters)
  /\ \A k \in DOMAIN v.wells : Listed(v.wells[k])
  /\ v.sort.direction \in {"", "asc", "desc"}

DocumentTyped(d) ==
  /\ Listed(d.pages) /\ Listed(d.filters) /\ Listed(d.hierarchies)
  /\ \A h \in ToSet(d.hierarchies) : Listed(h.levels)
  /\ \A page \in ToSet(d.pages) :
       Listed(page.visuals) /\ Listed(page.filters) /\ \A v \in ToSet(page.visuals) : VisualTyped(v)

ASSUME UpgradedAssumption ==
  \A v \in View : \A d \in Document(describe_semantic_view(v)) :
    parse_definition(migrate_definition(d)) => DocumentTyped(migrate_definition(d))
-----------------------------------------------------------------------------
(* What the feed and the screen are known to read differently: a sort by     *)
(* what is not selected, a limit without a sort, a sort without a direction, *)
(* a fact without a stored function, a stored function of what is no fact,   *)
(* an unfinished filter by what the view does not have: the screen leaves it *)
(* out, the feed sends it and is refused.                                    *)
ReadDifferently(v, q, filters) ==
  \/ v.sort.field \notin q.dims \cup q.mets \cup q.facts \cup {NoField}
  \/ v.sort.field = NoField /\ v.topN # 0
  \/ v.sort.field # NoField /\ v.sort.direction = ""
  \/ ~ q.facts \subseteq DOMAIN v.aggregations
  \/ DOMAIN v.aggregations \cap q.mets # {}
  \/ \E f \in ToSet(filters) : ~ is_active(f) /\ f.field \notin _filterable(detail)

SameAnswer(feed, tile) ==
  Statement(tile).refused = "" =>
    Statement(feed) = Statement(tile) /\ feed.fns = tile.fns /\ feed.direction = tile.direction

(* "the same wells, the same three filter scopes -- so the feed shows what   *)
(* the report shows ... exactly as a freshly opened report does", and a      *)
(* filter of its URL does what a selected mark does: where the fresh tile    *)
(* has an answer, the feed's is the same.                                    *)
FeedShowsReport ==
  doc # NoDoc =>
    \A p \in DOMAIN doc.pages : \A v \in Shown(p), mark \in {NoMark, [ui.cross EXCEPT !.source = 0]} :
      LET fresh == [FreshUi(doc) EXCEPT !.cross = mark]
          extra == IF mark = NoMark THEN <<>> ELSE <<Equals(mark.field, <<mark.value>>)>> IN
      ready(v, fresh) =>
        \A tile \in {useVisualQuery(p, v, fresh)}, feed \in {build_feed_request(p, v, extra)} :
          ~ ReadDifferently(v, tile.q, feed.q.filters) => SameAnswer(feed, tile)

SameTable(sheet, screen) ==
  screen.refused = "" =>
    /\ Columns(sheet) = Columns(screen)
    /\ sheet.fragments = screen.fragments /\ sheet.params = screen.params

(* "an export can never quietly disagree with the screen it was taken from": *)
(* if there is a workbook, each sheet has the columns and the filters of its *)
(* tile, drilled and selected as it is, and on other pages as the user would *)
(* find it there.  (The exception: the page's own slicers.)                  *)
ExportShowsScreen ==
  doc # NoDoc =>
    \A workbook \in {export_workbook} : \A s \in DOMAIN workbook :
      LET u == IF s[1] = ui.page THEN ui ELSE Focused(s[1]) IN
      ready(s[2], u) /\ u.slicers = <<>> =>
        SameTable(workbook[s], Statement(useVisualQuery(s[1], s[2], u)))
=============================================================================
