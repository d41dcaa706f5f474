------------------------------ MODULE Explorer ------------------------------
(***************************************************************************)
(* The measurement pages (web/mod.rs): a reader follows the links and the  *)
(* form of one page to the next, while the writer commits rows and time    *)
(* passes. A page is read from the database statement by statement, with   *)
(* no transaction around them: a commit can fall between two of them.      *)
(*                                                                         *)
(* A program pages through the same rows by the JSON API (api/query.rs),    *)
(* which reads a page in one statement.                                    *)
(*                                                                         *)
(* A URL is a record of its parameters, None or {} for one that is absent  *)
(* or empty; a filter set holds each key once, as every form and link does.*)
(***************************************************************************)
EXTENDS Plot, SequencesExt

CONSTANTS
  Spans,              \* RANGES: preset -> its length, 0 for "all"
  DEFAULT_RANGE, PAGE_LIMIT, SERIES_BUCKETS, SEC, DAY,
  Catalogue,          \* series id -> [type, attrs]
  Stored,             \* the rows there are at first
  Arriving,           \* the rows the writer may still commit
  Start,              \* the time at first
  Bookmarks,          \* the URLs a reader may come in by
  Requests,           \* what a client may ask of the JSON API at first
  \* bounds
  MaxTime, MaxVisits

Instants == Int
Cursors == Instants \X Int
\* What the code reads out of a URL: a bound is an instant, a cursor a row's place.
IsPageUrl(u) ==
  u.from \in Instants \cup {None} /\ u.to \in Instants \cup {None} /\ u.cursor \in Cursors \cup {None}
IsRequest(u) ==
  /\ DOMAIN u = {"types", "from", "to", "attrs", "limit", "cursor"}
  /\ IsPageUrl(u) /\ u.limit \in Int
IsRow(m) == m.time \in Instants /\ m.id \in Int /\ m.series \in DOMAIN Catalogue

ASSUME LimitsAssumption ==
  /\ MAX_LIMIT \in Nat /\ FACET_SCAN_LIMIT \in Nat /\ MAX_FACET_VALUES \in Nat
  /\ PALETTE_SLOTS \in Nat /\ SERIES_BUCKETS \in Nat
  /\ PAGE_LIMIT \in Nat /\ 0 < PAGE_LIMIT /\ PAGE_LIMIT < MAX_LIMIT
ASSUME RangesAssumption ==
  /\ \A r \in DOMAIN Spans : Spans[r] \in Nat
  /\ "all" \in DOMAIN Spans => Spans["all"] = 0
  /\ SEC \in Nat \ {0} /\ DAY \in Nat \ {0}
ASSUME NoneAssumption == None \notin Instants \cup Cursors /\ None \notin {"custom", DEFAULT_RANGE}
\* A row is known by its time and its id.
ASSUME RowsAssumption ==
  /\ IsFiniteSet(Stored \cup Arriving) /\ IsFiniteSet(DOMAIN Catalogue)
  /\ \A m \in Stored \cup Arriving : IsRow(m)
  /\ \A m, n \in Stored \cup Arriving : m.time = n.time /\ m.id = n.id => m = n
\* TextOrder has every text once, and every value of an attribute that is not NULL.
ASSUME TextsAssumption ==
  /\ TextOrder \in Seq(ToSet(TextOrder)) /\ None \notin ToSet(TextOrder)
  /\ \A i, j \in DOMAIN TextOrder : TextOrder[i] = TextOrder[j] => i = j
  /\ \A t \in DOMAIN NumberOf : NumberOf[t] \in Int
  /\ \A s \in DOMAIN Catalogue : \A k \in DOMAIN Catalogue[s].attrs :
        LET value == Catalogue[s].attrs[k]
        IN value.kind \in {"null", "nested"} \/ value.text \in ToSet(TextOrder)
ASSUME VisitsAssumption ==
  /\ Start \in Instants
  /\ \A u \in Bookmarks : IsPageUrl(u)
  /\ \A u \in Requests : IsRequest(u)

VARIABLES
  db,                 \* the database
  now,                \* the receiver's clock
  path, url,          \* the page asked for
  stage,              \* which statement of `gather` is next
  got,                \* ExploreData, as far as it has been read
  trail,              \* history: the rows listed along "older" links, and those owed
  visits

vars == <<db, now, path, url, stage, got, trail, visits>>

API == "/v1/measurements"
Stages == <<"window", "facets", "timeline", "charts", "rows">>
NoFacets == [attrs |-> <<>>, fields |-> <<>>, scanned |-> 0, capped |-> FALSE]
NoData == [types |-> <<>>, window |-> <<0, 0>>, now |-> 0, bucket |-> 1, facets |-> NoFacets,
           timeline |-> <<>>, charts |-> <<>>, rows |-> <<>>, more |-> FALSE]
NoTrail == [rows |-> <<>>, owed |-> {}]
FrontPage == [range |-> None, from |-> None, to |-> None, kind |-> None, t0 |-> None,
              attrs |-> {}, body |-> {}, fields |-> {}, group |-> None, hidden |-> {},
              cursor |-> None]
---------------------------------------------------------------------------
\* Another type clears what was scoped to the old one; then a bound that does not
\* belong to the shape of the window is dropped.
parse_explore(u) ==
  LET changed == u.t0 # None /\ u.t0 # u.kind
      range == IF u.range # None THEN u.range
               ELSE IF u.from # None THEN "custom" ELSE DEFAULT_RANGE
      kept == IF changed THEN FrontPage ELSE u
  IN [range |-> range,
      from |-> IF range = "custom" THEN u.from ELSE None,
      to |-> IF range = "all" THEN None ELSE u.to,
      kind |-> u.kind, attrs |-> kept.attrs, body |-> kept.body, fields |-> kept.fields,
      group |-> kept.group, hidden |-> kept.hidden, cursor |-> kept.cursor]
\* The view as parameters, for a link: all of it but the cursor.
current_params(p) ==
  [range |-> p.range, from |-> p.from, to |-> p.to, kind |-> p.kind, t0 |-> p.kind,
   attrs |-> p.attrs, body |-> p.body, fields |-> p.fields, group |-> p.group,
   hidden |-> p.hidden, cursor |-> None]
view == parse_explore(url)

filter(p, window, limit) ==
  [types |-> IF p.kind = None THEN {} ELSE {p.kind}, from |-> window[1], to |-> window[2],
   attrs |-> p.attrs, body |-> p.body, limit |-> limit, cursor |-> p.cursor]

\* An explicit bound, then a preset, then the extent of the data, which no value
\* filter narrows and whose end is made exclusive.
SpanOf(p) == IF p.range \in DOMAIN Spans THEN Spans[p.range] ELSE 0
Extent(d, p, t) ==
  LET found == extent(d, [filter(p, <<None, None>>, PAGE_LIMIT) EXCEPT !.attrs = {}, !.body = {}])
  IN IF found = None THEN <<t - DAY, t>> ELSE <<found[1], found[2] + 1>>
Window(d, p, t) ==
  LET asked == IF p.from # None THEN <<p.from, IF p.to = None THEN t ELSE p.to>>
               ELSE IF SpanOf(p) = 0 THEN Extent(d, p, t)
               ELSE LET end == IF p.to = None THEN t ELSE p.to IN <<end - SpanOf(p), end>>
  IN IF asked[2] > asked[1] THEN asked ELSE <<asked[1], asked[1] + SEC>>

\* A filtered key is offered what it could be without its own filter: an attribute
\* even where the slice has no such key, a leaf of the body only where it has.
discover_facets(d, q) ==
  LET found == facets(d, q)
      Keys(filters) == {f[1] : f \in filters}
      Sorted(facet) == [facet EXCEPT !.values = sort_facet_values(@)]
      Others(half, k) == facet_values_excluding(d, q, [half |-> half, key |-> k])
      attrs == [k \in DOMAIN found.attrs \cup Keys(q.attrs) |->
                  IF k \in Keys(q.attrs) THEN Others("attribute", k) ELSE found.attrs[k]]
      fields == [k \in DOMAIN found.fields |->
                   IF k \in Keys(q.body)
                   THEN [numeric |-> found.fields[k].numeric,
                         values |-> Others("body", k).values,
                         truncated |-> Others("body", k).truncated]
                   ELSE found.fields[k]]
  IN [attrs |-> [k \in DOMAIN attrs |-> Sorted(attrs[k])],
      fields |-> [k \in DOMAIN fields |-> Sorted(fields[k])],
      scanned |-> found.scanned, capped |-> found.capped]

MAX_SERIES == PALETTE_SLOTS * 3
\* Every value of the field a chart is split by, in the order that decides the slots.
GroupValues(p, found) ==
  LET of == IF p.group = None THEN <<>>
            ELSE IF p.group.half = "attribute" THEN found.attrs ELSE found.fields
  IN IF p.group = None \/ p.group.key \notin DOMAIN of THEN <<>>
     ELSE sort_facet_values(of[p.group.key].values)
\* The hidden ones keep their slots and are not asked for.
Chart(d, p, field) ==
  LET all == GroupValues(p, got.facets)
      groups == First(all, MAX_SERIES)
      visible == Keep(groups, ToSet(groups) \ p.hidden)
  IN [series |-> series(d, filter(p, got.window, PAGE_LIMIT), field, p.group, visible, got.bucket),
      slots |-> [i \in DOMAIN visible |-> (CHOOSE j \in DOMAIN groups : groups[j] = visible[i]) - 1],
      groups |-> groups, total_groups |-> Len(all)]
Charted(p) ==
  {f \in p.fields : f \in DOMAIN got.facets.fields /\ got.facets.fields[f].numeric}
---------------------------------------------------------------------------
Init ==
  /\ db = [series |-> Catalogue, rows |-> Stored]
  /\ now = Start
  /\ \/ path = "/" /\ url \in Bookmarks
     \/ path = API /\ url \in Requests
  /\ stage = 1
  /\ got = NoData /\ trail = NoTrail /\ visits = 0

\* One statement of `gather` after another, each on the rows there are at that time.
Statement(n) == path # API /\ stage = n /\ stage' = n + 1
Reading == UNCHANGED <<db, now, path, url, visits>>

ReadWindow ==
  /\ Statement(1)
  /\ LET window == Window(db, view, now)
     IN got' = [NoData EXCEPT !.types = types(db), !.window = window, !.now = now,
                              !.bucket = bucket_nanos(window[1], window[2], SERIES_BUCKETS)]
  /\ Reading /\ UNCHANGED trail

ReadFacets ==
  /\ Statement(2)
  /\ got' = IF view.kind = None THEN got
            ELSE [got EXCEPT !.facets = discover_facets(db, filter(view, got.window, PAGE_LIMIT))]
  /\ Reading /\ UNCHANGED trail

ReadTimeline ==
  /\ Statement(3)
  /\ LET all == series(db, filter(view, got.window, PAGE_LIMIT), None, None, <<>>, got.bucket)
     IN got' = [got EXCEPT !.timeline = IF all = <<>> THEN <<>> ELSE all[1].points]
  /\ Reading /\ UNCHANGED trail

ReadCharts ==
  /\ Statement(4)
  /\ got' = [got EXCEPT !.charts = [f \in Charted(view) |-> Chart(db, view, f)]]
  /\ Reading /\ UNCHANGED trail

\* One row more than a page tells whether there is another. The history starts over
\* where no cursor was given.
ReadRows ==
  /\ Statement(5)
  /\ LET found == query(db, filter(view, got.window, PAGE_LIMIT + 1))
         rows == First(found, PAGE_LIMIT)
         Owed == Matching(db, filter(view, got.window, PAGE_LIMIT))
     IN /\ got' = [got EXCEPT !.rows = rows, !.more = Len(found) > PAGE_LIMIT]
        /\ trail' = IF view.cursor = None THEN [rows |-> rows, owed |-> Owed]
                    ELSE [trail EXCEPT !.rows = @ \o rows]
  /\ Reading

Read == stage = Len(Stages) + 1
Shown == Read /\ path # API
---------------------------------------------------------------------------
\* filter_row: the controls of the form with what each shows, None for a blank one.
\* A value that is not among the options of a dropdown is not selected.
ValueOf(filters, key) ==
  IF \E f \in filters : f[1] = key THEN (CHOOSE f \in filters : f[1] = key)[2] ELSE None
Options(facet) == {facet.values[i] : i \in DOMAIN facet.values}
Selected(facet, value) ==
  IF facet.truncated \/ value \in Options(facet) THEN value ELSE None
AttrControls == IF view.kind = None THEN {} ELSE DOMAIN got.facets.attrs
BodyControls ==
  IF view.kind = None THEN {}
  ELSE {k \in DOMAIN got.facets.fields :
          got.facets.fields[k].truncated \/ Len(got.facets.fields[k].values) > 1}
FieldBoxes == {k \in DOMAIN got.facets.fields : view.kind # None /\ got.facets.fields[k].numeric}
Groupable ==
  LET Divides(facet) == ~facet.truncated /\ Len(facet.values) > 1
      attrs == {k \in DOMAIN got.facets.attrs : Divides(got.facets.attrs[k])}
      fields == {k \in DOMAIN got.facets.fields : Divides(got.facets.fields[k])}
  IN IF view.kind = None \/ view.fields = {} THEN {}
     ELSE {Attribute(k) : k \in attrs} \cup {Body(k) : k \in fields}
Filled(controls, of, filters) ==
  {f \in {<<k, Selected(of[k], ValueOf(filters, k))>> : k \in controls} : f[2] # None}
Form ==
  [range |-> IF view.range \in DOMAIN Spans THEN view.range ELSE None,
   kind |-> IF view.kind \in Options([values |-> got.types]) THEN view.kind ELSE None,
   t0 |-> view.kind, from |-> view.from, to |-> view.to,
   attrs |-> Filled(AttrControls, got.facets.attrs, view.attrs),
   body |-> Filled(BodyControls, got.facets.fields, view.body),
   fields |-> view.fields \cap FieldBoxes,
   group |-> IF view.group \in Groupable THEN view.group ELSE None,
   hidden |-> {}, cursor |-> None]

\* Another value, or none, for one filter of the form.
Changed(filters, key, value) ==
  {f \in filters : f[1] # key} \cup (IF value = None THEN {} ELSE {<<key, value>>})

\* The reader is off to another page.
Visit(to, u) ==
  /\ Read /\ visits < MaxVisits
  /\ path' = to /\ url' = u /\ stage' = 1 /\ visits' = visits + 1
  /\ got' = NoData
  /\ trail' = IF u.cursor = None THEN NoTrail ELSE trail
  /\ UNCHANGED <<db, now>>

OnExplorer == Shown /\ path = "/"
OnChart == Shown /\ path = "/chart"
PickRange ==
  OnExplorer /\ \E r \in DOMAIN Spans \cup {None} : Visit("/", [Form EXCEPT !.range = r])
PickType ==
  OnExplorer /\ \E k \in Options([values |-> got.types]) \cup {None} :
                  k # Form.kind /\ Visit("/", [Form EXCEPT !.kind = k])
PickAttribute ==
  OnExplorer /\ \E k \in AttrControls : \E v \in Options(got.facets.attrs[k]) \cup {None} :
                  Visit("/", [Form EXCEPT !.attrs = Changed(@, k, v)])
PickLeaf ==
  OnExplorer /\ \E k \in BodyControls : \E v \in Options(got.facets.fields[k]) \cup {None} :
                  Visit("/", [Form EXCEPT !.body = Changed(@, k, v)])
PickField ==
  OnExplorer /\ \E f \in FieldBoxes :
    Visit("/", [Form EXCEPT !.fields = IF f \in @ THEN @ \ {f} ELSE @ \cup {f}])
PickGroup ==
  OnExplorer /\ \E g \in Groupable \cup {None} :
                  Groupable # {} /\ Visit("/", [Form EXCEPT !.group = g])

\* "older": the same view, from the last row shown on.
OlderPage ==
  /\ OnExplorer /\ got.more
  /\ LET last == got.rows[Len(got.rows)]
     IN Visit("/", [current_params(view) EXCEPT !.cursor = <<last.time, last.id>>])

\* steps: the window moved by its own length; one that would reach now is the live view.
NoStep == <<>>
At(p, from, to) == [p EXCEPT !.from = from, !.to = to, !.cursor = None]
\* Mutation of steps: a preset goes back from the present, not from where it stands.
steps_from_now(p, window, t) ==
  [earlier |-> IF p.range = "custom" \/ SpanOf(p) = 0 THEN NoStep ELSE At(p, None, t - SpanOf(p)),
   later |-> NoStep, latest |-> IF p.to = None THEN NoStep ELSE At(p, None, None)]
steps(p, window, t) ==
  LET width == window[2] - window[1]
      next == window[2] + SpanOf(p)
  IN IF p.range = "custom"
     THEN [earlier |-> At(p, window[1] - width, window[1]),
           later |-> IF window[2] < t THEN At(p, window[2], window[2] + width) ELSE NoStep,
           latest |-> NoStep]
     ELSE IF SpanOf(p) = 0
     THEN [earlier |-> NoStep, later |-> NoStep, latest |-> NoStep]
     ELSE [earlier |-> At(p, None, window[1]),
           later |-> IF p.to = None THEN NoStep ELSE At(p, None, IF next < t THEN next ELSE None),
           latest |-> IF p.to # None /\ next < t THEN At(p, None, None) ELSE NoStep]
Step ==
  Shown /\ \E link \in {"earlier", "later", "latest"} :
    LET target == steps(view, got.window, got.now)[link]
    IN target # NoStep /\ Visit(path, current_params(target))

\* The full-size chart of one field, or of the timeline.
OpenChart ==
  /\ OnExplorer
  /\ \E f \in DOMAIN got.charts \cup {None} :
       Visit("/chart", [current_params(view) EXCEPT !.fields = IF f = None THEN {} ELSE {f}])
Back == OnChart /\ Visit("/", current_params(view))

\* Mutation of ZoneLink: the range stays what it was.
ZoneLinkKeepingRange(zone) == [current_params(view) EXCEPT !.from = zone[1], !.to = zone[2]]
\* A zone's link: the explorer on the zone's own window.
ZoneLink(zone) ==
  [current_params(view) EXCEPT !.range = "custom", !.from = zone[1], !.to = zone[2]]
PlotOf(f, geo) ==
  value_chart(got.charts[f].series, got.charts[f].slots, got.window[1], got.window[2], f, geo)
ZonesOf(plot) == IF plot = None THEN <<>> ELSE plot.zones
Zones(geo) ==
  ZonesOf(IF DOMAIN got.charts = {}
          THEN timeline(got.timeline, got.window[1], got.window[2], got.bucket, geo)
          ELSE PlotOf(CHOOSE f \in DOMAIN got.charts : TRUE, geo))
TapZone ==
  OnChart /\ \E geo \in {FULL_WIDE, FULL_NARROW} : \E zone \in ToSet(Zones(geo)) :
    Visit("/", ZoneLink(zone))

\* A legend entry hides its line or brings it back; a single line has no legend.
Legend(f) ==
  LET groups == got.charts[f].groups
  IN IF Len(groups) < 2 THEN {}
     ELSE {[group |-> groups[i], style |-> series_style(i - 1), hidden |-> groups[i] \in view.hidden] :
             i \in DOMAIN groups}
ToggleSeries ==
  Shown /\ \E f \in DOMAIN got.charts : \E entry \in Legend(f) :
    Visit(path, [current_params(view) EXCEPT
                   !.hidden = IF entry.hidden THEN @ \ {entry.group} ELSE @ \cup {entry.group}])
---------------------------------------------------------------------------
\* The JSON API. A request may name several types, and one key twice.
\* Mutation of parse_query: a limit above the largest is left for the statement to cut.
parse_query_unclamped(u) ==
  [types |-> u.types, from |-> u.from, to |-> u.to, attrs |-> u.attrs, body |-> {},
   limit |-> Greater(1, u.limit), cursor |-> u.cursor]
parse_query(u) ==
  [types |-> u.types, from |-> u.from, to |-> u.to, attrs |-> u.attrs, body |-> {},
   limit |-> Greater(1, Lesser(u.limit, MAX_LIMIT)), cursor |-> u.cursor]
\* A full page may have another after it; its cursor is its last row.
List ==
  /\ path = API /\ stage = 1 /\ stage' = Len(Stages) + 1
  /\ LET q == parse_query(url)
         rows == query(db, q)
     IN /\ got' = [NoData EXCEPT !.rows = rows, !.more = Len(rows) = q.limit]
        /\ trail' = IF q.cursor = None THEN [rows |-> rows, owed |-> Matching(db, q)]
                    ELSE [trail EXCEPT !.rows = @ \o rows]
  /\ Reading
next_cursor ==
  IF got.more THEN <<got.rows[Len(got.rows)].time, got.rows[Len(got.rows)].id>> ELSE None
NextPage == path = API /\ next_cursor # None /\ Visit(API, [url EXCEPT !.cursor = next_cursor])
---------------------------------------------------------------------------
\* The writer commits a row; time passes.
Commit ==
  /\ \E m \in Arriving \ db.rows : db' = [db EXCEPT !.rows = @ \cup {m}]
  /\ UNCHANGED <<now, path, url, stage, got, trail, visits>>
Tick ==
  /\ now < MaxTime /\ now' = now + 1
  /\ UNCHANGED <<db, path, url, stage, got, trail, visits>>

Next ==
  \/ ReadWindow \/ ReadFacets \/ ReadTimeline \/ ReadCharts \/ ReadRows
  \/ PickRange \/ PickType \/ PickAttribute \/ PickLeaf \/ PickField \/ PickGroup
  \/ OlderPage \/ Step \/ OpenChart \/ Back \/ TapZone \/ ToggleSeries
  \/ List \/ NextPage
  \/ Commit \/ Tick

Spec == Init /\ [][Next]_vars
---------------------------------------------------------------------------
\* Following "older", or the API's cursors, from a first page to the end lists every row
\* of that page's slice exactly once, newest first, whatever was committed and however the
\* live window moved meanwhile (rows that left the window excepted).
PagesListOnce ==
  Read =>
    /\ \A i, j \in DOMAIN trail.rows : i < j => Newer(trail.rows[i], trail.rows[j])
    /\ ~got.more => \A m \in trail.owed :
                      m.time >= got.window[1] => \E i \in DOMAIN trail.rows : trail.rows[i] = m

\* The values an attribute could take under the other filters, read from the rows.
Holding(d, q, key, text) ==
  \E m \in Matching(d, q) : /\ key \in DOMAIN d.series[m.series].attrs
                            /\ ~Nested(d.series[m.series].attrs, key)
                            /\ TextOf(d.series[m.series].attrs, key) = text
\* The options of an attribute are the values that leave some row when chosen beside
\* the other filters: none missing unless the list says it is cut short, none that
\* leads to an empty page. A filter in force has a control, to get out of it.
OptionsExact ==
  [][stage = 2 /\ stage' = 3 /\ view.kind # None =>
       LET q == filter(view, got.window, PAGE_LIMIT)
           offered == got'.facets.attrs
       IN /\ {f[1] : f \in view.attrs} \subseteq DOMAIN offered
          /\ \A k \in DOMAIN offered :
               LET wide == Widened(q, Attribute(k))
                   values == {t \in {TextOrder[i] : i \in DOMAIN TextOrder} : Holding(db, wide, k, t)}
               IN /\ Options(offered[k]) \subseteq values
                  /\ offered[k].truncated \/ values \subseteq Options(offered[k])
    ]_vars

\* On a full-size chart every row of the window is listed by the page of exactly one of
\* the links over the plot.
ListedBy(link) ==
  LET p == parse_explore(link) IN Matching(db, filter(p, Window(db, p, now), PAGE_LIMIT))
Partitions(zones, rows) ==
  zones # <<>> =>
    \A m \in rows : Cardinality({i \in DOMAIN zones : m \in ListedBy(ZoneLink(zones[i]))}) = 1
ZonesPartition ==
  OnChart => \A geo \in {FULL_WIDE, FULL_NARROW} :
    Partitions(Zones(geo), Matching(db, filter(view, got.window, PAGE_LIMIT)))

\* The window a link leads to, followed at once.
LeadsTo(p) == LET q == parse_explore(current_params(p)) IN Window(db, q, got.now)
\* Steps tile time: earlier is as long and ends where this window begins; later leaves no
\* instant out between the two and moves on, or arrives at the live view; where it is not
\* offered, the window is already up to the present.
StepsTile ==
  Shown =>
    LET there == steps(view, got.window, got.now)
    IN /\ there.earlier # NoStep =>
            /\ LeadsTo(there.earlier)[2] = got.window[1]
            /\ LeadsTo(there.earlier)[2] - LeadsTo(there.earlier)[1] = got.window[2] - got.window[1]
       /\ there.later # NoStep =>
            /\ LeadsTo(there.later)[1] <= got.window[2]
            /\ got.window[2] < LeadsTo(there.later)[2] \/ LeadsTo(there.later)[2] = got.now
       /\ there.later = NoStep /\ there.earlier # NoStep => got.window[2] >= got.now
       /\ there.latest # NoStep => LeadsTo(there.latest)[2] = got.now

\* The labels of a value axis fit its margin, and where there are two or more each
\* states its line exactly.
Honest(labels) ==
  /\ labels # <<>>
  /\ \A i \in DOMAIN labels : /\ labels[i].chars <= MAX_TICK_CHARS
                              /\ Len(labels) = 1 \/ labels[i].states = labels[i].tick
Labelled(plot) == plot # None => Honest(plot.labels)
AxisHonest ==
  Shown => \A f \in DOMAIN got.charts : \A geo \in {INLINE, FULL_WIDE, FULL_NARROW} :
    Labelled(PlotOf(f, geo))

\* Every line drawn is that of a legend entry which is not hidden, in its style.
LinesOf(plot) == IF plot = None THEN <<>> ELSE plot.lines
Matched(lines, legend) ==
  legend # {} => \A n \in DOMAIN lines : \E entry \in legend :
    entry.group = lines[n].group /\ entry.style = lines[n].style /\ ~entry.hidden
LineMatchesLegend ==
  Shown => \A f \in DOMAIN got.charts : Matched(LinesOf(PlotOf(f, INLINE)), Legend(f))
=============================================================================
