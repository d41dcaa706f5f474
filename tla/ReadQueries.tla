---------------------------- MODULE ReadQueries ----------------------------
(***************************************************************************)
(* The statements of store/read.rs, as functions of the database they run  *)
(* on: a statement reads one state of it.                                  *)
(*                                                                         *)
(*   database [series |-> series id -> [type, attrs], rows |-> a set]      *)
(*   row      [id, time, series, body]                                     *)
(*   attrs and body are functions from the keys they hold to JSON values,  *)
(*            [kind, text], with the text that CAST(... AS TEXT) gives     *)
(*   query    [types, from, to, attrs, body, limit, cursor], as QuerySpec; *)
(*            the filters are sets of <<key, text>>, as they are ANDed     *)
(***************************************************************************)
EXTENDS Integers, FiniteSets, Sequences

CONSTANTS
  TextOrder,          \* every text and name of the model, in SQLite's order
  NumberOf,           \* the texts that parse as numbers, and the numbers
  None,               \* SQL's NULL and Rust's None
  MAX_LIMIT, FACET_SCAN_LIMIT, MAX_FACET_VALUES, PALETTE_SLOTS

Lesser(a, b) == IF a < b THEN a ELSE b
Greater(a, b) == IF a < b THEN b ELSE a
Least(S) == CHOOSE x \in S : \A y \in S : x <= y
Greatest(S) == CHOOSE x \in S : \A y \in S : y <= x

\* The elements of S in the order of Before, a strict total order on S.
Ranked(S, Before(_, _)) ==
  [i \in 1..Cardinality(S) |->
     CHOOSE x \in S : Cardinality({y \in S : Before(y, x)}) = i - 1]
First(s, n) == SubSeq(s, 1, Lesser(n, Len(s)))
\* The elements of the list s that are in S, in the order of s.
Keep(s, S) ==
  LET places == Ranked({i \in DOMAIN s : s[i] \in S}, <)
  IN [n \in DOMAIN places |-> s[places[n]]]

TextBefore(a, b) ==
  \E i, j \in DOMAIN TextOrder : i < j /\ TextOrder[i] = a /\ TextOrder[j] = b
NumberBefore(a, b) ==
  NumberOf[a] < NumberOf[b] \/ (NumberOf[a] = NumberOf[b] /\ TextBefore(a, b))
---------------------------------------------------------------------------
\* FieldRef: which half of a measurement a field lives in
Attribute(key) == [half |-> "attribute", key |-> key]
Body(key) == [half |-> "body", key |-> key]

\* json_type, by its answers: NULL for a key that is not there
Nested(leaves, key) == key \in DOMAIN leaves /\ leaves[key].kind = "nested"
Numeric(leaves, key) == key \in DOMAIN leaves /\ leaves[key].kind = "number"
\* CAST(json_extract(leaves, key) AS TEXT)
TextOf(leaves, key) ==
  IF key \in DOMAIN leaves /\ leaves[key].kind # "null"
  THEN leaves[key].text ELSE None
FieldEquals(leaves, filters) ==
  \A f \in filters :
    /\ f[1] \in DOMAIN leaves /\ ~Nested(leaves, f[1])
    /\ TextOf(leaves, f[1]) = f[2]

\* The two halves of push_filters, and the rows that pass both.
SeriesFilter(q, s) ==
  /\ q.types = {} \/ s.type \in q.types
  /\ FieldEquals(s.attrs, q.attrs)
MeasurementFilter(q, m) ==
  /\ q.from = None \/ m.time >= q.from
  /\ q.to = None \/ m.time < q.to
  /\ FieldEquals(m.body, q.body)
Matching(db, q) ==
  {m \in db.rows : SeriesFilter(q, db.series[m.series]) /\ MeasurementFilter(q, m)}
SeriesOf(db, q) == {s \in DOMAIN db.series : SeriesFilter(q, db.series[s])}
RowsOf(db, q, s) == {m \in db.rows : m.series = s /\ MeasurementFilter(q, m)}

\* ORDER BY event_time DESC, id DESC
Newer(m, n) == m.time > n.time \/ (m.time = n.time /\ m.id > n.id)
\* Mutation of PastCursor: from the time of the last row on, its id not compared.
PastCursorByTime(q, m) == q.cursor = None \/ m.time < q.cursor[1]
PastCursor(q, m) ==
  q.cursor = None \/ m.time < q.cursor[1]
                  \/ (m.time = q.cursor[1] /\ m.id < q.cursor[2])
query(db, q) ==
  First(Ranked({m \in Matching(db, q) : PastCursor(q, m)}, Newer),
        Lesser(Greater(q.limit, 1), MAX_LIMIT))
---------------------------------------------------------------------------
types(db) == Ranked({db.series[m.series].type : m \in db.rows}, TextBefore)

\* What `offer` leaves of the values of one key, which reach it in order.
Offer(texts) ==
  LET values == Ranked(texts \ {None}, TextBefore)
  IN [values |-> First(values, MAX_FACET_VALUES),
      truncated |-> Len(values) > MAX_FACET_VALUES]

\* The keys and texts of some JSON objects, nested values left out.
KeysIn(objects) == {k \in UNION {DOMAIN o : o \in objects} :
                      \E o \in objects : k \in DOMAIN o /\ ~Nested(o, k)}
TextsIn(objects, key) ==
  {TextOf(o, key) : o \in {p \in objects : key \in DOMAIN p /\ ~Nested(p, key)}}

\* Exact: from the attributes of every series with a row in the slice.
AttributesInSlice(db, q) ==
  {db.series[s].attrs : s \in {t \in SeriesOf(db, q) : RowsOf(db, q, t) # {}}}
\* Mutation of attribute_facets: of every series that the filters choose.
attribute_facets_of_series(db, q) ==
  LET all == {db.series[s].attrs : s \in SeriesOf(db, q)}
  IN [k \in KeysIn(all) |-> Offer(TextsIn(all, k))]
attribute_facets(db, q) ==
  LET slice == AttributesInSlice(db, q)
  IN [k \in KeysIn(slice) |-> Offer(TextsIn(slice, k))]

\* A sample: the newest rows of the slice, their bodies.
BodySample(db, q) == First(Ranked(Matching(db, q), Newer), FACET_SCAN_LIMIT)
BodiesIn(sample) == {sample[i].body : i \in DOMAIN sample}
BodyFacets(sample) ==
  LET bodies == BodiesIn(sample)
  IN [k \in KeysIn(bodies) |->
        [numeric |-> \E b \in bodies : Numeric(b, k),
         values |-> Offer(TextsIn(bodies, k)).values,
         truncated |-> Offer(TextsIn(bodies, k)).truncated]]

facets(db, q) ==
  LET sample == BodySample(db, q)
  IN [attrs |-> attribute_facets(db, q), fields |-> BodyFacets(sample),
      scanned |-> Len(sample), capped |-> Len(sample) >= FACET_SCAN_LIMIT]

\* The values of one field, its own filter left out of the slice.
Widened(q, field) ==
  LET others(filters) == {f \in filters : f[1] # field.key}
  IN IF field.half = "attribute" THEN [q EXCEPT !.attrs = others(@)]
     ELSE [q EXCEPT !.body = others(@)]
facet_values_excluding(db, q, field) ==
  LET wide == Widened(q, field)
  IN Offer(TextsIn(IF field.half = "attribute" THEN AttributesInSlice(db, wide)
                   ELSE BodiesIn(BodySample(db, wide)), field.key))

sort_facet_values(values) ==
  LET all == {values[i] : i \in DOMAIN values}
  IN IF all \subseteq DOMAIN NumberOf THEN Ranked(all, NumberBefore)
     ELSE Ranked(all, TextBefore)
---------------------------------------------------------------------------
\* min and max of event_time over a slice: each bound of each matching series,
\* folded; over the rows where no filter reads series, or where one reads the body.
Bounds(times) == IF times = {} THEN None ELSE <<Least(times), Greatest(times)>>
Times(rows) == {m.time : m \in rows}
extent(db, q) ==
  IF q.body # {} \/ (q.types = {} /\ q.attrs = {})
  THEN Bounds(Times(Matching(db, q)))
  ELSE LET bounds == {Bounds(Times(RowsOf(db, q, s))) : s \in SeriesOf(db, q)} \ {None}
       IN IF bounds = {} THEN None
          ELSE <<Least({b[1] : b \in bounds}), Greatest({b[2] : b \in bounds})>>

bucket_nanos(from, to, buckets) ==
  Greater(Greater(to - from, 1) \div Greater(buckets, 1), 1)
\* (t / width) * width, with SQLite's division towards zero
BucketStart(t, width) ==
  IF t >= 0 THEN (t \div width) * width ELSE -(((-t) \div width) * width)

\* push_group: the rows of the wanted groups, and the group each is in.
InGroups(leaves, key, groups) ==
  groups = <<>> \/ \E i \in DOMAIN groups : TextOf(leaves, key) = groups[i]
GroupOf(leaves, key) == IF Nested(leaves, key) THEN None ELSE TextOf(leaves, key)

\* One bucket of one series: the average is its sum over its count of values.
Point(rows, field, start) ==
  LET valued == {m \in rows : field # None /\ Numeric(m.body, field)}
      numbers == {NumberOf[m.body[field].text] : m \in valued}
      SumOf[S \in SUBSET valued] ==
        IF S = {} THEN 0
        ELSE LET m == CHOOSE x \in S : TRUE
             IN NumberOf[m.body[field].text] + SumOf[S \ {m}]
  IN [start |-> start, count |-> Cardinality(rows),
      value_count |-> Cardinality(valued),
      avg |-> IF valued = {} THEN None ELSE <<SumOf[valued], Cardinality(valued)>>,
      min |-> IF valued = {} THEN None ELSE Least(numbers),
      max |-> IF valued = {} THEN None ELSE Greatest(numbers)]

\* The leaves a chart is split by: of the row's series, or its own.
LeavesOf(db, m, group) ==
  IF group.half = "attribute" THEN db.series[m.series].attrs ELSE m.body
RowGroup(db, m, group) ==
  IF group = None THEN None ELSE GroupOf(LeavesOf(db, m, group), group.key)
Points(rows, field, width) ==
  LET starts == Ranked({BucketStart(m.time, width) : m \in rows}, <)
  IN [i \in DOMAIN starts |->
        Point({m \in rows : BucketStart(m.time, width) = starts[i]}, field, starts[i])]

\* One series per group: the wanted ones first, in the order they were asked for,
\* and whatever else came back after them.
series(db, q, field, group, groups, width) ==
  LET rows == {m \in Matching(db, q) :
                 group = None \/ InGroups(LeavesOf(db, m, group), group.key, groups)}
      found == {RowGroup(db, m, group) : m \in rows}
      wanted == Keep(groups, found)
      others == found \ {wanted[i] : i \in DOMAIN wanted}
      order == wanted \o Ranked(others, LAMBDA a, b : (a = None /\ b # None) \/ TextBefore(a, b))
  IN [i \in DOMAIN order |->
        [group |-> order[i],
         points |-> Points({m \in rows : RowGroup(db, m, group) = order[i]}, field, width)]]
=============================================================================
