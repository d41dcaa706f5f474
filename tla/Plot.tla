-------------------------------- MODULE Plot --------------------------------
(***************************************************************************)
(* web/svg.rs: what a plot draws and where its links lead, from the points *)
(* of ReadQueries. Lengths are in hundredths of an SVG unit, rounded down, *)
(* and values in hundredths of one. An axis label is the value it states,  *)
(* how many characters it takes, and whether it states its tick exactly.   *)
(* The axis of a flat series is left to its value: its width in the code   *)
(* is a matter of the rounding of floats.                                  *)
(***************************************************************************)
EXTENDS ReadQueries

CONSTANTS
  TIME_STEPS,         \* the ladder of axis steps, finest first
  Columns             \* text -> the columns of a monospace font it takes

MAX_TICK_CHARS == 7
PLAIN_TICK_CHARS == 6
MAX_MARKERS == 40
MAX_END_LABELS == 4
MIN_HIT_WIDTH == 28
END_LABEL_GAP == 600
END_LABEL_EDGE == 200

Geometry(width, left, right, top, value, line, ticks, lines, font) ==
  [width |-> width, pad_left |-> left, pad_right |-> right, pad_top |-> top,
   value_height |-> value, timeline_height |-> line, time_ticks |-> ticks,
   value_ticks |-> lines, label_font |-> font]
INLINE == Geometry(960, 64, 96, 12, 200, 72, 6, 4, 11)
FULL_WIDE == Geometry(1200, 76, 120, 16, 440, 120, 7, 5, 11)
FULL_NARROW == Geometry(420, 64, 14, 14, 320, 96, 3, 4, 13)
plot_right(geo) == geo.width - geo.pad_right
PlotWidth(geo) == plot_right(geo) - geo.pad_left

\* Scale::map: not clamped, and through the middle where the domain has no width.
Scale(d0, d1, r0, r1) == [d0 |-> d0, d1 |-> d1, r0 |-> r0, r1 |-> r1]
Map(s, v) ==
  IF s.d0 = s.d1 THEN 50 * (s.r0 + s.r1)
  ELSE 100 * s.r0 + (100 * (v - s.d0) * (s.r1 - s.r0)) \div (s.d1 - s.d0)

UpTo(a, b) == (a + b - 1) \div b
TicksFrom(first, step, last, target) ==
  [i \in 1..Lesser(target + 3, Greater(0, (last - first) \div step + 1)) |->
     first + (i - 1) * step]
\* The finest step of 1, 2 or 5 times a power of ten that needs no more than target.
PowersOfTen == {10 ^ n : n \in 0..7}
value_ticks(min, max, target) ==
  IF target = 0 THEN <<>>
  ELSE IF min = max THEN <<min>>
  ELSE LET step == Least({s \in {m * p : m \in {1, 2, 5}, p \in PowersOfTen} :
                            s * target >= max - min})
       IN TicksFrom(UpTo(min, step) * step, step, max, target)
time_ticks(from, to, target) ==
  IF to <= from \/ target = 0 THEN <<>>
  ELSE LET fit == {i \in DOMAIN TIME_STEPS : (to - from) \div TIME_STEPS[i] <= target}
           step == TIME_STEPS[IF fit = {} THEN Len(TIME_STEPS) ELSE Least(fit)]
       IN TicksFrom(UpTo(from, step) * step, step, to, target)
---------------------------------------------------------------------------
\* tick_labels. A value is in hundredths: decade -2 is the last one it has.
Magnitude(v) == IF v < 0 THEN -v ELSE v
decade(v) == (CHOOSE n \in 0..9 : 10 ^ n <= Magnitude(v) /\ (n = 9 \/ Magnitude(v) < 10 ^ (n + 1))) - 2
Sign(v) == IF v < 0 THEN 1 ELSE 0
\* digits before the point, the point, and the decimals the step needs
PlainLength(v, stepDecade) ==
  Sign(v) + Greater(1, IF v = 0 THEN 1 ELSE decade(v) + 1)
          + (IF stepDecade < 0 THEN 1 - stepDecade ELSE 0)
ScientificLength(v, exponent, decimals) ==
  IF v = 0 THEN 1
  ELSE Sign(v) + 1 + (IF decimals > 0 THEN 1 + decimals ELSE 0) + 1
       + (IF exponent < 0 THEN 2 ELSE 1)
\* the value a label with so many decimals states
Stated(v, exponent, decimals) ==
  LET unit == 10 ^ (exponent - decimals + 2)
      rounded == ((Magnitude(v) + unit \div 2) \div unit) * unit
  IN IF v < 0 THEN -rounded ELSE rounded

\* Mutation of tick_labels: every tick, with what fits of it.
tick_labels_of_all(ticks) ==
  LET exponent == decade(Greatest({Magnitude(ticks[i]) : i \in DOMAIN ticks}))
      decimals == Greatest({0} \cup {d \in 0..7 : \A i \in DOMAIN ticks :
                     d <= exponent + 2 /\ ScientificLength(ticks[i], exponent, d) <= MAX_TICK_CHARS})
  IN [i \in DOMAIN ticks |-> [tick |-> ticks[i], states |-> Stated(ticks[i], exponent, decimals),
                              chars |-> ScientificLength(ticks[i], exponent, decimals)]]
\* The ticks to draw with their labels, all in one notation: plain while every one is
\* short; else with as many decimals as fit, and then only the ticks a label states
\* exactly or, if there is none, the one nearest its label.
tick_labels(ticks) ==
  LET step == decade(ticks[2] - ticks[1])
      exponent == decade(Greatest({Magnitude(ticks[i]) : i \in DOMAIN ticks}))
      Fits(d) == \A i \in DOMAIN ticks :
                   ScientificLength(ticks[i], exponent, d) <= MAX_TICK_CHARS
      decimals == Greatest({0} \cup {d \in 0..Greater(exponent - step, 0) : Fits(d)})
      Label(t) == [tick |-> t, states |-> Stated(t, exponent, decimals),
                   chars |-> ScientificLength(t, exponent, decimals)]
      Exact(t) == Label(t).states = t
      Error(t) == Magnitude(Label(t).states - t)
      nearest == CHOOSE i \in DOMAIN ticks :
                   \A j \in DOMAIN ticks : \/ Error(ticks[i]) < Error(ticks[j])
                                           \/ Error(ticks[i]) = Error(ticks[j]) /\ i <= j
      kept == SelectSeq(ticks, Exact)
      drawn == IF kept # <<>> THEN kept ELSE <<ticks[nearest]>>
  IN IF Len(ticks) < 2
     THEN [i \in DOMAIN ticks |->
             [tick |-> ticks[i], states |-> ticks[i], chars |-> MAX_TICK_CHARS]]
     ELSE IF \A i \in DOMAIN ticks : PlainLength(ticks[i], step) <= PLAIN_TICK_CHARS
     THEN [i \in DOMAIN ticks |-> [tick |-> ticks[i], states |-> ticks[i],
                                   chars |-> PlainLength(ticks[i], step)]]
     ELSE [i \in DOMAIN drawn |-> Label(drawn[i])]
---------------------------------------------------------------------------
\* A hue of the palette and a line pattern: solid, dashed or dotted.
series_style(slot) == <<slot % PALETTE_SLOTS, (slot \div PALETTE_SLOTS) % 3>>

\* runs: a point without a value ends a run.
HasValue(p) == p.avg # None
runs(points) ==
  LET valued == {i \in DOMAIN points : HasValue(points[i])}
      spans == {s \in valued \X valued :
                  /\ s[1] <= s[2] /\ s[1]..s[2] \subseteq valued
                  /\ s[1] - 1 \notin valued /\ s[2] + 1 \notin valued}
      order == Ranked(spans, LAMBDA a, b : a[1] < b[1])
  IN [n \in DOMAIN order |-> SubSeq(points, order[n][1], order[n][2])]

Mean(p) == (100 * p.avg[1]) \div p.avg[2]
Line(points, x, y) ==
  [n \in DOMAIN runs(points) |->
     [i \in DOMAIN runs(points)[n] |->
        LET p == runs(points)[n][i] IN <<Map(x, p.start), Map(y, Mean(p))>>]]
\* band_path: the runs long enough to have an area, with the spread at each point
Band(points, x, y) ==
  LET wide == SelectSeq(runs(points), LAMBDA r : Len(r) >= 2)
  IN [n \in DOMAIN wide |->
        [i \in DOMAIN wide[n] |->
           LET p == wide[n][i]
           IN <<Map(x, p.start), Map(y, 100 * p.max), Map(y, 100 * p.min)>>]]
\* markers: none once they would touch; each says when it speaks for part of its rows
Markers(points, x, y) ==
  LET valued == SelectSeq(points, HasValue)
  IN IF Len(valued) > MAX_MARKERS THEN <<>>
     ELSE [i \in DOMAIN valued |->
             [at |-> <<Map(x, valued[i].start), Map(y, Mean(valued[i]))>>,
              partial |-> valued[i].value_count < valued[i].count,
              spread |-> valued[i].min # valued[i].max]]

\* All of the names or none: few, whole within the margin, and apart.
end_labels(candidates, geo) ==
  LET whole == \A l \in candidates :
                 l.x + 62 * Columns[l.text] * geo.label_font
                   <= 100 * geo.width - END_LABEL_EDGE
      apart == \A l, k \in candidates :
                 l # k => Magnitude(l.y - k.y) >= 120 * geo.label_font
  IN IF Cardinality(candidates) <= MAX_END_LABELS /\ whole /\ apart
     THEN candidates ELSE {}

\* The links over a plot: whole buckets wide enough to hit, a thin rest absorbed.
hit_layer(from, to, bucket, geo) ==
  LET span == Greater(to - from, 1)
      per == IF PlotWidth(geo) * bucket >= MIN_HIT_WIDTH * span THEN 1
             ELSE UpTo(100 * MIN_HIT_WIDTH * span, Greater(100 * PlotWidth(geo) * bucket, span))
      zone == Greater(bucket * per, 1)
      Thin(rest) == rest > 0 /\ PlotWidth(geo) * rest < MIN_HIT_WIDTH * span
      ZonesFrom[start \in from..to] ==
        IF start >= to THEN <<>>
        ELSE LET plain == Lesser(start + zone, to)
                 end == IF Thin(to - plain) THEN to ELSE plain
             IN <<<<start, end>>>> \o ZonesFrom[end]
  IN ZonesFrom[from]

timeline(points, from, to, bucket, geo) ==
  LET x == Scale(from, to, geo.pad_left, plot_right(geo))
      bottom == geo.timeline_height + geo.pad_top
      max == Greatest({1} \cup {points[i].count : i \in DOMAIN points})
      y == Scale(0, max, bottom, geo.pad_top)
  IN IF points = <<>> THEN None
     ELSE [columns |-> [i \in DOMAIN points |->
                          <<Map(x, points[i].start), Map(y, points[i].count)>>],
           width |-> Greater((100 * PlotWidth(geo) * bucket) \div Greater(to - from, 1), 150),
           ticks |-> time_ticks(from, to, geo.time_ticks),
           zones |-> hit_layer(from, to, bucket, geo)]

\* The series with a number to plot, each with the slot at its own index.
Plotted(all, slots) ==
  LET drawn == {i \in DOMAIN all : \E j \in DOMAIN all[i].points : HasValue(all[i].points[j])}
      order == Ranked(drawn, <)
  IN [n \in DOMAIN order |->
        [slot |-> IF order[n] \in DOMAIN slots THEN slots[order[n]] ELSE order[n] - 1,
         group |-> all[order[n]].group, points |-> all[order[n]].points]]
\* The bucket a chart's links use: the narrowest step between two points of a line.
DerivedBucket(plotted, from, to) ==
  LET steps == UNION {{plotted[n].points[i + 1].start - plotted[n].points[i].start :
                         i \in 1..(Len(plotted[n].points) - 1)} : n \in DOMAIN plotted}
  IN IF steps = {} THEN Greater(to - from, 1) ELSE Least(steps)

value_chart(all, slots, from, to, field, geo) ==
  LET plotted == Plotted(all, slots)
      valued == UNION {{plotted[n].points[i] : i \in DOMAIN plotted[n].points} :
                         n \in DOMAIN plotted}
      lo == Least({p.min : p \in {v \in valued : HasValue(v)}})
      hi == Greatest({p.max : p \in {v \in valued : HasValue(v)}})
      x == Scale(from, to, geo.pad_left, plot_right(geo))
      bottom == geo.value_height + geo.pad_top
      y == Scale(100 * lo - 8 * (hi - lo), 100 * hi + 8 * (hi - lo), bottom, geo.pad_top)
      LastOf(s) == s.points[Greatest({i \in DOMAIN s.points : HasValue(s.points[i])})]
      Name(s) == [x |-> Map(x, LastOf(s).start) + END_LABEL_GAP,
                  y |-> Map(y, Mean(LastOf(s))) + 300,
                  text |-> IF s.group = None THEN field ELSE s.group]
  IN IF plotted = <<>> THEN None
     ELSE [lines |-> [n \in DOMAIN plotted |->
             [group |-> plotted[n].group, style |-> series_style(plotted[n].slot),
              runs |-> runs(plotted[n].points),
              line |-> Line(plotted[n].points, x, y),
              band |-> Band(plotted[n].points, x, y),
              marks |-> Markers(plotted[n].points, x, y)]],
           labels |-> tick_labels(value_ticks(y.d0, y.d1, geo.value_ticks)),
           ticks |-> time_ticks(from, to, geo.time_ticks),
           names |-> end_labels({Name(plotted[n]) : n \in DOMAIN plotted}, geo),
           zones |-> hit_layer(from, to, DerivedBucket(plotted, from, to), geo)]
=============================================================================
