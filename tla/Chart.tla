------------------------------- MODULE Chart -------------------------------
(***************************************************************************)
(* The candlestick chart of plot: which series goes to which pane, the     *)
(* geometry of the panes, everything that is drawn as a list of            *)
(* rectangles, the time axis and its labels, and the Sixel encoding.       *)
(* Glyphs are left out: a label is its place, its width and what it shows. *)
(* Pixel counts follow the code's rounding, lengths at 1080 lines scaled   *)
(* to the canvas.  The calendar is regular.                                *)
(***************************************************************************)
EXTENDS Calc

CONSTANTS
    Width, Height,  \* the canvas
    LabelChars,     \* the characters of the widest label in the gutter
    MaxLabels,      \* MAX_TICKS
    Ladder,         \* LADDER: a sequence of [span, unit, step], ascending
    Calendar,       \* the days of a "day", a "week", a "month" and a "year"
    Reading(_, _)   \* the value, a rational, of a spec's term (Readings)

ASSUME ChartAssumption ==
    /\ {Width, Height} \subseteq Nat /\ Width >= 16 /\ Height >= 16
    /\ LabelChars \in Nat /\ MaxLabels \in Nat
    /\ Ladder \in Seq([span : Nat \ {0}, step : Nat \ {0},
                       unit : {"clock", "day", "week", "month", "year"}])
    /\ Calendar \in [{"day", "week", "month", "year"} -> Nat \ {0}]
    /\ Calendar["day"] = 1

Minus(p, q) == Plus(p, Times(Whole(-1), q))
Over(p, q) == Times(p, IF q.n < 0 THEN [n |-> -q.d, d |-> -q.n] ELSE [n |-> q.d, d |-> q.n])
AtMost(p, q) == p.n * q.d <= q.n * p.d
Least(values) == CHOOSE p \in values : \A q \in values : AtMost(p, q)
Greatest(values) == CHOOSE p \in values : \A q \in values : AtMost(q, p)
Floor(q) == q.n \div q.d
Round(q) == (2 * q.n + q.d) \div (2 * q.d)

\* The same sequence, which is evaluated once.
Listed(list) == list \o <<>>
Many(list) == FoldLeft(LAMBDA all, some : all \o some, <<>>, list)

(***************************************************************************)
(* layout_series: what each spec draws and where.                          *)
(***************************************************************************)
SeriesOf(spec, bars) ==
    LET terms == Listed(Compute(spec, bars))
        Value(term) == IF term = None THEN None ELSE Reading(spec, term)
    IN  [kind |-> spec.kind,
         values |-> Listed([i \in DOMAIN bars |-> Value(terms[i])])]

PriceKinds == {"sma", "ema", "dema"}
VolumeKinds == {"vsma", "vema", "vdema"}

PanelKinds == {"rsi", "log", "simple", "vol"}
DefaultSpecs == <<[kind |-> "sma", period |-> 20]>>

Arranged(series, volume) ==
    LET OfKinds(kinds) == SelectSeq(series, LAMBDA s : s.kind \in kinds)
    IN  [overlays |-> OfKinds(PriceKinds),
         panels |-> OfKinds(PanelKinds),
         volumeOverlays |-> OfKinds(VolumeKinds),
         volume |-> volume \/ OfKinds(VolumeKinds) # <<>>]

AllSeries(bars, specs) == Listed([i \in DOMAIN specs |-> SeriesOf(specs[i], bars)])

Layout(bars, specs, volume) ==
    Arranged(AllSeries(bars, IF specs = <<>> THEN DefaultSpecs ELSE specs), volume)

\* panel_key and group_panels: one pane for each kind, first seen first.
PanelKey(kind) == IF kind \in {"log", "simple"} THEN "ret" ELSE kind

GroupPanels(panels) ==
    FoldLeft(LAMBDA keys, series :
                 IF PanelKey(series.kind) \in ToSet(keys) THEN keys
                 ELSE Append(keys, PanelKey(series.kind)),
             <<>>, panels)

ValuesIn(list) == UNION {ToSet(list[i].values) : i \in DOMAIN list} \ {None}
Padded(values, pad) ==
    LET room == Times(pad, Minus(Greatest(values), Least(values)))
    IN  [min |-> Minus(Least(values), room), max |-> Plus(Greatest(values), room)]

RangeOf(key, values) ==
    IF key = "rsi" THEN [min |-> Whole(0), max |-> Whole(100)]
    ELSE IF values = {} THEN [min |-> Whole(0), max |-> Whole(1)]
    ELSE IF Cardinality(values) = 1
    THEN LET mid == Least(values)
             room == Times(Quotient(1, 10),
                           Greatest({mid, Times(Whole(-1), mid), Whole(1)}))
         IN  [min |-> Minus(mid, room), max |-> Plus(mid, room)]
    ELSE Padded(values, Quotient(2, 25))

\* Seeded fault: the range of the pane's first series is used for all of them.
GroupRangeOfFirst(panels, key) ==
    RangeOf(key, ValuesIn(<<SelectSeq(panels, LAMBDA s : PanelKey(s.kind) = key)[1]>>))

GroupRange(panels, key) ==
    RangeOf(key, ValuesIn(SelectSeq(panels, LAMBDA s : PanelKey(s.kind) = key)))

VolumeRange(bars) ==
    LET most == Max({bars[i].volume : i \in DOMAIN bars})
    IN  [min |-> Whole(0),
         max |-> IF most = 0 THEN Whole(1) ELSE Times(Whole(most), Quotient(21, 20))]

PriceRange(bars, overlays) ==
    Padded({Whole(bars[i].low) : i \in DOMAIN bars}
           \cup {Whole(bars[i].high) : i \in DOMAIN bars} \cup ValuesIn(overlays),
           Quotient(1, 25))

(***************************************************************************)
(* Geometry.                                                               *)
(***************************************************************************)
Scale == IF Height * 16 <= Width * 9 THEN Quotient(Height, 1080) ELSE Quotient(Width, 1920)
Scaled(length) == (length * Scale.n) \div Scale.d
ScaledRound(length) == Max({1, Round(Times(length, Scale))})

CharWidth == 8 * ScaledRound(Quotient(8, 5))
Pen == ScaledRound(Whole(1))
LineWidth == ScaledRound(Whole(2))

Left == LabelChars * CharWidth + 2 * Scaled(8)
PlotWidth == Max({1, Width - Left - Scaled(14)})
ContentTop == Scaled(22)
ContentHeight == Max({1, Height - Scaled(34) - ContentTop})
Gap == Scaled(12)

\* The center of the i-th of n bars.
XOf(i, n) == Left + Round(Quotient((2 * i - 1) * PlotWidth, 2 * n))

\* Panel::y.
YOf(pane, value) ==
    IF pane.max = pane.min THEN pane.top
    ELSE pane.top + Round(Times(Over(Minus(pane.max, value), Minus(pane.max, pane.min)),
                                Whole(pane.height)))

\* The panes from the top: the price, the volume if it is wanted, and one for
\* each group; at most three fifths of the content for those below the price.
SubPanes(bars, layout) ==
    LET keys == GroupPanels(layout.panels)
    IN  (IF layout.volume THEN <<[key |-> "volume", range |-> VolumeRange(bars)]>>
         ELSE <<>>)
        \o [k \in DOMAIN keys |->
               [key |-> keys[k], range |-> GroupRange(layout.panels, keys[k])]]

Stacked(priceRange, subs) ==
    LET n == Len(subs)
        total == (ContentHeight * Min({18 * n, 60})) \div 100
        each == IF n = 0 THEN 0 ELSE Max({(total - Gap * n) \div n, Scaled(30)})
        price == Max({ContentHeight - n * (each + Gap), Scaled(60)})
        Pane(key, range, top, height) ==
            [key |-> key, min |-> range.min, max |-> range.max, top |-> top, height |-> height]
    IN  <<Pane("price", priceRange, ContentTop, price)>>
        \o [k \in 1..n |->
               Pane(subs[k].key, subs[k].range,
                    ContentTop + price + k * Gap + (k - 1) * each, each)]

Panes(bars, layout) ==
    Stacked(PriceRange(bars, layout.overlays), Listed(SubPanes(bars, layout)))

(***************************************************************************)
(* The time axis.                                                          *)
(***************************************************************************)
\* The finest rung of the ladder with few enough steps in the span, which never
\* is 0, or a minute past the end of the ladder.
Granularity(bars) ==
    LET span == Max({1, Last(bars).time - Head(bars).time})
        rung == SelectInSeq(Ladder, LAMBDA g : span \div g.span <= MaxLabels)
    IN  IF rung = 0 THEN [span |-> 1, unit |-> "clock", step |-> 1] ELSE Ladder[rung]

\* Gran::bucket.
PeriodOf(gran, t) ==
    IF gran.unit = "clock" THEN t \div gran.step
    ELSE (t \div (Day * Calendar[gran.unit])) \div gran.step

\* A tick at each bar that begins another period: the bars' indices.
TimeTicks(bars) ==
    LET gran == Granularity(bars)
        Begins(i) == i = 1 \/ PeriodOf(gran, bars[i].time) # PeriodOf(gran, bars[i - 1].time)
    IN  RowsAt([i \in DOMAIN bars |-> i], {i \in DOMAIN bars : Begins(i)})

\* Gran::label, before is the time of the tick before, as a sequence.
LabelOf(gran, t, before) ==
    LET Within(unit) ==
            before # <<>> /\ t \div (Day * Calendar[unit])
                                 = before[1] \div (Day * Calendar[unit])
    IN  CASE gran.unit = "clock" -> IF Within("day") THEN "clock" ELSE "date"
          [] gran.unit = "month" -> IF Within("year") THEN "month" ELSE "month_of_year"
          [] gran.unit = "year" -> "year"
          [] OTHER -> "date"

\* The characters of each.
LabelWidth == [clock |-> 5, date |-> 6, month |-> 3, month_of_year |-> 8, year |-> 4]

\* Where a label is put, [bar, shows, x, width], clear of the right edge.
Placed(bars, i, shows) ==
    LET width == CharWidth * LabelWidth[shows]
        x == Min({XOf(i, Len(bars)), Width - width - Scaled(8)})
    IN  [bar |-> i, shows |-> shows, x |-> Max({0, x}), width |-> width]

\* Seeded fault: a label is made for what precedes it on the whole axis.
LabelTicksOfAll(bars, ticks) ==
    LET gran == Granularity(bars)
    IN  Listed([k \in DOMAIN ticks |->
            Placed(bars, ticks[k],
                   LabelOf(gran, bars[ticks[k]].time,
                           IF ticks[k] = 1 THEN <<>> ELSE <<bars[ticks[k] - 1].time>>))])

\* label_ticks: each in the context of the tick before it among these.
LabelTicks(bars, ticks) ==
    LET gran == Granularity(bars)
    IN  Listed([k \in DOMAIN ticks |->
            Placed(bars, ticks[k],
                   LabelOf(gran, bars[ticks[k]].time,
                           IF k = 1 THEN <<>> ELSE <<bars[ticks[k - 1]].time>>))])

\* select_nonoverlapping: the first label gives way to the second, any other to
\* the one kept before it.
Clear(p, q) == p.x + p.width + CharWidth <= q.x

SelectNonoverlapping(labels) ==
    LET first == IF Len(labels) >= 2 /\ ~Clear(labels[1], labels[2]) THEN 2 ELSE 1
        kept[n \in 0..Len(labels)] ==
            IF n < first THEN <<>>
            ELSE LET before == kept[n - 1]
                 IN  IF before = <<>> \/ Clear(Last(before), labels[n])
                     THEN Append(before, labels[n]) ELSE before
    IN  kept[Len(labels)]

\* The labels that are drawn, made anew for the ticks that were kept.
Relabelled(bars, kept) == LabelTicks(bars, [k \in DOMAIN kept |-> kept[k].bar])

TimeLabels(bars) ==
    Relabelled(bars, SelectNonoverlapping(LabelTicks(bars, TimeTicks(bars))))

(***************************************************************************)
(* What is drawn, in its order: [x, y, w, h, color, pane], with 0 for what *)
(* belongs to no pane.                                                     *)
(***************************************************************************)
Background == 0
Grid == 1
Up == 3
Down == 4
SeriesColor(i) == 5 + ((i - 1) % 6)

Rect(x, y, w, h, color, pane) ==
    [x |-> x, y |-> y, w |-> w, h |-> h, color |-> color, pane |-> pane]

\* Canvas::line: Bresenham's points.
Points(from, to) ==
    LET dx == Max({to[1] - from[1], from[1] - to[1]})
        dy == -Max({to[2] - from[2], from[2] - to[2]})
        sx == IF from[1] < to[1] THEN 1 ELSE -1
        sy == IF from[2] < to[2] THEN 1 ELSE -1
        Step(walk, i) ==
            LET across == 2 * walk.err >= dy
                along == 2 * walk.err <= dx
                at == <<walk.at[1] + (IF across THEN sx ELSE 0),
                        walk.at[2] + (IF along THEN sy ELSE 0)>>
            IN  [at |-> at, points |-> Append(walk.points, at),
                 err |-> walk.err + (IF across THEN dy ELSE 0) + (IF along THEN dx ELSE 0)]
    IN  FoldLeft(Step, [at |-> from, points |-> <<from>>, err |-> dx + dy],
                 [i \in 1..Max({dx, -dy}) |-> i]).points

\* Canvas::stamp, polyline and draw_series: nothing across a gap.
DrawSeries(pane, k, values, color) ==
    LET n == Len(values)
        At(i) == <<XOf(i, n), YOf(pane, values[i])>>
        Stamp(p) == Rect(p[1] - LineWidth \div 2, p[2] - LineWidth \div 2,
                         LineWidth, LineWidth, color, k)
        Segment(i) ==
            IF values[i] = None \/ values[i + 1] = None THEN <<>>
            ELSE LET points == Points(At(i), At(i + 1))
                 IN  [j \in DOMAIN points |-> Stamp(points[j])]
    IN  Many([i \in 1..(n - 1) |-> Segment(i)])

DrawGrid(pane, levels) ==
    [i \in DOMAIN levels |-> Rect(Left, YOf(pane, levels[i]), PlotWidth, Pen, Grid, 0)]

\* SubPanel::grid_labels, and the seven levels of the price.
Levels(pane) ==
    LET At(i, of) == Plus(pane.min, Times(Quotient(i, of), Minus(pane.max, pane.min)))
    IN  CASE pane.key = "price" -> [i \in 1..7 |-> At(i - 1, 6)]
          [] pane.key = "rsi" -> <<Whole(30), Whole(50), Whole(70)>>
          [] OTHER -> [i \in 1..3 |-> At(i - 1, 2)]

BodyWidth(n) ==
    Floor(Greatest({Times(Quotient(PlotWidth, n), Quotient(31, 50)),
                    Times(Quotient(3, 2), Scale), Whole(1)}))
MinBody == Floor(Greatest({Times(Quotient(3, 2), Scale), Whole(1)}))

ColorOf(bar) == IF bar.close >= bar.open THEN Up ELSE Down

DrawCandle(pane, bars, i) ==
    LET bar == bars[i]
        x == XOf(i, Len(bars))
        Y(price) == YOf(pane, Whole(price))
        body == Max({Y(bar.open), Y(bar.close)}) - Min({Y(bar.open), Y(bar.close)})
    IN  << Rect(x - Pen \div 2, Y(bar.high), Pen,
                Max({1, Y(bar.low) - Y(bar.high)}), ColorOf(bar), 1),
           Rect(x - BodyWidth(Len(bars)) \div 2, Min({Y(bar.open), Y(bar.close)}),
                BodyWidth(Len(bars)), Max({body, MinBody}), ColorOf(bar), 1) >>

DrawVolume(pane, k, bars) ==
    LET Y(i) == YOf(pane, Whole(bars[i].volume))
    IN  [i \in DOMAIN bars |->
            Rect(XOf(i, Len(bars)) - BodyWidth(Len(bars)) \div 2, Y(i),
                 BodyWidth(Len(bars)), Max({1, pane.top + pane.height - Y(i)}),
                 ColorOf(bars[i]), k)]

\* Series take their colors in turn: overlays, own panes, volume overlays.
DrawPane(pane, k, bars, layout) ==
    LET overlays == Len(layout.overlays)
        List(series, offset, Mine(_)) ==
            Many([i \in DOMAIN series |->
                     IF ~Mine(series[i]) THEN <<>>
                     ELSE DrawSeries(pane, k, series[i].values, SeriesColor(offset + i))])
    IN  DrawGrid(pane, Levels(pane)) \o
        CASE pane.key = "price" ->
                Many([i \in DOMAIN bars |-> DrawCandle(pane, bars, i)])
                \o List(layout.overlays, 0, LAMBDA s : TRUE)
          [] pane.key = "volume" ->
                DrawVolume(pane, k, bars)
                \o List(layout.volumeOverlays, overlays + Len(layout.panels), LAMBDA s : TRUE)
          [] OTHER -> List(layout.panels, overlays, LAMBDA s : PanelKey(s.kind) = pane.key)

\* render: nothing at all without bars.
DrawAxis(bars, labels) ==
    [i \in DOMAIN labels |->
        Rect(XOf(labels[i].bar, Len(bars)), ContentTop, Pen, ContentHeight, Grid, 0)]

DrawPanes(panes, bars, layout) ==
    Many([k \in DOMAIN panes |-> DrawPane(panes[k], k, bars, layout)])

Render(bars, layout) ==
    IF bars = <<>> THEN <<>>
    ELSE DrawAxis(bars, TimeLabels(bars)) \o DrawPanes(Panes(bars, layout), bars, layout)
=============================================================================
