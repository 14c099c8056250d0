------------------------------- MODULE Views -------------------------------
(***************************************************************************)
(* What is shown of a source once it has been read: the overview of it as  *)
(* a file, and the chart of the request's bars.  A query has a chart, if   *)
(* plot is asked for it too, as <<[specs, volume]>>.                       *)
(***************************************************************************)
EXTENDS Analysis, Inspect, Chart

CONSTANTS
    PaintedTicks,                \* bound: the sources whose chart is painted,
    PaintedWidth, PaintedHeight  \* and the canvas they are painted on

ASSUME ViewsAssumption == {PaintedTicks, PaintedWidth, PaintedHeight} \subseteq Nat

Image == INSTANCE Sixel WITH Width <- PaintedWidth, Height <- PaintedHeight

Looked == phase = "done"
FileTimes == [i \in DOMAIN source |-> source[i].time]
Kind == IF query.source = "ticks" THEN "tick" ELSE "bar"

\* plot reads, resamples and adjusts all of the bars before it draws them.
PlotBars == AdjustBars(RawBars, ActionsOf(query))
Charted == Looked /\ query.chart # <<>> /\ PlotBars # <<>>
Chosen(bars) == Layout(bars, query.chart[1].specs, query.chart[1].volume)

-----------------------------------------------------------------------------

LaterDays(times) == {DayOf(t) : t \in ToSet(times)} \ {DayOf(Head(times))}

ProbedDays(times) ==
    LET days == LaterDays(times)
    IN  {d \in days : \/ Cardinality({e \in days : e < d}) < ProbeDays
                      \/ Cardinality({e \in days : e > d}) < ProbeDays}

OpenOf(times, d) == Min({i \in DOMAIN times : DayOf(times[i]) = d})

\* The times of the first frames of some days.
OpensOf(times, days) ==
    {times[i] : i \in {j \in DOMAIN times :
                          \E d \in days : j \in OpenOf(times, d)..(OpenOf(times, d) + ProbeFrames - 1)}}

\* The times of the frames at both ends.
EndsOf(times) ==
    {times[i] : i \in {j \in DOMAIN times : j <= Sample \/ j > Len(times) - Sample}}

Spacings(some) == {t - s : s, t \in some} \cap (Nat \ {0})

HoursOf(kind, times) ==
    LET Inside(some) == IF \A t \in some : InHours("rth", t) THEN "rth" ELSE "extended"
    IN  IF times = <<>> THEN "none"
        ELSE IF kind = "bar" /\ \A gap \in Spacings(EndsOf(times)) : gap >= Day THEN "n/a"
        ELSE IF LaterDays(times) # {} THEN Inside(OpensOf(times, ProbedDays(times)))
        ELSE IF Cardinality(EndsOf(times)) = 1 THEN "n/a"
        ELSE Inside(EndsOf(times))

ShowsBothEnds(times, preview) ==
    LET n == Len(times)
    IN  /\ n <= 2 * PreviewCount => preview = times
        /\ n > 2 * PreviewCount /\ (n <= Sample \/ n >= Sample + PreviewCount) =>
              preview = SubSeq(times, 1, PreviewCount) \o <<0>>
                        \o SubSeq(times, n - PreviewCount + 1, n)

TellsTheFile(kind, times) ==
    LET told == InspectFile(kind, times)
        spacings == Spacings(EndsOf(times))
    IN  /\ told.hours = HoursOf(kind, times)
        /\ told.granularity = IF kind = "bar" /\ spacings # {} THEN <<Min(spacings)>> ELSE <<>>
        /\ ShowsBothEnds(times, told.preview)

\* A file's hours are told from the first frames of the days with data, the
\* first day left out, at both of its ends: one of them outside regular hours,
\* and nothing else, makes the file extended; weekends and gaps cost no day of
\* the probe.  A file of a single day is judged by its sample, one of daily
\* bars not at all.  The granularity of bars is the narrowest spacing of the
\* sample.  And the preview shows the frames at both ends, in order and none of
\* them twice (inspect.rs, classify_file_hours and day_open_times).  Excepted is
\* a preview whose tail window is shorter than what it shows.
InspectTellsTheFile == Looked => TellsTheFile(Kind, FileTimes)

\* Every rectangle of a pane between its top and its bottom, a gap allowed, and
\* the panes below each other.
Within(panes, shapes) ==
    LET Bottom(pane) == pane.top + pane.height
        Holds(pane, s) ==
            /\ s.x >= Left /\ s.x + s.w <= Width
            /\ s.y >= pane.top - Gap
            /\ s.y + s.h <= Bottom(pane) + Gap
    IN  /\ \A k \in DOMAIN panes :
              /\ k < Len(panes) => Bottom(panes[k]) + Gap <= panes[k + 1].top
              /\ Bottom(panes[k]) <= ContentTop + ContentHeight
        /\ \A i \in DOMAIN shapes :
              shapes[i].pane # 0 => Holds(panes[shapes[i].pane], shapes[i])

DrawnWithin(bars, layout) == Within(Panes(bars, layout), Render(bars, layout))

\* Nothing of one pane is drawn over another: candles, volume bars and every
\* line stay in theirs but for the gap to the next one, and between the gutter and
\* the right edge, whatever the values, and the panes fit the content (plot.rs,
\* render).  Excepted is a double average over the volume: it overshoots, and the
\* pane's range only looks at the volumes.
PanesHoldTheirSeries ==
    Charted =>
        DrawnWithin(PlotBars, [Chosen(PlotBars) EXCEPT
                      !.volumeOverlays = SelectSeq(@, LAMBDA s : s.kind # "vdema")])

\* A date to the left of each clock, of its day, and nothing over another label.
CanBeRead(bars, labels) ==
    LET T(k) == bars[labels[k].bar].time
        AtEdge(k) == labels[k].shows = "date"
                     /\ labels[k].x + labels[k].width = Width - Scaled(8)
    IN  /\ labels # <<>>
        /\ \A k \in DOMAIN labels :
              labels[k].shows = "clock" =>
                  \E d \in 1..(k - 1) : /\ labels[d].shows = "date"
                                        /\ DayOf(T(d)) = DayOf(T(k))
        /\ \A k \in 2..Len(labels) :
              Granularity(bars).unit # "month" =>
                  labels[k - 1].x + labels[k - 1].width
                      <= labels[k].x + (IF AtEdge(k) THEN CharWidth ELSE 0)

\* A clock on the time axis can be read: the label of its day is there, to the
\* left of it and after any other day's.  And no label is printed over another:
\* the axis is thinned before its labels are made anew (plot.rs, label_ticks and
\* select_nonoverlapping).  Excepted are months, which the year can widen, and
\* what becomes a date at the right edge, which is pushed back by a character.
TimeAxisReads == Charted => CanBeRead(PlotBars, TimeLabels(PlotBars))

\* What a terminal draws: in each pass the runs from the left edge on, and over
\* each other.
CellsOf(runs) ==
    LET after[n \in 0..Len(runs)] ==
            IF n = 0 THEN <<>>
            ELSE after[n - 1] \o [i \in 1..runs[n].count |-> runs[n].rows]
    IN  after[Len(runs)]

Sheets(passes) ==
    Listed([p \in DOMAIN passes |-> [color |-> passes[p].color,
                                     cells |-> CellsOf(passes[p].runs)]])

DrawnAt(sheets, x, r) ==
    LET hits == {p \in 1..Len(sheets) : x <= Len(sheets[p].cells) /\ r \in sheets[p].cells[x]}
    IN  IF hits # {} THEN sheets[Max(hits)].color ELSE -1

Decoded(sixel) ==
    LET sheets == Listed([band \in DOMAIN sixel |-> Sheets(sixel[band])])
        Color(x, y) == DrawnAt(sheets[(y \div 6) + 1], x, y % 6)
    IN  [i \in 1..(PaintedWidth * PaintedHeight) |->
            Color(((i - 1) % PaintedWidth) + 1, (i - 1) \div PaintedWidth)]

ShownAsPainted(px) == Decoded(Image!EncodeSixel(px)) = px

\* The terminal shows the chart's pixels: the last row of an odd band, the last
\* run of a pass and the background included (plot.rs, encode_sixel: what a
\* terminal shows and what a file stores are pixel-for-pixel identical).
SixelShowsTheChart ==
    Charted /\ Len(source) <= PaintedTicks =>
        ShownAsPainted(Image!Paint(Image!Render(PlotBars, Chosen(PlotBars))))
=============================================================================
