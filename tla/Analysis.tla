------------------------------ MODULE Analysis ------------------------------
(***************************************************************************)
(* One symbol through bars, calc, stat and the MCP tools: the source is    *)
(* read once, row by row, and every row runs through the whole chain of    *)
(* sinks before the next is read: row filter, resampler, forward filler,   *)
(* adjuster, indicator, then the row's consumers (writer, MCP window,      *)
(* summary footer); stat reads the same rows through an adjuster of its    *)
(* own.  Nothing is held but each stage's small state.                     *)
(*                                                                         *)
(* A query is what the command line or a tool call asks for (Request), and *)
(*   source   "ticks", or "bars" that are as fine as the ticks             *)
(*   table    the [actions] table, <<>> without --actions                  *)
(*   front    "frame" or "fwob" output of the commands, or an "mcp" tool   *)
(*   limit    how many rows the tool answers                               *)
(***************************************************************************)
EXTENDS Stat, Calc, Request

CONSTANTS
    Queries,    \* the queries to look at
    Symbol,     \* the symbol, as a key of the tables
    Instants,   \* when trades may print
    Prices,     \* the price and
    Sizes,      \* the size of the trade at each place of the source
    MaxTicks    \* bound: trades in the source

ASSUME AnalysisAssumption ==
    /\ MaxTicks \in Nat
    /\ Instants \subseteq Nat
    /\ Prices \in [1..MaxTicks -> Nat \ {0}]
    /\ Sizes \in [1..MaxTicks -> Nat \ {0}]
    /\ \A q \in Queries :
          \* Interval::parse, and clamp_limit
          /\ q.width \in 1..Day
          /\ q.limit \in Nat \ {0}
          /\ SpecAccepted(q.spec) => q.spec.period \in Nat
          \* a Vec of ActionSpec to each key
          /\ Len(q.table) \in Nat /\ DOMAIN q.table = 1..Len(q.table)
          /\ \A i \in DOMAIN q.table : q.table[i].specs \in Seq(ActionSpec)

VARIABLES
    query,    \* what was asked
    phase,    \* "refused" at once, "streaming", or "done"
    source,   \* the trades read so far
    chain,    \* the stages' state
    rows,     \* the rows out of the chain: [bar, value]
    window,   \* the MCP tool's last rows
    footer,   \* the summary
    stat      \* the stat row in the making: [adj, acc]

vars == <<query, phase, source, chain, rows, window, footer, stat>>

-----------------------------------------------------------------------------

\* ActionArgs::adjuster: no table is raw; only the commands that print rows
\* take the table, the fwob writer of calc and the tools have none.
ActionsOf(q) == IF q.front = "frame" THEN Resolve(q.table, Symbol) ELSE <<>>

Accepted(q) ==
    /\ q.accepted
    /\ SpecAccepted(q.spec)
    /\ q.front = "frame" => Resolvable(q.table, Symbol)

NoChain(q) ==
    [res |-> NoBucket, prev |-> <<>>,
     adj |-> Adjuster(IF Accepted(q) THEN ActionsOf(q) ELSE <<>>),
     column |-> IF Accepted(q) THEN NewColumn(q.spec) ELSE <<>>]

Init ==
    /\ query \in Queries
    /\ phase = IF Accepted(query) THEN "streaming" ELSE "refused"
    /\ source = <<>>
    /\ chain = NoChain(query)
    /\ rows = <<>>
    /\ window = <<>>
    /\ footer = NoFooter
    /\ stat = [adj |-> chain.adj, acc |-> NoStat]

\* resolve_session: regular hours are a clock and a row filter, extended
\* hours only a clock.
SessionOf(q) == IF q.rth THEN "rth" ELSE "ext"

\* index_window: from the first row at or after the start through the last one
\* at the end.
InWindow(q, time) ==
    /\ \A from \in ToSet(q.from) : from <= time
    /\ \A to \in ToSet(q.to) : time <= to

\* The rows that stream_ticks and stream_bars_file hand on.
Kept(q, tick) ==
    /\ InWindow(q, tick.time)
    /\ q.rth => InHours("rth", tick.time)

\* The bar that a source of bars stores for a trade, and the source as a row of
\* the chain.
StoredBar(tick) == Closed(Opened(tick.time, TickPart(tick)))

RowPart(q, tick) ==
    IF q.source = "ticks" THEN TickPart(tick) ELSE BarPart(StoredBar(tick))

-----------------------------------------------------------------------------

\* Seeded fault: room is made one row too late.
WindowedLate(q, held, row) ==
    Append(IF Len(held) > q.limit THEN Tail(held) ELSE held, row)

\* VecDeque of the tool: never more than limit rows.
Windowed(q, held, row) ==
    Append(IF Len(held) = q.limit THEN Tail(held) ELSE held, row)

\* One bar out of the filler: adjusted, given its value, and a row for all of
\* the consumers.
Emit(q, state, bar) ==
    LET adj == Advanced(state.adj, bar.time)
        scaled == ScaledBar(bar, Factors(adj))
        u == Update(q.spec, state.column, scaled)
        row == [bar |-> scaled, value |-> u.out]
    IN  [adj |-> adj, column |-> u.state, rows |-> Append(state.rows, row),
         window |-> Windowed(q, state.window, row),
         footer |-> PushFooter(state.footer, scaled, u.out)]

EmitAll(q, state, bars) ==
    LET after[n \in 0..Len(bars)] ==
            IF n = 0 THEN state ELSE Emit(q, after[n - 1], bars[n])
    IN  after[Len(bars)]

\* The bar a step closes, if it closes one, through the filler and on.
Consume(res, bars) ==
    LET f == IF bars = <<>> THEN [prev |-> chain.prev, out |-> <<>>]
             ELSE PushBar(query.width, SessionOf(query), query.fill, chain.prev, bars[1])
        end == EmitAll(query, [adj |-> chain.adj, column |-> chain.column, rows |-> rows,
                               window |-> window, footer |-> footer], f.out)
    IN  /\ chain' = [res |-> res, prev |-> f.prev, adj |-> end.adj, column |-> end.column]
        /\ rows' = end.rows
        /\ window' = end.window
        /\ footer' = end.footer

Read(time) ==
    LET i == Len(source) + 1
        tick == [time |-> time, price |-> Prices[i], size |-> Sizes[i]]
        r == PushRow(query.width, SessionOf(query), chain.res, time, RowPart(query, tick))
    IN  /\ phase = "streaming"
        /\ i <= MaxTicks
        /\ source # <<>> =>
              \/ time > Last(source).time
              \/ time = Last(source).time /\ query.source = "ticks"
        /\ source' = Append(source, tick)
        /\ IF Kept(query, tick)
           THEN /\ Consume(r.res, r.out)
                /\ stat' = IF query.source = "ticks" THEN StatTick(stat, tick)
                           ELSE StatBar(stat, StoredBar(tick))
           ELSE UNCHANGED <<chain, rows, window, footer, stat>>
        /\ UNCHANGED <<query, phase>>

\* Resampler::finish, when the source is at its end.
Finish ==
    /\ phase = "streaming"
    /\ phase' = "done"
    /\ Consume(NoBucket, FinishRows(chain.res))
    /\ UNCHANGED <<query, source, stat>>

Next == Finish \/ \E time \in Instants : Read(time)

Spec == Init /\ [][Next]_vars

(***************************************************************************)
(* What the code leaves to whoever picks the hours, the interval and the   *)
(* splits: a bucket ends before the next day's first, and no ex-date is in *)
(* a bucket before one of its trades (no trade has a bucket that begins on *)
(* the day before).  And what the model says of its data: the unit of a    *)
(* price is fine enough for every factor, and a query is that of its line. *)
(***************************************************************************)
FineFor(shares, price) == (price * shares.d) % shares.n = 0

FitQuery(q) ==
    LET actions == ActionsOf(q)
    IN  /\ Even(q.width, SessionOf(q))
        /\ \A t \in Instants, i \in DOMAIN actions :
              Belongs(SessionOf(q), t) =>
                 actions[i].time \notin (BucketStart(q.width, SessionOf(q), t) + 1)..t
        /\ \A i \in 1..(Len(actions) + 1), n \in 1..MaxTicks :
              FineFor(SharesFrom(actions, i), Prices[n])
        /\ IsLine(q.line)
        /\ \A field \in {"accepted", "rth", "from", "to"} : q[field] = Asked(q.line)[field]

FitQueries == \A q \in Queries : Accepted(q) => FitQuery(q)

-----------------------------------------------------------------------------
(***************************************************************************)
(* Properties.                                                             *)
(***************************************************************************)

\* Every variable keeps its type, the window its bound, and a query that was
\* refused (a word given twice, a period of 0, a malformed row of the table) has
\* read nothing.
TypeOK ==
    /\ query \in Queries
    /\ phase \in {"refused", "streaming", "done"}
    /\ source \in Seq([time : Instants, price : Nat, size : Nat])
    /\ Len(source) <= MaxTicks
    /\ Len(chain.res.open) <= 1 /\ Len(chain.prev) <= 1
    /\ chain.adj.cursor \in 1..(Len(chain.adj.bounds) + 1)
    /\ Len(window) <= query.limit
    /\ phase = "refused" => source = <<>> /\ rows = <<>>

KeptTicks == RowsAt(source, {i \in DOMAIN source : Kept(query, source[i])})

\* The trades that the words of the line name: an end date with all of its
\* day, an option before a range.
Named(tick) ==
    LET line == query.line
        starts == IF line.options.start # <<>> THEN line.options.start
                  ELSE RangeSide(line, "start")
        ends == IF line.options.end # <<>> THEN line.options.end
                ELSE RangeSide(line, "end")
        Reached(bound) == IF bound.is = "date" THEN tick.time \div Day ELSE tick.time
    IN  /\ \A b \in ToSet(starts) : b.at <= Reached(b)
        /\ \A b \in ToSet(ends) : Reached(b) <= b.at
        /\ line.options.rth \/ Says(line, "rth") => InHours("rth", tick.time)

\* What a share of a trade at that time has become since.
SharesSince(time) ==
    LET actions == ActionsOf(query)
        Later(n) == actions[Len(actions) + 1 - n]
        since[n \in 0..Len(actions)] ==
            IF n = 0 THEN One
            ELSE IF Later(n).time > time THEN Times(since[n - 1], Later(n).ratio)
            ELSE since[n - 1]
    IN  since[Len(actions)]

\* The trade as it would have printed had the stock never been split.
Today(tick) ==
    LET since == SharesSince(tick.time)
    IN  [time |-> tick.time, price |-> ScalePrice(tick.price, Flip(since)),
         size |-> Times(Whole(tick.size), since)]

Total(terms) ==
    LET total[n \in 0..Len(terms)] ==
            IF n = 0 THEN Whole(0) ELSE Plus(total[n - 1], terms[n])
    IN  total[Len(terms)]
SizeOf(ticks) == Total([i \in DOMAIN ticks |-> ticks[i].size])
MassOf(ticks) == Total([i \in DOMAIN ticks |-> Times(Whole(ticks[i].price), ticks[i].size)])

\* A row with trades is the bar of its bucket's trades, its volume to the
\* nearest share.
IsBarOf(bar, ticks) ==
    LET prices == {ticks[i].price : i \in DOMAIN ticks}
        size == SizeOf(ticks)
        off == Plus(Whole(bar.volume), Times(Whole(-1), size))
    IN  /\ bar.trades = Len(ticks)
        /\ bar.open = Head(ticks).price /\ bar.close = Last(ticks).price
        /\ bar.high = Max(prices) /\ bar.low = Min(prices)
        /\ bar.vwap = Times(MassOf(ticks), Flip(size))
        /\ 2 * off.n \in (-off.d)..off.d

\* The buckets of a request: one for each with a trade, and with fill each empty
\* one between two of them, below a day only up to the close of the earlier
\* one's session.
BucketOf(tick) == BucketStart(query.width, SessionOf(query), tick.time)
TicksIn(ticks, start) == RowsAt(ticks, {i \in DOMAIN ticks : BucketOf(ticks[i]) = start})
Before(real, time) == Max({s \in real : s < time})

EmptyBuckets(real) ==
    LET InGap(time, before) ==
            /\ (time - before) % query.width = 0
            /\ query.width = Day \/
                  time < Midnight(before) + Hours[SessionOf(query)].close
    IN  IF ~query.fill \/ real = {} THEN {}
        ELSE {time \in (Min(real)..Max(real)) \ real : InGap(time, Before(real, time))}

\* A flat bar at the close of the bar before it, a split between the two
\* excepted.
IsFlatAfter(bar, before, ticks) ==
    /\ bar.volume = 0 /\ bar.trades = 0
    /\ \/ SharesSince(before) # SharesSince(bar.time)
       \/ bar = FlatBar(bar.time, Last(TicksIn(ticks, before)).price)

AreBarsOf(ticks, real) ==
    LET bars == [i \in DOMAIN rows |-> rows[i].bar]
    IN  /\ {bars[i].time : i \in DOMAIN bars} = real \cup EmptyBuckets(real)
        /\ \A i \in DOMAIN bars : i > 1 => bars[i - 1].time < bars[i].time
        /\ \A i \in DOMAIN bars :
              IF bars[i].time \in real THEN IsBarOf(bars[i], TicksIn(ticks, bars[i].time))
              ELSE IsFlatAfter(bars[i], Before(real, bars[i].time), ticks)

AreBarsOfAll(ticks) == AreBarsOf(ticks, {BucketOf(ticks[i]) : i \in DOMAIN ticks})
AreBarsOfNamed(named) == AreBarsOfAll([i \in DOMAIN named |-> Today(named[i])])

\* The rows of a request are the bars of the market as it would have been
\* without its splits, for any query: one bar for each bucket with a trade, in
\* order, and with fill one flat bar at the previous close for each bucket
\* between two of them; the trades are those the words of its line name.  The
\* code this is about: parse_time_bound and the whole chain of feed.rs,
\* resample.rs and adjust.rs.  Excepted is the price of a flat bar with a split
\* between it and the bar before: the filler copies a close from before the
\* split.
RowsAreTheMarket ==
    phase = "done" =>
        AreBarsOfNamed(RowsAt(source, {i \in DOMAIN source : Named(source[i])}))

RawBars ==
    Resampled(query.width, SessionOf(query), query.fill,
              [i \in DOMAIN KeptTicks |->
                  [time |-> KeptTicks[i].time, part |-> RowPart(query, KeptTicks[i])]])

\* Adjusting bars as they stream, with a cursor that only moves forward, gives
\* what adjust_bars makes of the whole raw series, dividends in between or not
\* (adjust.rs, Adjuster against adjust_bars).
StreamedIsMaterialized ==
    phase = "done" =>
        [i \in DOMAIN rows |-> rows[i].bar] = AdjustBars(RawBars, ActionsOf(query))

\* At every moment the values of the indicator are those of the batch form over
\* the bars so far, operation by operation: warm-up, flat and adjusted bars
\* included (calc.rs: "streamed and buffered output are identical").
ColumnIsBatch ==
    phase # "refused" =>
        [i \in DOMAIN rows |-> rows[i].value]
            = Compute(query.spec, [i \in DOMAIN rows |-> rows[i].bar])

\* What is answered from a bounded memory is about all of the rows: a tool's
\* window holds the last ones with the values they have in the whole series
\* (server.rs: warm-up stays correct under truncation), and the summary's path
\* and values are those of every row.
AnswersAreOfTheRows ==
    LET closes == {rows[i].bar.close : i \in DOMAIN rows}
        valued == RowsAt(rows, {i \in DOMAIN rows : rows[i].value # None})
    IN  /\ window = SubSeq(rows, Max({1, Len(rows) - query.limit + 1}), Len(rows))
        /\ footer.bars = Len(rows)
        /\ footer.values = [i \in DOMAIN valued |-> valued[i].value]
        /\ rows # <<>> =>
              /\ footer.first = <<Head(rows).bar.time, Head(rows).bar.close>>
              /\ footer.last = <<Last(rows).bar.time, Last(rows).bar.close>>
              /\ footer.high = <<Max(closes)>> /\ footer.low = <<Min(closes)>>

\* An adjusted summary of a tick file matches an adjusted summary of the bars
\* it resamples into (stat.rs), where the bars are not too coarse to be
\* adjusted and no split leaves a fraction of a share.
StatAgrees ==
    LET adjuster == Adjuster(ActionsOf(query))
        ofBars == StatOfBars(RawBars, adjuster)
        ofTicks == StatRow(stat.acc)
        whole == \A i \in DOMAIN KeptTicks : Today(KeptTicks[i]).size.d = 1
    IN  /\ phase = "done"
        /\ query.source = "ticks" /\ ~query.fill
        /\ whole /\ ~TooCoarse(RawBars, adjuster)
        => \A f \in {"trades", "min", "max", "vwap", "volume"} : ofBars[f] = ofTicks[f]
=============================================================================
