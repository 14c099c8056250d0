-------------------------------- MODULE Stat --------------------------------
(***************************************************************************)
(* What is accumulated while rows go by: the summary row of `stat`, equal  *)
(* over ticks and over bars, and the footer of `calc --summary`.  Sums and *)
(* means of the footer are left as the values they are made of.            *)
(***************************************************************************)
EXTENDS Adjust

(***************************************************************************)
(* StatAccumulator: one observation per tick or bar.                       *)
(***************************************************************************)
NoStat == [trades |-> 0, first |-> <<>>, last |-> 0, min |-> <<>>, max |-> <<>>,
           weighted |-> Whole(0), volume |-> 0]

\* part is a TickPart or a BarPart.
Observe(acc, time, part) ==
    [trades |-> acc.trades + part.trades,
     first |-> IF acc.first = <<>> THEN <<time>> ELSE acc.first,
     last |-> time,
     min |-> IF acc.min = <<>> THEN <<part.low>> ELSE <<Min({acc.min[1], part.low})>>,
     max |-> IF acc.max = <<>> THEN <<part.high>> ELSE <<Max({acc.max[1], part.high})>>,
     weighted |-> Plus(acc.weighted, part.mass),
     volume |-> acc.volume + part.volume]

\* finish: an empty row for no input.
StatRow(acc) ==
    [trades |-> acc.trades, first |-> acc.first,
     last |-> IF acc.first = <<>> THEN <<>> ELSE <<acc.last>>,
     min |-> acc.min, max |-> acc.max,
     vwap |-> IF acc.volume = 0 THEN NaN ELSE Times(acc.weighted, Quotient(1, acc.volume)),
     volume |-> acc.volume]

\* stat_file_adjusted, state [adj, acc]: every tick, or every bar, adjusted and
\* then observed.
StatTick(state, tick) ==
    LET adj == Advanced(state.adj, tick.time)
    IN  [adj |-> adj,
         acc |-> Observe(state.acc, tick.time, TickPart(ScaledTick(tick, Factors(adj))))]

StatBar(state, bar) ==
    LET adj == Advanced(state.adj, bar.time)
    IN  [adj |-> adj,
         acc |-> Observe(state.acc, bar.time, BarPart(ScaledBar(bar, Factors(adj))))]

StatOfBars(bars, adjuster) ==
    LET after[n \in 0..Len(bars)] ==
            IF n = 0 THEN [adj |-> adjuster, acc |-> NoStat]
            ELSE StatBar(after[n - 1], bars[n])
    IN  StatRow(after[Len(bars)].acc)

\* An adjusted row is refused for bars whose narrowest spacing is above a day.
TooCoarse(bars, adjuster) ==
    /\ ~IsIdentity(adjuster)
    /\ Len(bars) > 1
    /\ \A i \in 1..(Len(bars) - 1) : bars[i + 1].time - bars[i].time > Day

(***************************************************************************)
(* SummaryCollector: the path of the close, and a column's values without  *)
(* the cells of its warm-up.                                               *)
(***************************************************************************)
NoFooter == [bars |-> 0, first |-> <<>>, last |-> <<>>, high |-> <<>>, low |-> <<>>,
             values |-> <<>>]

\* Seeded fault: the first low is 0, not the first close.
PushFooterFromZero(footer, bar, value) ==
    LET seen == footer.first # <<>>
    IN  [bars |-> footer.bars + 1,
         first |-> IF seen THEN footer.first ELSE <<bar.time, bar.close>>,
         last |-> <<bar.time, bar.close>>,
         high |-> <<IF seen THEN Max({footer.high[1], bar.close}) ELSE bar.close>>,
         low |-> <<IF seen THEN Min({footer.low[1], bar.close}) ELSE 0>>,
         values |-> IF value = <<>> THEN footer.values ELSE Append(footer.values, value)]

\* PriceAcc::push and SummaryCollector::push_row; value is <<>> in the warm-up.
PushFooter(footer, bar, value) ==
    LET seen == footer.first # <<>>
    IN  [bars |-> footer.bars + 1,
         first |-> IF seen THEN footer.first ELSE <<bar.time, bar.close>>,
         last |-> <<bar.time, bar.close>>,
         high |-> <<IF seen THEN Max({footer.high[1], bar.close}) ELSE bar.close>>,
         low |-> <<IF seen THEN Min({footer.low[1], bar.close}) ELSE bar.close>>,
         values |-> IF value = <<>> THEN footer.values ELSE Append(footer.values, value)]
=============================================================================
