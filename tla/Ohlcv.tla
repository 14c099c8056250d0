------------------------------- MODULE Ohlcv -------------------------------
(***************************************************************************)
(* The arithmetic of bars: the accumulator a resampler keeps for its open  *)
(* bucket, the resampler over ticks or over bars, and the forward filler   *)
(* behind it.  A tick is [time, price, size]; prices and sizes are         *)
(* integers, the quotients made of them exact rationals in lowest terms    *)
(* [n, d], with d = 0 for NaN.                                             *)
(***************************************************************************)
EXTENDS Bars

NaN == [n |-> 0, d |-> 0]

Divisor[p \in Int \X (Nat \ {0})] ==
    IF p[1] % p[2] = 0 THEN p[2] ELSE Divisor[<<p[2], p[1] % p[2]>>]

Quotient(n, d) ==
    IF d = 0 THEN NaN
    ELSE LET k == Divisor[<<n, d>>] IN [n |-> n \div k, d |-> d \div k]

Plus(p, q) == Quotient(p.n * q.d + q.n * p.d, p.d * q.d)
Times(p, q) == Quotient(p.n * q.n, p.d * q.d)
Whole(n) == [n |-> n, d |-> 1]

(***************************************************************************)
(* The accumulator.                                                        *)
(***************************************************************************)
\* vwap * volume: the price mass of a stored bar.
PriceMass(bar) ==
    IF bar.vwap.d = 0 THEN Whole(0) ELSE Times(bar.vwap, Whole(bar.volume))

\* What a tick, and what a bar, brings to its bucket.
TickPart(tick) ==
    [open |-> tick.price, high |-> tick.price, low |-> tick.price,
     close |-> tick.price, volume |-> tick.size,
     mass |-> Whole(tick.price * tick.size), trades |-> 1]

BarPart(bar) ==
    [open |-> bar.open, high |-> bar.high, low |-> bar.low, close |-> bar.close,
     volume |-> bar.volume, mass |-> PriceMass(bar), trades |-> bar.trades]

\* Accumulator::new and from_bar: the bucket's start, not the row's time.
Opened(start, part) == [time |-> start, part |-> part]

\* Accumulator::update and update_bar.
Updated(acc, part) ==
    LET p == acc.part
    IN  [time |-> acc.time,
         part |-> [open |-> p.open, high |-> Max({p.high, part.high}),
                   low |-> Min({p.low, part.low}), close |-> part.close,
                   volume |-> p.volume + part.volume,
                   mass |-> Plus(p.mass, part.mass), trades |-> p.trades + part.trades]]

\* Accumulator::finish.
Closed(acc) ==
    LET p == acc.part
    IN  [time |-> acc.time, open |-> p.open, high |-> p.high, low |-> p.low,
         close |-> p.close, volume |-> p.volume,
         vwap |-> IF p.volume = 0 THEN NaN
                  ELSE Times(p.mass, Quotient(1, p.volume)),
         trades |-> p.trades]

(***************************************************************************)
(* Resampler and BarResampler: at most one open bucket, and its end; a row *)
(* past the end closes it.  Both operations answer the bars they emit.     *)
(***************************************************************************)
NoBucket == [open |-> <<>>, end |-> 0]

FinishRows(res) == IF res.open = <<>> THEN <<>> ELSE <<Closed(res.open[1])>>

\* Seeded fault: a row at the very end of the bucket is taken for one of it.
PushRowInclusive(width, session, res, time, part) ==
    IF res.open # <<>> /\ time <= res.end
    THEN [res |-> [open |-> <<Updated(res.open[1], part)>>, end |-> res.end], out |-> <<>>]
    ELSE LET start == BucketStart(width, session, time)
         IN  [res |-> [open |-> <<Opened(start, part)>>,
                       end |-> NextBucketStart(width, start)],
              out |-> FinishRows(res)]

PushRow(width, session, res, time, part) ==
    IF res.open # <<>> /\ time < res.end
    THEN [res |-> [open |-> <<Updated(res.open[1], part)>>, end |-> res.end], out |-> <<>>]
    ELSE LET start == BucketStart(width, session, time)
         IN  [res |-> [open |-> <<Opened(start, part)>>,
                       end |-> NextBucketStart(width, start)],
              out |-> FinishRows(res)]

(***************************************************************************)
(* ForwardFiller: the bar before, and flat bars for the empty buckets      *)
(* between it and the next, below a day only up to that day's close.       *)
(***************************************************************************)
FlatBar(time, price) ==
    [time |-> time, open |-> price, high |-> price, low |-> price,
     close |-> price, volume |-> 0, vwap |-> Whole(price), trades |-> 0]

\* BarClock::fill_stop, with the bar itself where there is no stop.
FillStop(width, session, prev, bar) ==
    IF width = Day THEN bar
    ELSE Min({bar, Midnight(prev) + Hours[session].close})

PushBar(width, session, fill, prev, bar) ==
    IF ~fill THEN [prev |-> <<>>, out |-> <<bar>>]
    ELSE LET before == prev[1]
             empty == IF prev = <<>> THEN 0
                      ELSE Max({0, (FillStop(width, session, before.time, bar.time)
                                       - before.time - 1) \div width})
         IN  [prev |-> <<bar>>,
              out |-> [i \in 1..empty |->
                          FlatBar(before.time + i * width, before.close)] \o <<bar>>]

(***************************************************************************)
(* A whole series at once, as resample() builds it: the rows through the   *)
(* resampler, its bars through the filler.                                 *)
(***************************************************************************)
FillerOver(width, session, fill, bars) ==
    LET filler[n \in 0..Len(bars)] ==
            IF n = 0 THEN [prev |-> <<>>, out |-> <<>>]
            ELSE LET r == PushBar(width, session, fill, filler[n - 1].prev, bars[n])
                 IN  [prev |-> r.prev, out |-> filler[n - 1].out \o r.out]
    IN  filler[Len(bars)]

\* rows is a sequence of [time, part].
ResamplerOver(width, session, rows) ==
    LET resampler[n \in 0..Len(rows)] ==
            IF n = 0 THEN [res |-> NoBucket, out |-> <<>>]
            ELSE LET r == PushRow(width, session, resampler[n - 1].res,
                                  rows[n].time, rows[n].part)
                 IN  [res |-> r.res, out |-> resampler[n - 1].out \o r.out]
    IN  resampler[Len(rows)]

Resampled(width, session, fill, rows) ==
    LET r == ResamplerOver(width, session, rows)
    IN  FillerOver(width, session, fill, r.out \o FinishRows(r.res)).out
=============================================================================
