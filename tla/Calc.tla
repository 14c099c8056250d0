-------------------------------- MODULE Calc --------------------------------
(***************************************************************************)
(* The built-in indicators, each twice: over a whole series (Indicator::   *)
(* compute) and one bar at a time (StreamingIndicator::update).  Floating  *)
(* point makes the order of operations part of the result, so a value is   *)
(* the term that computes it: a tuple headed by its operation, with        *)
(* <<source, number>> at the leaves.  None is the empty tuple.             *)
(***************************************************************************)
EXTENDS Ohlcv

None == <<>>

\* Source::value; the rsi, ret and vol columns read the close.
Leaf(kind, bar) ==
    IF kind \in {"vsma", "vema", "vdema"} THEN <<"volume", bar.volume>>
    ELSE <<"close", bar.close>>

Divided(sum, period) == <<"average", sum, period>>
Plain(terms) == [i \in DOMAIN terms |-> <<"+", terms[i]>>]
Smoothed(method, previous, value) == <<method, previous, value>>
Doubled(inner, outer) == <<"dema", inner, outer>>
OneReturn(method, previous, current) == <<method, previous, current>>
RsiValue(gain, loss) == <<"rsi", gain, loss>>
Stdev(window) == <<"stdev", window>>

\* A move between two closes as its gain and its loss.
Gain(previous, current) == Max({current[2] - previous[2], 0})
Loss(previous, current) == Max({previous[2] - current[2], 0})

(***************************************************************************)
(* Over a whole series.                                                    *)
(***************************************************************************)
\* The sum that a window of period values leaves behind as it moves on.
RunningSum(values, period) ==
    LET sum[i \in 0..Len(values)] ==
            IF i = 0 THEN <<>>
            ELSE LET added == Append(sum[i - 1], <<"+", values[i]>>)
                 IN  IF i > period THEN Append(added, <<"-", values[i - period]>>) ELSE added
    IN  sum

SimpleMa(values, period) ==
    [i \in DOMAIN values |->
        IF period = 0 \/ i < period THEN None
        ELSE Divided(RunningSum(values, period)[i], period)]

\* The plain average of the first period values, every later one smoothed in.
SmoothedMa(method, values, period) ==
    LET average[i \in 0..Len(values)] ==
            IF i = 0 \/ period = 0 \/ i < period THEN None
            ELSE IF i = period THEN Divided(Plain(SubSeq(values, 1, period)), period)
            ELSE Smoothed(method, average[i - 1], values[i])
    IN  [i \in DOMAIN values |-> average[i]]

ExpMa(values, period) == SmoothedMa("ema", values, period)

\* The tail of the inner average, from its first value, through the outer one.
DoubleEma(values, period) ==
    LET inner == ExpMa(values, period)
        valued == {i \in DOMAIN inner : inner[i] # None}
        start == Min(valued)
        outer == ExpMa(SubSeq(inner, start, Len(inner)), period)
    IN  [i \in DOMAIN values |->
            IF valued = {} \/ i < start THEN None
            ELSE IF outer[i - start + 1] = None THEN None
            ELSE Doubled(inner[i], outer[i - start + 1])]

\* What each bar but the first adds: a gain, a loss, a return.
Gains(closes) == [i \in 1..(Len(closes) - 1) |-> Gain(closes[i], closes[i + 1])]
Losses(closes) == [i \in 1..(Len(closes) - 1) |-> Loss(closes[i], closes[i + 1])]
LogReturns(closes) ==
    [i \in 1..(Len(closes) - 1) |-> OneReturn("log", closes[i], closes[i + 1])]

Rsi(closes, period) ==
    LET gain == SmoothedMa("wilder", Gains(closes), period)
        loss == SmoothedMa("wilder", Losses(closes), period)
    IN  [i \in DOMAIN closes |->
            IF period = 0 \/ i <= period THEN None
            ELSE RsiValue(gain[i - 1], loss[i - 1])]

Returns(closes, method) ==
    [i \in DOMAIN closes |->
        IF i = 1 THEN None ELSE OneReturn(method, closes[i - 1], closes[i])]

\* The window of period returns that ends at the bar.
Volatility(closes, period) ==
    [i \in DOMAIN closes |->
        IF period < 2 \/ i <= period THEN None
        ELSE Stdev(SubSeq(LogReturns(closes), i - period, i - 1))]

\* Calc::run of one parsed spec, [kind, period]; ret carries its method.
Compute(spec, bars) ==
    LET values == [i \in DOMAIN bars |-> Leaf(spec.kind, bars[i])]
    IN  CASE spec.kind \in {"sma", "vsma"} -> SimpleMa(values, spec.period)
          [] spec.kind \in {"ema", "vema"} -> ExpMa(values, spec.period)
          [] spec.kind \in {"dema", "vdema"} -> DoubleEma(values, spec.period)
          [] spec.kind = "rsi" -> Rsi(values, spec.period)
          [] spec.kind \in {"log", "simple"} -> Returns(values, spec.kind)
          [] spec.kind = "vol" -> Volatility(values, spec.period)

\* INDICATOR_KINDS, ret as its two methods.
SpecKinds == {"sma", "ema", "dema", "vsma", "vema", "vdema", "rsi", "vol", "log", "simple"}

\* indicator_spec and parse_period.
SpecAccepted(spec) ==
    /\ spec.kind \in SpecKinds
    /\ spec.kind \in {"log", "simple"} \/ spec.period >= 1

(***************************************************************************)
(* One value at a time.  A push answers [state, out].                      *)
(***************************************************************************)
NoRing == [buf |-> <<>>, sum |-> <<>>]

\* RollingSma: the last period values and their running sum.
PushSma(state, period, value) ==
    LET full == Len(state.buf) = period
        added == Append(state.sum, <<"+", value>>)
        next == [buf |-> IF full THEN Append(Tail(state.buf), value)
                         ELSE Append(state.buf, value),
                 sum |-> IF full THEN Append(added, <<"-", Head(state.buf)>>) ELSE added]
    IN  [state |-> next,
         out |-> IF Len(next.buf) = period THEN Divided(next.sum, period) ELSE None]

\* OnlineEma: the values of the seed until there are period of them.
NoEma == [seed |-> <<>>, ema |-> None]

\* Seeded fault: the value that completes the seed is left to the next one.
PushEmaLate(state, period, value) ==
    LET seed == Append(state.seed, value)
        ema == IF state.ema # None THEN Smoothed("ema", state.ema, value)
               ELSE IF Len(seed) > period THEN Divided(Plain(seed), period)
               ELSE None
    IN  [state |-> [seed |-> IF state.ema # None THEN state.seed ELSE seed,
                    ema |-> ema],
         out |-> ema]

PushEma(state, period, value) ==
    LET seed == Append(state.seed, value)
        ema == IF state.ema # None THEN Smoothed("ema", state.ema, value)
               ELSE IF Len(seed) = period THEN Divided(Plain(seed), period)
               ELSE None
    IN  [state |-> [seed |-> IF state.ema # None THEN state.seed ELSE seed,
                    ema |-> ema],
         out |-> ema]

\* OnlineDema: the outer average is fed what the inner one answers, if it does.
NoDema == [inner |-> NoEma, outer |-> NoEma]

PushDema(state, period, value) ==
    LET a == PushEma(state.inner, period, value)
        b == PushEma(state.outer, period, a.out)
    IN  [state |-> [inner |-> a.state,
                    outer |-> IF a.out = None THEN state.outer ELSE b.state],
         out |-> IF a.out = None \/ b.out = None THEN None ELSE Doubled(a.out, b.out)]

\* OnlineRsi: the moves of the seed, then the two smoothed averages.
NoRsi == [prev |-> None, gains |-> <<>>, losses |-> <<>>,
          gain |-> None, loss |-> None]

PushRsi(state, period, close) ==
    LET gain == Gain(state.prev, close)
        loss == Loss(state.prev, close)
        gains == Append(state.gains, gain)
        losses == Append(state.losses, loss)
        averaged == state.gain # None
        up == IF averaged THEN Smoothed("wilder", state.gain, gain)
              ELSE Divided(Plain(gains), period)
        down == IF averaged THEN Smoothed("wilder", state.loss, loss)
                ELSE Divided(Plain(losses), period)
    IN  IF state.prev = None THEN [state |-> [state EXCEPT !.prev = close], out |-> None]
        ELSE IF ~averaged /\ Len(gains) < period
        THEN [state |-> [prev |-> close, gains |-> gains, losses |-> losses,
                         gain |-> None, loss |-> None], out |-> None]
        ELSE [state |-> [prev |-> close, gains |-> state.gains, losses |-> state.losses,
                         gain |-> up, loss |-> down], out |-> RsiValue(up, down)]

\* OnlineReturns.
PushReturn(state, method, close) ==
    [state |-> [prev |-> close],
     out |-> IF state.prev = None THEN None ELSE OneReturn(method, state.prev, close)]

\* OnlineVolatility: the last period log returns.
NoVolatility == [prev |-> None, window |-> <<>>]

PushVolatility(state, period, close) ==
    LET longer == Append(state.window, OneReturn("log", state.prev, close))
        window == IF Len(longer) > period THEN Tail(longer) ELSE longer
    IN  IF state.prev = None THEN [state |-> [prev |-> close, window |-> state.window], out |-> None]
        ELSE [state |-> [prev |-> close, window |-> window],
              out |-> IF period >= 2 /\ Len(window) = period THEN Stdev(window) ELSE None]

\* parse_streaming_spec and BuiltinStream::update.
NewColumn(spec) ==
    CASE spec.kind \in {"sma", "vsma"} -> NoRing
      [] spec.kind \in {"ema", "vema"} -> NoEma
      [] spec.kind \in {"dema", "vdema"} -> NoDema
      [] spec.kind = "rsi" -> NoRsi
      [] spec.kind \in {"log", "simple"} -> [prev |-> None]
      [] spec.kind = "vol" -> NoVolatility

Update(spec, state, bar) ==
    LET value == Leaf(spec.kind, bar)
    IN  CASE spec.kind \in {"sma", "vsma"} -> PushSma(state, spec.period, value)
          [] spec.kind \in {"ema", "vema"} -> PushEma(state, spec.period, value)
          [] spec.kind \in {"dema", "vdema"} -> PushDema(state, spec.period, value)
          [] spec.kind = "rsi" -> PushRsi(state, spec.period, value)
          [] spec.kind \in {"log", "simple"} -> PushReturn(state, spec.kind, value)
          [] spec.kind = "vol" -> PushVolatility(state, spec.period, value)
=============================================================================
