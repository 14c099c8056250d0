------------------------------- MODULE Adjust -------------------------------
(***************************************************************************)
(* Corporate actions: the [actions] table of a configuration file resolved *)
(* for one symbol, the streaming adjuster with its cursor, and the batch   *)
(* adjustment of a whole series.  A ratio or a factor is a rational        *)
(* [n, d]; prices are integers in a unit fine enough for every factor.     *)
(* The table is a sequence of [name, specs], a row of it [date, split,     *)
(* reverse_split, dividend]: dates in days, a field the row omits 0.       *)
(***************************************************************************)
EXTENDS Ohlcv

One == Whole(1)
Flip(q) == [n |-> q.d, d |-> q.n]

(***************************************************************************)
(* ActionTable::resolve.                                                   *)
(***************************************************************************)
Fields == {"split", "reverse_split", "dividend"}
ActionSpec == [date : Nat, split : Nat, reverse_split : Nat, dividend : Nat]

\* Exactly one field, a split not 1, a reverse split above 1.  0 stands for a
\* field left out: rows refused for their field of 0 or below, or for their date,
\* are not among the rows here.
RowAccepted(spec) ==
    /\ Cardinality({f \in Fields : spec[f] # 0}) = 1
    /\ spec.split # 1
    /\ spec.reverse_split # 1

ActionOf(spec) ==
    [time |-> Day * spec.date,
     ratio |-> IF spec.split # 0 THEN Whole(spec.split)
               ELSE IF spec.reverse_split # 0 THEN Quotient(1, spec.reverse_split)
               ELSE One,
     amount |-> spec.dividend]

\* The rows of the first key that is the symbol, whatever its case; any other
\* key that is the symbol too is not looked at.
SpecsOf(table, name) ==
    LET named == {i \in DOMAIN table : table[i].name = name}
    IN  IF named = {} THEN <<>> ELSE table[Min(named)].specs

Resolvable(table, name) ==
    \A i \in DOMAIN SpecsOf(table, name) : RowAccepted(SpecsOf(table, name)[i])

\* The sort by ex-date is stable.
SortedIn(actions, action) ==
    LET earlier == {i \in DOMAIN actions : actions[i].time <= action.time}
    IN  InsertAt(actions, Max({0} \cup earlier) + 1, action)

Resolve(table, name) ==
    LET specs == SpecsOf(table, name)
        sorted[n \in 0..Len(specs)] ==
            IF n = 0 THEN <<>> ELSE SortedIn(sorted[n - 1], ActionOf(specs[n]))
    IN  sorted[Len(specs)]

\* What a share from before the i-th action has become: the ratios from the last
\* action back, in the order in which they are multiplied wherever they are.
SharesFrom(actions, i) ==
    LET shares[n \in 0..Len(actions)] ==
            IF n = 0 THEN One ELSE Times(shares[n - 1], actions[Len(actions) + 1 - n].ratio)
    IN  shares[Len(actions) + 1 - i]

(***************************************************************************)
(* Adjuster: one bound per action, a dividend's with the factors of the    *)
(* splits after it, and a cursor that only moves forward.                  *)
(***************************************************************************)
Adjuster(actions) ==
    [bounds |-> [i \in DOMAIN actions |->
                    [time |-> actions[i].time,
                     price |-> Flip(SharesFrom(actions, i)),
                     volume |-> SharesFrom(actions, i)]],
     cursor |-> 1]

IsIdentity(adjuster) == adjuster.bounds = <<>>

\* Seeded fault: a row on the ex-date still counts as before it.
AdvancedLate(adjuster, time) ==
    LET past == {i \in DOMAIN adjuster.bounds :
                     /\ i >= adjuster.cursor
                     /\ \A j \in adjuster.cursor..i : adjuster.bounds[j].time < time}
    IN  [adjuster EXCEPT !.cursor = IF past = {} THEN @ ELSE Max(past) + 1]

\* Adjuster::factors, in its two effects: the cursor and the answer.
Advanced(adjuster, time) ==
    LET past == {i \in DOMAIN adjuster.bounds :
                     /\ i >= adjuster.cursor
                     /\ \A j \in adjuster.cursor..i : adjuster.bounds[j].time <= time}
    IN  [adjuster EXCEPT !.cursor = IF past = {} THEN @ ELSE Max(past) + 1]

Factors(adjuster) ==
    IF adjuster.cursor > Len(adjuster.bounds) THEN [price |-> One, volume |-> One]
    ELSE [price |-> adjuster.bounds[adjuster.cursor].price,
          volume |-> adjuster.bounds[adjuster.cursor].volume]

ScalePrice(price, factor) == (price * factor.n) \div factor.d

\* To the nearest share, halves up.
ScaleShares(shares, factor) == (2 * shares * factor.n + factor.d) \div (2 * factor.d)

ScaledBar(bar, f) ==
    LET Price(price) == ScalePrice(price, f.price)
    IN  [time |-> bar.time, open |-> Price(bar.open), high |-> Price(bar.high),
         low |-> Price(bar.low), close |-> Price(bar.close),
         volume |-> ScaleShares(bar.volume, f.volume),
         vwap |-> IF bar.vwap = NaN THEN NaN ELSE Times(bar.vwap, f.price),
         trades |-> bar.trades]

\* Seeded fault: the size stays.
ScaledTickPrice(tick, f) == [tick EXCEPT !.price = ScalePrice(@, f.price)]

ScaledTick(tick, f) ==
    [tick EXCEPT !.price = ScalePrice(@, f.price), !.size = ScaleShares(@, f.volume)]

(***************************************************************************)
(* adjust_bars in split-only mode, the one the commands use: backwards     *)
(* over a series, and at each bar backwards over the actions not yet       *)
(* folded in, while their ex-date is after the bar.                        *)
(***************************************************************************)
AdjustBars(bars, actions) ==
    LET n == Len(bars)
        \* how many actions are left when the last k bars are done
        left[k \in 0..n] ==
            IF k = 0 THEN Len(actions)
            ELSE Max({0} \cup {j \in 1..left[k - 1] :
                                  actions[j].time <= bars[n + 1 - k].time})
        shares == [i \in DOMAIN bars |-> SharesFrom(actions, left[n + 1 - i] + 1)]
    IN  [i \in DOMAIN bars |->
            ScaledBar(bars[i], [price |-> Flip(shares[i]), volume |-> shares[i]])]
=============================================================================
