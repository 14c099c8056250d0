------------------------------ MODULE Readings ------------------------------
(***************************************************************************)
(* The number that an indicator's term stands for, which gives Chart its   *)
(* Reading.  A logarithm is read as the rational function that is closest  *)
(* to it, and the deviation of a window as its spread.                     *)
(***************************************************************************)
EXTENDS Chart

RECURSIVE TermReading(_, _)
TermReading(period, term) ==
    LET Of(i) == TermReading(period, term[i])
        Sum(terms) ==
            FoldLeft(LAMBDA s, t : IF t[1] = "+" THEN Plus(s, TermReading(period, t[2]))
                                   ELSE Minus(s, TermReading(period, t[2])),
                     Whole(0), terms)
    IN  CASE term[1] \in {"close", "volume"} -> Whole(term[2])
          [] term[1] = "average" -> Over(Sum(term[2]), Whole(term[3]))
          [] term[1] = "ema" ->
                Plus(Of(2), Times(Quotient(2, period + 1), Minus(Of(3), Of(2))))
          [] term[1] = "dema" -> Minus(Times(Whole(2), Of(2)), Of(3))
          [] term[1] = "simple" -> Over(Minus(Of(3), Of(2)), Of(2))
          [] term[1] = "log" ->
                Over(Times(Whole(2), Minus(Of(3), Of(2))), Plus(Of(2), Of(3)))
          [] term[1] = "stdev" ->
                LET returns == {TermReading(period, term[2][i]) : i \in DOMAIN term[2]}
                IN  Minus(Greatest(returns), Least(returns))

\* Averages of the gains and of the losses, which are numbers, and 100 where
\* nothing was lost.
RECURSIVE Moved(_, _)
Moved(period, term) ==
    IF term[1] = "average"
    THEN Quotient(FoldLeft(LAMBDA s, t : s + t[2], 0, term[2]), period)
    ELSE Over(Plus(Times(Moved(period, term[2]), Whole(period - 1)), Whole(term[3])),
              Whole(period))

RsiReading(period, term) ==
    LET gain == Moved(period, term[2])
        loss == Moved(period, term[3])
    IN  IF loss.n = 0 THEN Whole(100)
        ELSE Over(Times(Whole(100), gain), Plus(gain, loss))

SpecReading(spec, term) ==
    IF spec.kind = "rsi" THEN RsiReading(spec.period, term)
    ELSE TermReading(spec.period, term)
=============================================================================
