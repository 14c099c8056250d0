----------------------------- MODULE MCDownload -----------------------------
(***************************************************************************)
(* Small markets for Download, two instants a second: when each trade      *)
(* prints, and how the two providers stamp it.                             *)
(***************************************************************************)
EXTENDS Download

NoTime == None
CommitAtEnd == -1

Whole(prints) == [m \in DOMAIN prints |-> 2 * (prints[m] \div 2)]

\* Three trades share second 1, the third in its second half; the second day
\* (seconds 3 and 4) is empty; on the third day the two trades of second 6 print
\* on both sides of the fractional end 13.
PastPrints == <<2, 2, 3, 5, 10, 12, 13>>
PastStamps == Whole(PastPrints)
ThreeDays == [s \in 0..8 |-> CASE s < 3 -> 3 [] s < 5 -> 5 [] OTHER -> 9]

\* The same calendar; a whole window after 5 has no trade, and the fractional
\* end 15 falls between the trades of second 7, which Databento tells apart.
SparsePrints == <<2, 2, 3, 5, 14, 15>>

\* Two days, of four seconds and of six; no trade around midnight, seconds 1 and
\* 5 with trades in both halves.
LivePrints == <<2, 3, 4, 10, 11, 12>>
LiveStamps == Whole(LivePrints)
TwoDays == [s \in 0..9 |-> IF s < 4 THEN 4 ELSE 10]

\* One day, a second with trades in both halves.
SplitPrints == <<2, 3, 5>>
SplitStamps == Whole(SplitPrints)
OneDay == [s \in 0..9 |-> 10]
=============================================================================
