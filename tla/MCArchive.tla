----------------------------- MODULE MCArchive ------------------------------
(***************************************************************************)
(* The hours and stores of MCSidecar in two archives: the symbol between   *)
(* another one and files that are no ticks, and with its older ticks in a  *)
(* file of their own.                                                      *)
(***************************************************************************)
EXTENDS Archive

MCEvenHours == [s \in Sessions |-> IF s = "ext" THEN [open |-> 1, close |-> 7]
                                   ELSE [open |-> 3, close |-> 5]]

Of(width, session) == [width |-> width, session |-> session]

MCStores == {Of(2, "ext"), Of(8, "rth")}
MCRequests == {Of(2, "ext"), Of(4, "rth"), Of(8, "ext"), Of(8, "rth")}
MCWidths == <<8, 2>>

\* Early, the two sides of a regular bucket boundary, after the close, and the
\* next day's regular hours.
MCTimes == {9, 11, 12, 15, 20}
MCEnds == {None, 12}

MCSymbols == <<"OTHER", "SYM", "ZED">>
Tick(time, id) == [time |-> time, ticks |-> <<id>>]
FileOf(kind, symbol, rows) == [kind |-> kind, symbol |-> symbol, rows |-> rows]

Crowded == [first |-> <<FileOf("tick", "OTHER", <<Tick(11, 1), Tick(20, 2)>>)>>,
            last |-> <<FileOf("unreadable", "ZED", <<>>), FileOf("alien", "ZED", <<>>)>>]
Split == [first |-> <<FileOf("tick", "SYM", <<Tick(3, -2), Tick(11, -1)>>)>>, last |-> <<>>]

MCArchives == {Crowded, Split}

\* What Archive_proofs assumes of widths, hours and times holds here.
ASSUME FitAssumption == EvenStores /\ FitRequests
=============================================================================
