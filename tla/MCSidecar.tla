----------------------------- MODULE MCSidecar ------------------------------
(***************************************************************************)
(* Days of eight units for Sidecar.                                        *)
(***************************************************************************)
EXTENDS Sidecar

\* The opens do not lie whole buckets of width 2 apart, as 04:00 and 09:30 do
\* not for one hour, or they do.
OddHours == [s \in Sessions |-> IF s = "ext" THEN [open |-> 1, close |-> 7]
                                ELSE [open |-> 4, close |-> 6]]
EvenHours == [s \in Sessions |-> IF s = "ext" THEN [open |-> 1, close |-> 7]
                                 ELSE [open |-> 3, close |-> 5]]

Of(width, session) == [width |-> width, session |-> session]

IntradayStore == {Of(2, "ext")}
RegularStore == {Of(2, "rth")}
RegularRequests == {Of(2, "rth")}
Widths == <<8, 2>>

OpenTimes == {12, 13}
LateTimes == {11, 13}
Unbounded == {None}
=============================================================================
