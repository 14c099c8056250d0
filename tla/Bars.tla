-------------------------------- MODULE Bars --------------------------------
(***************************************************************************)
(* From an ascending stream of rows to bars: BarClock::Session and the     *)
(* streaming resamplers.  A row is a tick or a stored bar, [time, ticks]:  *)
(* everything in a bar is computed from its ticks in their order, so a bar *)
(* is here the sequence of its ticks, each named by its place in the       *)
(* source.  Times are whole units counted from a local midnight; days have *)
(* equal length, and a width is a number of units below a day, or a day.   *)
(***************************************************************************)
EXTENDS Integers, Sequences, SequencesExt

CONSTANTS
    Day,     \* the units of a day
    Hours    \* session -> [open, close], in units from midnight

Sessions == {"rth", "ext"}

ASSUME BarsAssumption ==
    /\ Day \in Nat \ {0}
    \* Session::new refuses a window that does not end after its start.
    /\ Hours \in [Sessions -> [open: 0..Day, close: 0..Day]]
    /\ \A s \in Sessions : Hours[s].open < Hours[s].close

Midnight(t) == Day * (t \div Day)

\* Session::contains.
InHours(session, t) ==
    t - Midnight(t) \in Hours[session].open..(Hours[session].close - 1)

\* Session::open_epoch: the session's open on the row's day.
OpenEpoch(session, t) == Midnight(t) + Hours[session].open

\* Below a day, buckets are counted from that open in both directions; a daily
\* bucket starts at midnight.
BucketStart(width, session, t) ==
    LET open == OpenEpoch(session, t)
    IN  IF width = Day THEN Midnight(t)
        ELSE open + width * ((t - open) \div width)

NextBucketStart(width, start) == start + width

\* One row into the open bucket, or into a new one.
Push(width, session, bars, row) ==
    IF bars # <<>> /\ row.time < NextBucketStart(width, Last(bars).time)
    THEN [bars EXCEPT ![Len(bars)].ticks = @ \o row.ticks]
    ELSE Append(bars, [time |-> BucketStart(width, session, row.time),
                       ticks |-> row.ticks])

\* The rows at some positions, in their order.  This and the resampler are
\* recursive functions, about which there are laws to prove (Bars_proofs).
RowsAt(rows, positions) ==
    LET taken[n \in 0..Len(rows)] ==
            IF n = 0 THEN <<>>
            ELSE IF n \in positions THEN Append(taken[n - 1], rows[n])
            ELSE taken[n - 1]
    IN  taken[Len(rows)]

\* Resampler over ticks, BarResampler over bars.
Resample(width, session, rows) ==
    LET bars[n \in 0..Len(rows)] ==
            IF n = 0 THEN <<>> ELSE Push(width, session, bars[n - 1], rows[n])
    IN  bars[Len(rows)]

\* The session as a row filter.
InSession(session, rows) ==
    RowsAt(rows, {i \in DOMAIN rows : InHours(session, rows[i].time)})

\* The rows a series of this session is made of.
Belongs(session, t) == session = "rth" => InHours(session, t)

\* No bucket of a series runs into the next day's first: widths divide the day,
\* or the last bucket of the regular hours ends before they open again.
Even(width, session) ==
    \/ Day % width = 0
    \/ session = "rth" /\ Hours[session].close - Hours[session].open + width <= Day + 1
=============================================================================
