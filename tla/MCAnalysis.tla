----------------------------- MODULE MCAnalysis -----------------------------
(***************************************************************************)
(* Seven days of 8 units, extended hours 1..7 and regular hours 2..6, a    *)
(* source of up to five trades, and a table with a 4-for-1, a dividend and *)
(* a 1-for-2 written out of order.                                         *)
(***************************************************************************)
EXTENDS Views, Readings

MCHours == [rth |-> [open |-> 2, close |-> 6], ext |-> [open |-> 1, close |-> 7]]
MCInstants == {2, 3, 5, 7, 11, 18, 33, 52}
MCPrices == <<16, 24, 8, 24, 16>>
MCSizes == <<3, 1, 2, 2, 4>>

Entry(date, split, reverse, dividend) ==
    [date |-> date, split |-> split, reverse_split |-> reverse, dividend |-> dividend]

Splits == << [name |-> "OTHER", specs |-> <<Entry(1, 4, 0, 0)>>],
             [name |-> "SYM", specs |-> <<Entry(3, 0, 2, 0), Entry(1, 4, 0, 0),
                                          Entry(2, 0, 0, 1)>>] >>
TwoFields == << [name |-> "SYM", specs |-> <<Entry(1, 2, 2, 0)>>] >>

Word(kind) == <<[is |-> kind, value |-> kind]>>
Naming(kind, value) == <<[is |-> kind, value |-> value]>>
If(said, words) == IF said THEN words ELSE <<>>
On(day) == <<[is |-> "date", at |-> day]>>
At(time) == <<[is |-> "instant", at |-> time]>>

\* A line of words, and its query.
Line(words) ==
    [tokens |-> words,
     options |-> [rth |-> FALSE, fill |-> FALSE, start |-> <<>>, end |-> <<>>],
     config |-> [interval |-> <<>>, fill |-> FALSE]]

Ask(src, line, table, front) ==
    Asked(line) @@ [source |-> src, table |-> table, limit |-> 2, chart |-> <<>>,
                    front |-> IF front = "mcp" THEN front ELSE Asked(line).format]

\* The words behind each other, or as a tool's parameters.
Words(width, rth, fill, kind, period) ==
    If(rth, Word("rth")) \o Naming("spec", [kind |-> kind, period |-> period])
    \o If(width # 8, Naming("interval", width)) \o If(fill, Word("fill"))

Query(src, width, rth, fill, table, front, kind, period) ==
    Ask(src, Line(Words(width, rth, fill, kind, period) \o Naming("format", front)),
        table, front)

Kinds(list, period) == [i \in DOMAIN list |-> [kind |-> list[i], period |-> period]]
Drawn(q, list, volume) ==
    [q EXCEPT !.chart = <<[specs |-> Kinds(list, 2), volume |-> volume]>>]

MCLadder == << [span |-> 2, unit |-> "clock", step |-> 2],
               [span |-> 4, unit |-> "clock", step |-> 4],
               [span |-> 8, unit |-> "day", step |-> 1],
               [span |-> 16, unit |-> "month", step |-> 1] >>
MCCalendar == [day |-> 1, week |-> 2, month |-> 2, year |-> 4]

MCQueries ==
    { Query("ticks", 2, FALSE, TRUE, Splits, "frame", "sma", 3),
      Query("ticks", 2, TRUE, TRUE, Splits, "frame", "rsi", 2),
      Query("ticks", 8, FALSE, TRUE, Splits, "frame", "dema", 2),
      Query("ticks", 8, TRUE, FALSE, Splits, "frame", "vol", 2),
      Drawn(Query("ticks", 4, FALSE, FALSE, Splits, "frame", "vema", 2),
            <<"rsi", "simple", "ema", "log">>, FALSE),
      Query("bars", 2, FALSE, TRUE, Splits, "frame", "vsma", 2),
      Drawn(Query("bars", 8, TRUE, FALSE, Splits, "frame", "vdema", 1),
            <<"dema", "vsma", "rsi", "vema">>, FALSE),
      Query("ticks", 2, FALSE, TRUE, Splits, "mcp", "ema", 2),
      Query("bars", 8, FALSE, FALSE, <<>>, "mcp", "simple", 0),
      Ask("ticks", [Line(Words(8, FALSE, FALSE, "log", 0)
                         \o Naming("range", [start |-> On(0), end |-> On(2)]))
                    EXCEPT !.options.start = On(1), !.config = [interval |-> <<2>>, fill |-> TRUE]],
          Splits, "frame"),
      Ask("ticks", [Line(Words(8, FALSE, FALSE, "sma", 2))
                    EXCEPT !.options.start = At(11), !.options.end = At(36)], <<>>, "mcp"),
      Ask("ticks", Line(Words(8, FALSE, FALSE, "sma", 2) \o Naming("interval", 2)
                        \o Naming("interval", 4)), <<>>, "frame"),
      Query("ticks", 8, FALSE, FALSE, Splits, "fwob", "sma", 2),
      Query("ticks", 8, FALSE, FALSE, Splits, "frame", "rsi", 0),
      Query("ticks", 8, FALSE, FALSE, TwoFields, "frame", "sma", 2) }

\* The runs are about queries that the theorems are about.
ASSUME FitAssumption == FitQueries
=============================================================================
