------------------------------ MODULE Request ------------------------------
(***************************************************************************)
(* What a command line, or a tool's parameters, ask for.  A line is        *)
(*   tokens   the positional words in any order, as the classifier tells   *)
(*            them apart: [is, value] with is "rth", "fill", "range",      *)
(*            "interval", "spec" or "format"; paths are the selection's    *)
(*   options  [rth, fill, start, end], and a tool's parameters             *)
(*   config   [interval, fill] of CONFIG.toml                              *)
(* where what may be missing is a sequence of at most one.  A bound is a   *)
(* "date" (a day), or an "instant": a time, an epoch or a local date-time. *)
(***************************************************************************)
EXTENDS Bars

\* The values of the words of one kind, in their order.
Given(line, kind) ==
    LET tokens == line.tokens
        words == RowsAt(tokens, {i \in DOMAIN tokens : tokens[i].is = kind})
    IN  [i \in DOMAIN words |-> words[i].value]

Says(line, kind) == \E i \in DOMAIN line.tokens : line.tokens[i].is = kind

\* The first of several places that says anything, the last one always does.
FirstSaid(places) == Head(FlattenSeq(places))

\* classify_calc: an interval, a format and a range are given once at most;
\* calc wants a spec.
Classified(line) ==
    /\ \A kind \in {"interval", "format", "range"} : Len(Given(line, kind)) <= 1
    /\ Says(line, "spec")

\* The sides of a START..END word.
RangeSide(line, side) == FlattenSeq([i \in DOMAIN Given(line, "range") |->
                                         Given(line, "range")[i][side]])

\* Seeded fault: an end date ends where its day begins.
TimeBoundOfStart(bound, isEnd) == IF bound.is = "date" THEN Day * bound.at ELSE bound.at

\* parse_time_bound: a bare date is its local midnight, as an end the last
\* unit of its day; an instant is itself at either end.
TimeBound(bound, isEnd) ==
    CASE bound.is = "instant" -> bound.at
      [] bound.is = "date" -> IF isEnd THEN Day * (bound.at + 1) - 1 ELSE Day * bound.at

\* parse_bounds: an option wins over its side of the range, and what neither
\* gives is open.
ParseBounds(line) ==
    LET starts == line.options.start \o RangeSide(line, "start")
        ends == line.options.end \o RangeSide(line, "end")
    IN  [from |-> IF starts = <<>> THEN <<>> ELSE <<TimeBound(Head(starts), FALSE)>>,
         to |-> IF ends = <<>> THEN <<>> ELSE <<TimeBound(Head(ends), TRUE)>>]

\* resolve_interval: the word, the config, or a day.
ResolveInterval(line) ==
    FirstSaid(<<Given(line, "interval"), line.config.interval, <<Day>>>>)

\* A word or an option is a value of its kind.
Bound == [is : {"date", "instant"}, at : Int]
Side == {bounds \in Seq(Bound) : Len(bounds) <= 1}
IsLine(line) ==
    /\ line.tokens \in Seq(ToSet(line.tokens))
    /\ line.options.start \in Side /\ line.options.end \in Side
    /\ \A i \in DOMAIN line.tokens :
          line.tokens[i].is = "range" => line.tokens[i].value \in [start : Side, end : Side]

\* The fields of the query that a line gives.
Asked(line) ==
    [line |-> line,
     accepted |-> Classified(line),
     width |-> ResolveInterval(line),
     rth |-> line.options.rth \/ Says(line, "rth"),
     fill |-> line.options.fill \/ line.config.fill \/ Says(line, "fill"),
     from |-> ParseBounds(line).from,
     to |-> ParseBounds(line).to,
     format |-> FirstSaid(<<Given(line, "format"), <<"frame">>>>),
     spec |-> FirstSaid(<<Given(line, "spec"), <<[kind |-> "none", period |-> 0]>>>>)]
=============================================================================
