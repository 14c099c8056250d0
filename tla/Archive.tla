------------------------------ MODULE Archive -------------------------------
(***************************************************************************)
(* One archive directory: the tick file and the sidecars of Sidecar among  *)
(* other files, and the commands and MCP tools that read, sync and unsync  *)
(* a selection of them.  A file is [kind, symbol, rows]: kind "tick" or    *)
(* "bar"; "alien" for an FWOB file with another schema; "unreadable" for   *)
(* what is no FWOB file.  The symbol is the one the header's title names,  *)
(* or else the file's stem.  An answer is one entry for each symbol, or    *)
(* file, that is finished; what a command printed of the one it failed at  *)
(* is left out.                                                            *)
(***************************************************************************)
EXTENDS Sidecar

CONSTANTS
    Symbol,      \* the symbol whose files Sidecar keeps
    Symbols,     \* all symbols, in the order of their names
    Archives     \* what may lie beside: files sorted before and after

File == [kind: {"tick", "bar", "alien", "unreadable"}, symbol: ToSet(Symbols),
         rows: Seq([time: Int, ticks: Seq(Int)])]

ASSUME ArchiveAssumption ==
    /\ Symbols \in Seq(ToSet(Symbols)) /\ IsInjective(Symbols)
    /\ Symbol \in ToSet(Symbols)
    /\ Archives \subseteq [first: Seq(File), last: Seq(File)]

VARIABLE beside

archive == <<vars, beside>>

-----------------------------------------------------------------------------
(* The directory in the order of its names (SYM.30m... before SYM.fwob), and *)
(* what a selection finds in it.                                             *)

Own == [kind |-> "tick", symbol |-> Symbol, rows |-> Rows(source)]
Side(s) == [kind |-> "bar", symbol |-> Symbol, rows |-> sidecar[s]]

SideFiles ==
    LET order == Order([width |-> Day, session |-> "rth"])
        stored == RowsAt(order, {i \in DOMAIN order :
                                    order[i] \in Stores /\ sidecar[order[i]] # <<>>})
    IN  [i \in DOMAIN stored |-> Side(stored[i])]

\* collect_dir: no token at all, or a directory.
Listing == beside.first \o SideFiles \o <<Own>> \o beside.last

\* discover_inputs and Root::resolve_all: the whole directory, or files named
\* one after another; the symbol by itself is its own file.
Selections ==
    LET listing == Listing
    IN  {SubSeq(listing, 1, n) : n \in 1..Len(listing)}
        \cup {<<f>> : f \in ToSet(listing)}
        \cup {<<Own, f>> : f \in ToSet(SideFiles)}

FilesOf(files, symbol) == RowsAt(files, {i \in DOMAIN files : files[i].symbol = symbol})
Readable(files) == RowsAt(files, {i \in DOMAIN files : files[i].kind # "unreadable"})
SymbolsIn(files) ==
    RowsAt(Symbols, {i \in DOMAIN Symbols : \E f \in ToSet(files) : f.symbol = Symbols[i]})

-----------------------------------------------------------------------------
(* The rows of one symbol's files.                                           *)

\* source_shape: the gaps of a bar file's rows tell its width, if it has two.
Shape(file) ==
    LET gaps == {file.rows[i + 1].time - file.rows[i].time : i \in 1..(Len(file.rows) - 1)}
    IN  CASE file.kind = "tick" -> "ticks"
          [] file.kind = "bar" /\ gaps = {} -> "unknown"
          [] file.kind = "bar" /\ gaps # {} -> IF Min(gaps) < Day THEN "subday" ELSE "coarse"
          [] OTHER -> "none"

\* Seeded fault: bars are never filtered.
AcceptsTicksOnly(shape) == shape = "ticks"

\* SourceShape::accepts_session_filter.
Accepts(shape) == shape \in {"ticks", "subday"}

\* sources_shape, then every file read as the kind of the last one: a mixture
\* is refused by the one or by the other.
Streamable(files) ==
    LET shapes == {Shape(f) : f \in ToSet(files)}
    IN  /\ "none" \notin shapes
        /\ \A a, b \in shapes : Accepts(a) = Accepts(b)
        /\ \A f, g \in ToSet(files) : f.kind = g.kind

\* session_row_filter, and every row into one resampler.
Streamed(files, want) ==
    LET rows == FlattenSeq([i \in DOMAIN files |-> files[i].rows])
        filter == want.session = "rth" /\ \A f \in ToSet(files) : Accepts(Shape(f))
    IN  Resample(want.width, want.session,
                 IF filter THEN InSession("rth", rows) ELSE rows)

-----------------------------------------------------------------------------
(* The commands and the tools.                                               *)

\* bars and calc: what cannot be opened is skipped with a word, the symbols
\* follow in their order, and the first that fails ends the command.
BarsCommand(files, want) ==
    LET found == Readable(files)
        asked == SymbolsIn(found)
        parts == [i \in DOMAIN asked |-> FilesOf(found, asked[i])]
        failed == {i \in DOMAIN asked : ~Streamable(parts[i])}
        done == Min({Len(asked) + 1} \cup failed) - 1
    IN  [ok |-> failed = {},
         rows |-> [i \in 1..done |->
                      [symbol |-> asked[i], bars |-> Streamed(parts[i], want)]]]

\* Seeded fault: a tool passes over a symbol it cannot stream.
ToolBarsSkipping(files, want) ==
    LET asked == SymbolsIn(files)
        served == RowsAt(asked, {i \in DOMAIN asked : Streamable(FilesOf(files, asked[i]))})
        refused == \E f \in ToSet(files) : f.kind = "unreadable"
    IN  [ok |-> ~refused,
         rows |-> IF refused THEN <<>>
                  ELSE [i \in DOMAIN served |->
                           [symbol |-> served[i],
                            bars |-> Streamed(FilesOf(files, served[i]), want)]]]

\* mdfwob_bars and mdfwob_calc: one error and there is no answer.
ToolBars(files, want) ==
    LET asked == SymbolsIn(files)
        refused == \/ \E f \in ToSet(files) : f.kind = "unreadable"
                   \/ \E s \in ToSet(asked) : ~Streamable(FilesOf(files, s))
    IN  [ok |-> ~refused,
         rows |-> IF refused THEN <<>>
                  ELSE [i \in DOMAIN asked |->
                           [symbol |-> asked[i],
                            bars |-> Streamed(FilesOf(files, asked[i]), want)]]]

\* stat and ls, a row for each file: a command passes over a file it cannot
\* read and fails if that leaves no row, a tool fails at the first.
Known(files) == RowsAt(files, {i \in DOMAIN files : Shape(files[i]) # "none"})
Passing(files, shown) ==
    [ok |-> shown # <<>> \/ Known(files) = files, rows |-> shown]
AllOrNone(files) ==
    LET all == Known(files) = files
    IN  [ok |-> all, rows |-> IF all THEN files ELSE <<>>]

StatCommand(files) == Passing(files, Known(files))
StatTool(files) == IF files = <<>> THEN [ok |-> FALSE, rows |-> <<>>] ELSE AllOrNone(files)

\* ls keeps the kinds asked for; without a token that is both of them.
LsCommand(files, kinds) ==
    LET known == Known(files)
    IN  Passing(files, RowsAt(known, {i \in DOMAIN known : known[i].kind \in kinds}))
LsTool(files) == AllOrNone(files)

\* inspect and verify of one file; verify first walks all of it, then tells its
\* kind, then sums it up.
InspectCommand(file) == AllOrNone(<<file>>)
VerifyCommand(file) ==
    LET canonical == file.kind # "unreadable" /\ Known(<<file>>) # <<>>
    IN  [ok |-> canonical,
         rows |-> IF canonical THEN StatCommand(<<file>>).rows ELSE <<>>]

\* single_file: their tools take what names one file.
InspectTool(files) ==
    IF Len(files) = 1 THEN InspectCommand(files[1]) ELSE [ok |-> FALSE, rows |-> <<>>]
VerifyTool(files) ==
    IF Len(files) = 1 THEN VerifyCommand(files[1]) ELSE [ok |-> FALSE, rows |-> <<>>]

\* tick_sources: a symbol's tick files, which sync and unsync go by.
TickSources(symbol) ==
    LET listing == Listing
    IN  RowsAt(listing, {i \in DOMAIN listing :
                            listing[i].kind = "tick" /\ listing[i].symbol = symbol})

\* A symbol with several is reported and left alone.
SyncSymbol(s, end) ==
    /\ Len(TickSources(Symbol)) = 1
    /\ Trim(s, end)

UnsyncSymbol(s) ==
    /\ TickSources(Symbol) # <<>>
    /\ Unsync(s)

-----------------------------------------------------------------------------

ArchiveInit ==
    /\ Init
    /\ beside \in Archives

ArchiveNext ==
    /\ \/ \E s \in Stores : UnsyncSymbol(s) \/ \E end \in Ends : SyncSymbol(s, end)
       \/ Scan \/ Write \/ Report \/ Abandon
       \/ \E t \in Times : Download(t)
    /\ UNCHANGED beside

ArchiveSpec == ArchiveInit /\ [][ArchiveNext]_archive

-----------------------------------------------------------------------------
(* Properties.                                                               *)

\* The store behind a file, if it is a sidecar.
StoreOf(file) == {s \in Stores : sidecar[s] # <<>> /\ file = Side(s)}

\* Whatever files are selected, and in the middle of any sync: ticks and bars
\* of one symbol never go into one answer (feed.rs: "a symbol backed by both
\* would have two different notions of what a timestamp means"), and a sidecar
\* named by itself answers as the ticks do as far as it reaches, in any width
\* it divides and any session it holds, where its own rows tell that they are
\* below a day (README: "reads the sidecar, byte-identical output").
AnswersAreTheMarket ==
    \A want \in Requests :
        LET market == Rebuild(want, source)
            AsTheTicks(bars) == /\ Len(bars) <= Len(market)
                                /\ UpToLastBar(bars, SubSeq(market, 1, Len(bars)))
            Comparable(file, s) == /\ Serves(s, want)
                                   /\ s.session # want.session => Shape(file) = "subday"
        IN  \A files \in Selections :
                LET answer == BarsCommand(files, want).rows
                IN  \A i \in DOMAIN answer :
                        LET from == FilesOf(Readable(files), answer[i].symbol)
                        IN  /\ Cardinality({f.kind : f \in ToSet(from)}) = 1
                            /\ \A s \in StoreOf(from[1]) :
                                  Len(from) = 1 /\ Comparable(from[1], s)
                                  => AsTheTicks(answer[i].bars)

\* What a tool answers is complete: an entry for every symbol, or file, of the
\* selection, each as the command prints it for that symbol by itself.  A tool
\* refuses what the command answers only over a file that one of them could
\* not read (server.rs: "the same grouping bars/calc/plot use").  The files
\* that stat and ls answer for are those that inspect and verify accept one by
\* one, and the two kinds of ls share them out.
ToolsAnswerInFull ==
    \A files \in Selections :
        LET unread == \E f \in ToSet(files) : f.kind = "unreadable"
            accepted == RowsAt(files, {i \in DOMAIN files : VerifyTool(<<files[i]>>).ok})
        IN  /\ \A want \in Requests :
                  LET tool == ToolBars(files, want)
                      asked == SymbolsIn(files)
                      alone == [i \in DOMAIN asked |->
                                   BarsCommand(FilesOf(files, asked[i]), want)]
                  IN  /\ tool.ok =>
                            /\ tool.rows = FlattenSeq([i \in DOMAIN asked |-> alone[i].rows])
                            /\ [i \in DOMAIN tool.rows |-> tool.rows[i].symbol] = asked
                      /\ ~tool.ok => unread \/ ~BarsCommand(files, want).ok
            /\ StatTool(files).ok => StatTool(files).rows = accepted /\ ~unread
            /\ StatTool(files) = LsTool(files)
            /\ StatCommand(files).rows = accepted
            /\ \A f \in ToSet(files) : InspectTool(<<f>>).ok = VerifyTool(<<f>>).ok
            /\ Len(LsCommand(files, {"tick"}).rows) + Len(LsCommand(files, {"bar"}).rows)
                  = Len(accepted)
=============================================================================
