# A verification of mdfwob

mdfwob downloads market ticks from Interactive Brokers (IBKR) or Databento into one FWOB file per
symbol, keeps materialized bar files ("sidecars") beside them, and resamples, adjusts, inspects and
plots both, from the command line and for MCP clients. This directory holds TLA+ models of it, the
TLC configurations that check them on small instances, and proofs that hold for every instance.
Paths such as `downloader.rs`, `cli.rs` or `server.rs` are under `crates/mdfwob/src/`, paths such as
`sidecar.rs`, `feed.rs` or `plot.rs` under `crates/mdfwob-core/src/analysis/`.

## 1. Inventory

| component | state it keeps | operations | talks to |
|---|---|---|---|
| Tick download loop (`downloader.rs`, `SymbolDownloader`) | cursor, end of the range, the open writer and its last commit | resume, request, validate and cut a batch, append, skip an empty day, commit, finish | provider (call and answer), tick store, cancellation token |
| Tick store and writer (`storage.rs`) | the `.fwob` file, its lock file, buffered ticks | lock, light verification, repair, create or open, transactional append, commit, finish | the `fwob` crate |
| Request recovery and the shared IBKR client (`downloader.rs` `fetch_with_recovery`, `providers/ibkr.rs`) | `ClientSlot` (client, generation, reconnect gate), the connectivity counter, per-call deadline | snapshot, issue, poll, classify a failure, retry, reconnect | TWS through `ibapi`; every worker; the notice watcher thread |
| Databento provider (`providers/databento.rs`) | none between requests | one window per request | Databento's SDK |
| Worker pool, pacers, startup (`downloader.rs` `run`, `run_with_provider`, `RequestPacer`) | job queue, first-error slot, two pacers, cancellation token | connect with retries, take a job, lock a file, pace, record, join | worker threads; other processes over the same directory |
| Tick encoding (`tick.rs`) | none | scale, check, encode | writer, readers |
| Bar clock, resamplers, forward fill (`resample.rs`, `session.rs`, `interval.rs`) | the open bucket; the last bar | push, finish | every consumer of bars |
| Bar sidecars (`sidecar.rs`, `sync` and `unsync` in `cli.rs`) | `<SYMBOL>.<INTERVAL>.<rth or ext>.bars.fwob` | trim, scan, append, remove | tick file that a download may be growing |
| Bar feed (`feed.rs`) | none between calls | choose a sidecar or the ticks; row filter, resampler, filler, adjuster, sink | sidecars, tick files |
| Readers and discovery (`read.rs`) | none | kinds, symbols, selections, index window, streams | feed, commands, tools |
| Corporate-action adjustment (`adjust.rs`, `config.rs`) | the cursor of a streaming adjuster | resolve `[actions]`, adjust a bar, a tick or a series | feed consumers |
| Indicators (`calc.rs`) | running windows and averages | compute over a series; update with one bar | `calc`, `plot`, MCP |
| Inspection, statistics (`inspect.rs`, `stat.rs`, `summary.rs`, `ls.rs`) | an accumulator | sample, probe, accumulate, report | readers |
| Plotting (`plot.rs`) | none | panes, ranges, time axis, rectangles, Sixel | bars and indicator columns |
| Output writers (`output.rs`) | an open frame writer | open, push, finish | sidecars, commands |
| Command line and configuration (`cli.rs`, `config.rs`) | none | classify words, apply precedence, run a command over a selection | all of the above |
| MCP server (`mcp/`) | none between calls | read-only queries with a row limit | feed, readers |

The hard behaviours are these. A download is killed, cancelled or fails anywhere and is run again
over the file it left. The market prints while it is being read. Workers lose one shared socket
together, a link blip drops a request without a word, and a reconnect may collide with the
program's own client id. Several processes share a directory. A sidecar is trimmed and extended in
place while its source grows and readers take it for the truth, or is removed meanwhile. A
selection of files holds ticks, bars of the same ticks, and files that are neither, and every
command and tool has its own idea of what to skip and what to refuse. Everything that streams has a
twin that works on a whole series, and both are supposed to agree to the bit. `PROJECT.json` lists
every such hazard at its line, with the property that would notice it going wrong, or the reason none
does.

What makes each component correct:

* download loop and store: the committed file is always an exact prefix of the wanted trades, cut
  at a second, and a clean end means the whole range is there (`Promise`, `CompleteOnSuccess`);
* recovery: a reconnect never meets its own live client, a dropped request is recognised as such,
  every request ends (`NoSelfCollision`, `OrphanShows`, `EveryRequestEnds`);
* pool: one writer per file, a turn for every job, spaced requests (`OneWriterPerFile`,
  `EveryJobHasItsTurn`, `Spaced`);
* sidecars and feed: only the last stored bar may be partial, and bars are the same whichever file
  they are read from (`OnlyTheLastBarIsOpen`, `ServedIsResampled`, `AnswersAreTheMarket`);
* resamplers, adjustment, indicators: the rows are the bars of the market as it would have been
  without its splits, and streaming gives what one pass over the whole series gives
  (`RowsAreTheMarket`, `StreamedIsMaterialized`, `ColumnIsBatch`);
* statistics, summaries and tools: what is answered from bounded memory is about all of the rows
  (`AnswersAreOfTheRows`, `StatAgrees`, `InspectTellsTheFile`, `ToolsAnswerInFull`);
* plotting: panes keep apart, the axis can be read, the terminal shows the pixels
  (`PanesHoldTheirSeries`, `TimeAxisReads`, `SixelShowsTheChart`).

## 2. Modules

| module | models | state and actions, or operators |
|---|---|---|
| `MarketData` | the trades of a symbol, the wanted range, the local calendar (`next_day_start`) | pure; time in instants, a second is `Sub` of them, because "now", Databento and a configured end know sub-second times and files do not. `Market` is the timestamp a provider gives a trade |
| `TickArchive` | what a tick file promises its readers | `archive`; one action, `Extend` |
| `Download` | `download_symbol`, `download_symbol_batches`, `TickStore`, `TickWriter` over successive processes | `disk` and `torn` are the committed file and an interrupted tail, `buffered` what the open writer has beyond its last commit, `cursor`/`end`/`lastCommit` the loop's locals, `pc` the place in the code. `PrintTime` is when a trade can first be had: IBKR stamps it with its second (`providers/ibkr.rs`), Databento with the instant |
| `IbkrSession` | `fetch_with_recovery`, `historical_trade_ticks`, `head_timestamp`, `ClientSlot`, the watcher | `worker[w]` is a worker's call stack; `slot`, `gate`, `epoch` are the shared fields; `connected`, `link`, `gateway`, `notices` are TWS |
| `WorkerPool` | `Downloader::run`, `connect_with_retry`, `run_with_provider`, `RequestPacer`, the lock file | per process `phase`, `queue`, `firstError`, `pacer`; per worker `pc`, `job`; per file `lock` |
| `Bars` | `Session::contains`, `BarClock`, the resampler over abstract rows, the session row filter | pure; a bar is the sequence of its ticks. Resampler and filter are recursive functions, so that laws about them can be proved |
| `Sidecar` | `refresh_sidecar`, `unsync`, `resolve_sidecar_match`, `symbol_bars` | `source` the tick file, `sidecar` the bar files, `sync` the refresh under way with its `lost`, that an unsync has taken the file from it. `EvenStores` and `FitRequests` say what the code leaves to whoever chooses hours and intervals |
| `Archive` | one directory around `Sidecar`: `detect_kind`, `source_shape(s)`, selections, and what bars, calc, stat, ls, inspect, verify, sync, unsync and their tools do with them | adds `beside`, the other files; sync and unsync through `tick_sources` |
| `Ohlcv` | `Accumulator`, `Resampler`, `BarResampler`, `ForwardFiller`, `resample` | pure; prices and sizes are integers, quotients exact rationals with NaN |
| `Adjust` | `[actions]` (`config.rs`), `Adjuster`, `adjust_bars` | pure; a table row is date, split, reverse split, dividend |
| `Calc` | every indicator, streaming and batch | pure; a value is the term of floating-point operations that computes it, so that equal means equal to the bit |
| `Stat` | `StatAccumulator`, the path of `SummaryCollector`, the granularity guard | pure |
| `Request` | classification of a line's words, options before words before configuration, time bounds | pure: a line to a query |
| `Analysis` | one request through reader, row filter, resampler, filler, adjuster, indicator, and its consumers | `chain` the state of all stages, `rows`, `window` (MCP), `footer`, `stat`; actions `Read` and `Finish` |
| `Inspect` | `inspect_file`, `classify_file_hours`, `sample_windows`, `preview_rows` | pure, over the times of a file's frames |
| `Chart` | `plot.rs`: which series goes to which pane, pane geometry and ranges, candles, volume, lines, the time axis and its labels | pure; a drawing is a list of rectangles |
| `Readings` | the number that an indicator's term stands for, which a drawing needs and no proof does: it gives `Chart` its constant `Reading` | pure, recursive |
| `Sixel` | the canvas and `encode_sixel` | pure; bands, passes, runs |
| `Views` | composes `Analysis`, `Inspect`, `Chart` and `Sixel`: what is shown of a source once it is read | properties only |
| `MC*` | the instances TLC checks | |
| `Download_proofs`, `IbkrSession_proofs`, `WorkerPool_proofs`, `Bars_proofs`, `Archive_proofs`, `Calc_proofs`, `Analysis_proofs`, `Views_proofs` | the proofs | each extends the module it is about, `Archive_proofs` with `Sidecar` first; `Calc_proofs` and `Archive_proofs` rest on `Bars_proofs`, `Analysis_proofs` on `Calc_proofs`, `Views_proofs` on `Analysis_proofs` |

### How they compose

`Download` refines `TickArchive` (`Archive == INSTANCE TickArchive WITH archive <- disk`). The three
parts of a download meet at two narrow interfaces. `IbkrSession` is what happens inside one
request of `Download`: a request there either yields a batch, or fails, or is stopped, which are
exactly the outcomes `Fetch` allows. `Download` is what happens inside the `download` state of a
worker of `WorkerPool`, entered only with the file's lock (`OneWriterPerFile` justifies that
`Download` has a file to itself). `Sidecar` reads the file `Download` grows: its `Download` action is one
committed tick, and `InOrder` and `Promise` justify that the source only grows in time order.

`Archive` extends `Sidecar`: the same stores are synced, served and removed while other files lie in the
same directory, so a file of a selection may be the sidecar that a sync is in the middle of.
`Analysis` follows one request from a source file to its consumers. It replays what the code does
for each row: everything a row causes, down to the last consumer, happens before the next row is
read, so one `Read` is one step. Its two sources are ticks and bars as fine as the ticks; the bridge
between them and the stored sidecars is `Sidecar`, where bars are compared as the sets of ticks
they stand for, and `Archive`, where a sidecar named by itself is resampled again.

### External parts

The provider, TWS, `ibapi`, Databento and the `fwob` crate are not in the repository; they are modelled
by what the code relies on. A provider answers with a run of trades that does not split a second
(the contract in `providers/mod.rs`), with a batch that breaks the order `validate_provider_batch` checks,
with nothing, or with an error. An FWOB writer commits atomically: after a crash its file holds the
last commit and perhaps a tail that the light verification finds. TWS may drop, wedge, reset, refuse
or restore, at most `MaxFaults` times.

## 3. Runs

Each `MC` module holds the instances; each `.cfg` one question.

| run | question | instance and why it is enough |
|---|---|---|
| `history` | Does a finished range from IBKR, committed only at the end, keep its promise through crashes, torn tails, cancellation, bad batches and two restarts? | seven trades over three days: three printed in one second, the last of them in its second half, an empty day, two trades of the end's second printed on both sides of a fractional end; `MaxRuns = 2` gives a crash in a resumed download |
| `databento` | The same range day by day, committed after every batch; is anything at risk while a request is out? | six trades of which a whole request window has none, so that the jump to the next local midnight happens, and an end inside a second |
| `live` | The market prints while the download follows "now": is the file ordered, does the cursor pass a printed trade? | IBKR's whole-second stamps and half-second prints: the clock moves from 3 to 13 half seconds over two days of trades, and can stand inside a second with trades in both halves |
| `split_second` | Is the file without a gap when a request is answered inside a second that still trades? No: see findings. | three prints, two of them in the halves of one second |
| `session_shared` | Two workers and one client through any two faults in any order: one live client, no collision, no orphan unnoticed; and does every request end in an answer or a failure when TWS answers what it still has, even if the link and the gateway never come back? | two faults allow a loss during a recovery from a blip, a reset or another loss; one worker also asks for the head first, which may be refused; a retry budget of one failure. The proofs of the safety properties cover any number |
| `session_recovery` | Is every request answered when retries are unlimited and the outside recovers? | two faults, stall detection at two polls |
| `session_cancel` | Does Ctrl+C end every worker when stall detection is off and nothing may ever recover? | one fault suffices to wedge a request for ever |
| `pool` | Two processes, one with two workers, sharing a file. | a crash, failures and Ctrl+C at any point. `RetryInterval` is 0: both pacers are instances of one operator (`RequestPacer`), with both intervals at 1 TLC takes over five minutes, and `RequestsSpaced` holds for any interval by its proof. The proofs cover any number |
| `sidecar` | In a directory with other files: is a refresh a rebuild, are bars from a sidecar those of the ticks, does a selection never mix ticks and bars, does a tool answer in full? | four ticks at five times of two days (before, on both sides of a regular bucket edge, after the close, the next day), an intraday extended and a daily regular store, requests for four series, `--end` inside a day, a death or an unsync in every step; one archive puts the symbol between others and unreadable files, the other splits its ticks over two files |
| `sidecar_odd_open` | Are bars from a sidecar those of the ticks when the regular open falls inside a bucket of the extended store? No: see findings. | |
| `sidecar_after_hours` | Does a refusal for staleness mean that a refresh would help? No: see findings. | |
| `analysis` | Do the rows, values, summaries, statistics, overviews and charts of a request agree with the market and with each other? | fifteen requests (below) over every source of up to five trades at eight times of seven days, with a 4-for-1, a dividend and a 1-for-2 in the table |

The requests of `analysis`: ticks and bars as sources; widths of a quarter of a day, half a day and a
day; regular and extended hours; with fill and without; with a table, without, with a malformed
table; each family of indicators, with warm-ups longer and shorter than the source; an option
against a range word against the configuration, dates and instants; a word given twice and a period of
0, which are refused; console, FWOB and MCP front ends. Two of them are plotted, with and
without the volume pane. The eight times are chosen for their sessions and gaps: before, in and after
regular hours of one day, the next two days, and days after an empty one and after an empty
weekend, so that every bucket edge, every split date and the probe of hours have a trade on either side.
Five trades are what the longest warm-up plus a flat bar and a split take. Sixel encoding is
painted for the sources of up to `PaintedTicks` trades on a 44 by 16 canvas: two whole bands and an
incomplete one.

Every property of a passing run has a seeded fault: a variant of a definition (its comment says
"Seeded fault"), named in `PROJECT.json` under `mutants`, under which the same run must fail.

Bounds: `MaxRuns` (processes after the first), `LastNow` and `Horizon` (the clock and the calendar),
`MaxFaults`, `MaxCrashes`, `MaxTicks` (ticks of a source), `PaintedTicks`, and in `Views` the constants that
are numbers in the code (`INSPECT_SAMPLE`, `HOURS_PROBE_DAYS`, `HOURS_PROBE_FRAMES`,
`FRAME_PREVIEW_COUNT`, the canvas), which the instance makes small enough to be exceeded. Where deadlock is not
checked the system really may stop: a download's last process ends (`MCDownload`), a head request
may hang with no timeout of its own (`session_shared`), a bounded source of `MCSidecar` and
`MCArchive` is no reason to go on syncing, and a request of `MCAnalysis` has been answered. The other
runs check it.

### Fairness

* `Download`: `WF(Worker)`. A thread runs, and a request ends, which is what `IbkrSession` shows.
* `IbkrSession`: weak fairness of each worker, of the watcher thread and of the clock. Strong fairness
  of `Answered`: the poll loop looks at a stream after every interval, so an answer that keeps being
  there is read. `AnsweringSpec` adds `TwsAnswers`: a request that TWS can answer again and again is answered in the end
  (strong). It excludes a stream that keeps sending and never ends: each message resets stall detection, and
  one attempt has no other deadline. The link and the gateway need not come back: that an
  outage without end is given up is what `session_shared` asks of the retry budget.
  `RecoveringSpec` adds that the link and the gateway come back (weak) and that a request
  asked again and again is served in the end (strong); only `session_recovery` assumes it, and
  `session_cancel` assumes neither.
* `WorkerPool`: weak fairness of startup, of each worker, of joining and of the clock. No symbol needs
  requests for ever, which is `Terminates` of `Download`. `Cancel`, `Crash` and `Request` are never fair.
* `Sidecar`, `Archive` and `Analysis` claim no liveness.

## 4. Proofs

`tlapm` checks all of them. They hold for every value of the constants that the named assumptions
(`MarketAssumption`, `DownloadAssumption`, `SessionAssumption`, `PoolAssumption`, `BarsAssumption`,
`SidecarAssumption`, `ArchiveAssumption`, `AnalysisAssumption`, `InspectAssumption`,
`ChartAssumption`, `ViewsAssumption`) allow. Those say only
what the code enforces (a start before the end, Databento with a start, a positive parallelism, no two
jobs of a plan for one file, a width that `Interval::parse` yields, a row limit that `clamp_limit` leaves
positive) or what a market, a calendar, a table and a directory are.

`Download_proofs`. `OrderInvariant` shows that `TypeOK /\ LoopInv /\ InOrder` is inductive. `InOrder` alone is not:
a batch is checked against the cursor, not against the file, so the invariant has to say that what
is stored lies before the cursor (`LoopInv`), and for that to survive a restart, that a file is only
resumed after its torn tail is gone. `TypeCorrect` and `NoTradeTwice` follow, and so does
`NothingAtRisk`: with a commit interval of 0 the buffer is empty whenever a worker waits. They hold in the live case
too, whatever a provider returns.

For a settled download (every wanted trade was printed before it started) `SettledInvariant`
adds: what is stored, and what is committed, are each exact, and nothing wanted before the cursor is
missing (`NothingMissedBefore`). The argument is that a batch starts at the first wanted trade from the cursor on
and ends at the end of a second, also after it is cut at the range's end. `KeepsPromise` is
the refinement of `TickArchive`, step by step; `SuccessIsComplete` follows at the end of the loop.
`Settled` is needed: `split_second` and the empty answer of a trading day (section 5) are two ways the
promise fails without it. For Databento it also asks that a request covers a local day and that the
start is a whole second.

For a market that is still printing, `NothingPassed` shows `NeverPassesPrintedTrade`
from the order invariant: what a step passes is in the batch, since a batch starts at the first
printed trade from the cursor on and ends with the last of its second or at the end. It assumes
`Live`, which restricts Databento only: a request covers a local day and the end is configured. For IBKR
"now" may fall anywhere in a second: its stamps are whole seconds (`IbkrStamp`) and a cursor is one too, so
`retain` keeps a second or cuts it whole and never splits it. What `split_second` loses has not printed when the
step is taken, which is why it does not contradict this theorem. Without a configured end the model has a
Databento answer that is empty up to an older "now" and a cursor that jumps over what has been
printed since: the known gap of section 5.

`IbkrSession_proofs`, for any number of workers, polls, faults and any retry budget. The invariant
`IInv` has three parts. `Counts`: every new client and every restore notice costs a fault
(`epoch + notices`, and one more while the link is down, stay within `faults`, and clients within
`faults + 1`), which bounds the counters. `Slots`: while nobody holds the gate, only the slot's
client is connected, and generation 0 is client 0. `Good`, for each worker's frame: whoever dials or
replaces holds the gate; a dial finds nothing connected; a frame of the current generation has the current
client; a worker on its way to the gate comes from a connection error of a client that is no longer
connected; and a request that a blip dropped has a start epoch below `epoch + notices`. `NoOwnCollision` and `OneClient` are then
the first lines of that reasoning, and `OrphansShow` its last. `NoneAbandoned` needs no recovery of
the outside: with unlimited retries, no fatal rejection and no head request, there is no step that
gives up, for which `Persistent` says that no frame ever reaches a head request, an error or a fatal failure.

`WorkerPool_proofs`, for any number of processes, threads, symbols and crashes. `PoolInv` says where a
job is: in the queue, once; or with one worker; or it has its outcome (`Once`, `Turns`); that a lock is held
exactly by the worker that downloads its file (`Locks`), which a crash preserves since it takes
the process's workers and its locks in one step, as the operating system does; and that the error
slot is empty exactly as long as nothing failed (`Errors`), for which a job that ends must not have
had an outcome before. `OneWriter`, `EveryTurn` and `ErrorsExit` follow. `RequestsSpaced` has an invariant of its
own, `Paced`: idle time and remaining wait together make an interval; and so has `PoolTypes`, that the
queue is the rest of the plan and the counters are in bounds (`Rest`, `Bounded`).

`Bars_proofs` has the laws of the resampler and of the row filter. Both are recursive functions, and induction
over their length is derived from the well-foundedness of the natural numbers (`LeastElement`,
`Induction`, `SeqInduction`), which needs no theorem with an operator parameter. A filter is known by what it
does to the empty sequence and to one more row (`RowsAtEmpty`, `RowsAtAppend`); a resampler likewise, and from
one row to the next either the last bar gains ticks or a bar is added after it (`PushJoins`,
`PushOpens`), so that bars only ever grow at their end.

`Archive_proofs` has the proofs about `Sidecar` first, for any hours, widths, stores, ticks, ends, deaths and unsyncs. `TypeCorrect` needs no hypothesis:
even where bars are wrong, a file stays in key order, because the bars in memory lie behind what is stored
(`Behind`). `SidecarInvariant` is inductive: what is stored is a first part of the full series up to its
last bar (`IsStored`); while a refresh is at work, what it trimmed down to is exact and the next bar
starts at `resume` (`IsTrimmed`), the bars in memory continue it to the end of the scan (`IsScanned`), and what is
written is the series of the ticks seen (`IsWritten`); a file that has gone has no bars (`IsLost`). The step that
carries it is `Scan`: by `Split` the series of all ticks is its bars before an instant followed by the series of
the ticks from there on, if the instant is the start of one of its buckets. `RefreshCorrect` and `OnlyTheLastIsOpen`
follow. They assume `EvenStores`: no bucket of a store runs into the next day's first. All of
`SIDECAR_CANDIDATES` (1d, 1h, 30m, 15m, 5m, 1m) divide the day, so it holds for them whatever the
hours are; for a width like 13h it does not, and they are false there (section 5).

`ServedCorrect` is about a request: bars of bars are bars of ticks. Resampling a store's bars by their
starting times gives what resampling its ticks gives, one row after the other (`CoarsenNext`), because a coarse bucket
has all of a fine one (`ServesFits`); a store that passes the staleness test lacks no whole bar, and
what its last bar lacks, the last bar of the answer lacks (`GrownLast`). It assumes `FitRequests`: widths asked
for are even too, the buckets of a store do not start on the day before, and when an extended store answers
for regular hours, their open and close are edges of its buckets (`Aligned`). For the default
hours (04:00 to 20:00 and 09:30 to 16:00) every candidate width satisfies this but a 1h extended
store, which is `sidecar_odd_open`. `MCArchive` assumes both, so TLC evaluates them on the instance of
`sidecar`.

The rest of it is about `Archive`, for any files beside the symbol's own and any selection of them. `ArchiveIsSidecar` maps every step
of an archive to a step of `Sidecar` or a stutter, so its invariant holds in the middle of any sync. Selections are
sequences of files (`SelectionType`), and what the code picks from them is a `RowsAt`: it keeps the set of what
stands at the positions (`RowsAtSet`) and shares the rows out (`RowsAtParts`). `AnswersInFull` needs no
hypothesis: a symbol's files by themselves are one symbol and all of it (`SymbolsInOne`, `FilesOfAll`), so the
tool's line is the command's (`Alone`), and one after another they are the answer (`FlattenOnes`); inspect and verify
accept a file exactly if it has a shape (`AcceptedOne`). `AnswersTrue` is stronger than `ServedCorrect` in that
nobody asks whether the sidecar is current: any first part of the store's bars, its last one open, gives a first
part of the request's (`RereadGrows`, by induction over the bars that follow it). It assumes `EvenStores` and
`FitRequests` as that does. The commands know a sidecar by its rows only; that they filter it as
`symbol_bars` would (`StreamedSide`) is because daily bars are never less than a day apart (`DailyShape`), and regular bars
below a day lie in regular hours themselves (`BucketInHours`).

`Calc_proofs`, for every indicator, period and series. A state `Follows` a series: the ring holds its newest
`period` values and their running sum, the average is that of the batch form at the last place or still
its seed, the outer average of `dema` is that of the tail of the inner one, `rsi` holds the last close and its two
averages, and so on. `UpdateLaw` says that one bar more keeps this and that the batch form of
the longer series is that of the shorter one with the update's answer behind it. Values are terms, so it is an equality
operation by operation: the running sum of a moving average is shown to add and subtract in the order in which the batch
does. It does not follow from the shape of the definitions: the batch `dema` restarts the outer
average at the first inner value and the streamed one feeds it as values come (`PushDema`); `Volatility` cuts windows
out of a series of returns that is one shorter than the closes.

`Analysis_proofs`, for any source, width, hours, table, fill, indicator and limit. `IInv` says of each stage that it holds
what its batch form makes of the rows read so far, in the order of the chain: the resampler over the kept rows
(`ResamplerOf`), the filler over what came out of it (`FillerOf`, with the last bar once it is finished), and behind it
`Stage`, the rows, the adjuster's cursor, the indicator's state, the window and the footer. It was
checked by TLC on the instance of `analysis` first. Each stage has a law for one more element:

* `PushRowLaw`: a row joins the open bucket or closes it, and bars come out in the order of their starts. Rows need not be
  in order for that, since a row of an older time joins the open bucket;
* `PushBarLaw`: what the filler puts before a bar lies between the bar before and it;
* `AdvancedLaw`: a cursor at or before the first action after a bar's time moves to it. That it never has to move back is
  the order of the bars, which the two laws before give;
* `AdjustBarsLaw`: `adjust_bars`, which goes backwards over the bars and at each of them backwards over the actions, finds
  for each bar the same actions. The table is in order because `SortedIn` keeps it so (`ResolveLaw`), and stays so
  with two actions on one date;
* `UpdateLaw`, `NewestAppend` and `FooterLaw` for the indicator, the window and the footer.

`EmitLaw` takes one bar through the last five stages, `EmitAllLaw` all the bars that one row lets through, and
`ThroughLaw` adds the filler. `StreamedIsBatch`, `AdjustedIsMaterialized` and `AnswersOfTheRows` then read their property off the
invariant, and so does `AnalysisTypes`, for refused requests too. No hypothesis is needed: the order of the source, which
`Read` guards, plays no part in these four properties.

`RowsOfTheMarket` is the one about what the rows mean, and does need it: it combines `IInv` with `SourceInOrder`, inductive by
the guard of `Read`. From the words of a line to its rows:

* `KeptIsNamed`: the fields that `parse_bounds` makes of a line's words keep the trades these words name; `TimeBoundLaw` is
  the day an end date has to itself, `RangeSides` that a line with one range at most has a bound at most on each side.
* `ResamplerDelivers`, by induction over the trades (`GatherNext`): each bar that came out has all of the trades of its
  bucket (`BarAt`), the accumulator those of the last one, and the buckets are those of the trades (`BarsOfBuckets`). That the
  next trade is in the open bucket or in a later one is `BucketsBeside`.
* `FillerFills`, by induction over these bars (`FillNext`): the times are the buckets and `EmptyBuckets`, and each bar is one
  that came in or is flat at the close of the bar before it. `FlatCount` is the arithmetic of how many flat bars fit before
  the next bucket and the close of the day; `EmptyMore`, that one bucket more only adds those behind the last.
* `RowOfMarket`, one bar of them through the adjuster. `ScaledIsBar`: the bar of a bucket, scaled once, is the bar of
  its trades each scaled by itself. The volume is the nearest whole share to their sum (`SharesNear`) and the average of the
  scaled prices is the scaled average (`AverageToday`). This is where quotients matter: a `Quotient` is the same for all
  fractions of one value (`QuotientSame`, from how `Divisor` scales), so sums and products of them are those of any
  fractions (`PlusQuotients`, `TimesQuotients`). `SinceLaw`: the factor of a time is the product of the later splits.

It assumes `FitQueries`, which `MCAnalysis` has TLC evaluate on the instance of `analysis`. Two parts of it are about the program: no
bucket runs into the next day's first (`Even`), and no ex-date lies in a bucket before one of its trades, which
a bucket that begins on the day before would allow: it is adjusted as a whole by its start. The other two are about the
model: prices are whole in units that stay whole through the factors, and a query has the fields of its line.

`SummariesAgree` compares two folds: `stat` over the kept ticks, each adjusted by itself, and `stat` over the bars of the same
ticks, each adjusted once. They round in different places. The argument is that an accumulator is known by the
trades it has been `Told` of, and that both were told of the same ones:

* `StatInv`, inductive with `IInv` and `SourceInOrder` (`StatNext`): the running accumulator has been told of the kept trades
  so far, each scaled, and its adjuster's cursor stands after the last of them (ticks come in order, so it never
  has to go back).
* `BarsTold`, by induction over the bars: after each of them the other accumulator has been told of the scaled trades of all the
  buckets so far. A bucket's trades lie behind those of the earlier ones (`RowsAtBehind`), and buckets leave none out.
* `ScaledBrings`: a bar scaled once brings what its trades bring scaled one by one, which are their number, the
  least and the greatest price, the shares and the money paid for them. This is where rounding enters: whole shares are not rounded (`ExactShares`, from the exception that `StatAgrees` names), and the
  rounded-once volume times the scaled average is the money (`MassIs`).
* `ToldAlike`: accumulators told of the same trades answer the same row.

It assumes `FitQueries` too. The guard of the run's granularity (`TooCoarse`) plays no part: the rows agree whatever
the width.

`Views_proofs` has three results about what is shown.

`AxisReads`, for any canvas, scale, ladder of steps, source and request that has a chart. The labels of the time axis are chosen
twice: by the wanted times, and then again by what does not overlap; between the two, and after the second, each label
says what it must say where it stands. `KeptLaw` says that the kept labels are pairwise a character apart, the first
of them included. Making the labels anew only ever turns a clock into a date, when the label with its day is gone
(`RelabelledLaw`), and a date is one character wider than a clock, so it starts at most a character further left; it does so
only if it is pushed back from the right edge (`PlacedLaw`). So neighbours do not overlap, or do by that character
(`DrawnBeside`): `AtEdge` in `TimeAxisReads`, see section 5. That a clock has the date of its day before it is an induction along the labels:
bars are in the order of their starts (`RawBarsLaw`, from `IInv`), so days only ever change at a label that says so. The
readings of indicators play no part, which is why `Reading` is a constant.

`SixelIsLossless`, for any canvas in the colors of the palette: what a terminal draws of the stream is the canvas. `RunsLaw`: the
runs of a pass, each of them repeated, are its columns, by induction over the columns with what is written and what is
being counted apart. `SheetsLaw`: what is sent for a band is one sheet for each color that occurs in it and nothing else
(`RowsAtOnto`). `DrawnIsPainted`: a place is on the sheet of its own color and on no other, so it does not matter in which order
sheets are drawn over each other; rows past the last one of an incomplete band are on none.
`SixelShowsTheChart` is this for the canvas of the request's chart, which TLC paints.

`FileIsTold`, for any source, of any length and over any days, and any number of frames that are sampled, probed and
previewed (a preview at most as long as a sample): `InspectTellsTheFile`. Here the order of the source does
matter: `SourceInOrder` of `Analysis_proofs` is all that the rest uses
(`FileLaw` is about every sequence of times in order).

* The walks of `day_open_times` (`HeadKeeps`, `TailKeeps`). After m probes the head's walk has read the openings of exactly the days between
  the first one and the day it is about to look at, and there are m of those unless it stopped; where it stopped without a
  decision, there are no others. This says both why a weekend costs no probe (the next midnight lands
  on a day's first frame with no day between, `LandLaw`) and why the tail may stop at a frame that was probed
  before: that day, and so every day before it, was the head's. The invariant of the tail's walk therefore has the head's
  days in it.
* `BelowProbed`, `AboveProbed`: a walk that used up its probes read all the days that have fewer than that many days
  before, or after, them. So what was read are the openings of `ProbedDays`, or of some of them with one outside regular
  hours (`DayOpens`), and the answer is the same (`HoursLaw`).
* `GapLaw`: the narrowest spacing of any two times in order is one of two neighbours. `SampleIsFile`: the windows never
  meet, so a sample is in order too. `OneDay`: frames of one day are as many as their times of day.
* `PreviewLaw`: arithmetic of the windows; `2 * PreviewCount <= Sample` is needed, and is what the constants of `inspect.rs` satisfy.

Only model-checked: liveness (`Terminates`, `EveryRequestEnds`, `CancelStops`, `EveryProcessEnds`; the
prover has no fairness);
`PanesHoldTheirSeries`, which is about rational interpolation of whatever `Reading` is; and that every rectangle of a
chart is drawn in a color of the palette, which is what is between `SixelIsLossless` and `SixelShowsTheChart`.

## 5. Findings

Three runs find the program at odds with what its comments say:

* `split_second`. Without a configured end the range ends at "now" (`downloader.rs`, `resolve_end`), which
  falls inside a second. IBKR stamps a trade with its second, so `retain` keeps every trade of that second printed
  so far; the cursor moves to the next second (`downloader.rs:526`), and the trades the second still
  prints after the answer are never requested. The trace: a batch of one trade, kept whole, and a second trade
  of the same second printed after it; then a trade of a later second is stored, and the file has a gap.
* `sidecar_odd_open`. A regular-hours request served from a 1h extended sidecar loses the trades from
  09:30 to 10:00, because the 09:00 bar is dropped by its start time. Widths of 30 minutes and
  below are aligned with both opens and pass (`sidecar`).
* `sidecar_after_hours`. A sub-daily regular-hours sidecar is refused as stale once there is a tick after
  the bucket of its last bar, and no sync can change that.

A known gap, which the model has (`NextRequest`) and no run checks: a day that answers empty while it is
still to trade is skipped as a whole (`downloader.rs:511`). Its later trades are lost if the same process goes on
past the midnight and stores a trade of the next day; otherwise the next run resumes from the file and asks again.

A finding of the proofs, which no run checks: `RefreshIsRebuild` is false without `Even`. A bucket ends a
width after its start, whatever day that is (`resample.rs:297`), while buckets are counted from the open of each
trade's own day. 13h bars of extended hours start at 04:00 and 17:00, and the second takes the trades of the next
day until 06:00, so it is not "shorter than the rest" as the documentation says. The next trade opens a
bucket whose key is 04:00; a refresh that trims it scans from 04:00, and the trades from then to 06:00 are in
both bars. TLC shows it for `Sidecar` with `Day = 8`, extended hours from 1 to 7, a store of width 5 and
trades at 14, 18 and 20.

Another finding of the proofs, which no run checks: labels of the time axis may overlap by a character. `select_nonoverlapping` keeps
labels that are a character apart, "so labels never overprint each other" (`plot.rs:457`). What a kept label
shows is decided afterwards, and a clock may have to become a date, which is wider. Of two neighbours that
both do, the last one is clamped at the right edge and starts a character further left, into the one before it. TLC shows
it for `Width = 310`, `Height = 96`, `LabelChars = 3`, `Day = 8`, steps of 4 and bars at 1, 3, 8, 16, 18, 20, 32 and 38,
if `AtEdge` is left out of `CanBeRead`.

Properties of `Analysis` and `Views` name five exceptions, each where the code does less than its
comments suggest: a flat bar after a split carries the raw close from before it (`RowsAreTheMarket`);
a preview of a file with a frame or two more than the sample is shorter than asked (`InspectTellsTheFile`);
a `vdema` line may leave the volume pane (`PanesHoldTheirSeries`); month labels that gain a year may
overlap, and so may a date at the right edge (`TimeAxisReads`). `StatAgrees` leaves out splits that make fractions of a share.

Also met while reading, outside what the runs check or taken into the model as it is:

* `calc --actions` with FWOB output uses no adjuster (`cli.rs`), so the file holds raw bars; modelled (`ActionsOf`).
* After a `sync`, bars, calc and tools over the whole archive refuse the symbol, since its ticks and
  its sidecar are one selection; the tools' documentation says to omit the symbol for all of them. Modelled.
* `plot` resamples each file of a symbol by itself, so a bucket that spans two files is drawn twice.
* FWOB output of bars and calc without `--output` goes to `<output_dir>/<symbol>.fwob`, the tick file's name.
* Several files of one symbol are streamed in the order of their names. An older file after a newer
  one is folded into the open bucket; two bar files of one symbol count every trade twice.
* The granularity guard of `stat` refuses two daily bars over a weekend and lets a single weekly bar pass.
* Bars and calc exit 0 with nothing to show when no file names a symbol, and stop at the first
  symbol that fails; `ls bar` over an archive without bars fails if one file is unreadable; `sync` exits 0 when a
  tick file of its selection cannot be read.
* A bar file with one row has no width, so regular hours are not applied to it (`Shape`, "unknown"), and it
  cannot be merged with a wider one. A request finer than a bar file answers with the file's own bars.
* Two keys of one symbol in `[actions]` that differ in case: only the first is used. A weekly bar over an ex-date
  is scaled as a whole.
* The user documentation says a 1m sidecar does not serve a 1d request, while `sidecar_serves` lets it;
  `symbol_bars` says that custom sessions bypass sidecars and checks only fill; `sync` stores bars with
  fill, a custom session or a `--start` under the standard name.

## 6. Not modelled, and why

* The range selection by receive time of Databento, its SDK, symbols and prices; 23- and 25-hour days
  (assumed away by `WindowCoversDay` and by days of equal length in `Bars`).
* Formats, schemas and the byte level of FWOB: a check that fails is `OpenFails`. Whether a torn file can be
  opened before it is repaired depends on the `fwob` crate.
* In `Sidecar`: `--start`, fill, custom sessions, requests with a window, two syncs of one
  file at once. A sidecar file that is missing and one with no bar are one state: every reader treats them alike.
* Week, month and year buckets, clocks without a session.
* In `Adjust`: malformed dates, and ratios that are zero, negative or fractional, which are refused like the
  refusals that are modelled (`RowAccepted`). In `Inspect`: hours are told apart in the model's unit of time, not in
  minutes of the day (`SampledHours`).
* Rounding itself: quotients of `Ohlcv` are exact, indicator values are terms, so what is compared is the
  order of operations and not their error. The distribution block of the summary is numerical
  code with no twin to compare it with.
* Glyphs, legends, colours and PNG; tables, CSV and JSON; argument, TOML and session parsing; the
  confinement of MCP paths to the root, and its transport; build files and re-exports.

## 7. What is left

* `Sidecar`: filled and custom-session syncs under the standard name, `--start`, and request windows.
* `Bars`: calendar buckets and days of other lengths.
* `Calc`, `Ohlcv`: the arithmetic itself, width by width, where overflow could matter (sizes and volumes).
