------------------------------ MODULE Sidecar -------------------------------
(***************************************************************************)
(* The bar sidecars beside one tick file: refresh_sidecar as `mdfwob sync` *)
(* runs it, in the steps between which the process can die or the tick     *)
(* file can grow or an unsync remove the sidecar, and symbol_bars, which   *)
(* reads a sidecar in place of the ticks when resolve_sidecar_match takes  *)
(* it for current.  A sync here has no --start and no fill, and no two     *)
(* syncs run at once.                                                      *)
(***************************************************************************)
EXTENDS Bars

CONSTANTS
    Stores,       \* the sidecars somebody syncs: [width, session]
    Requests,     \* the bars somebody asks for: [width, session]
    Candidates,   \* SIDECAR_CANDIDATES as widths, coarsest first
    Ends,         \* --end of a sync: an instant, or None
    Times,        \* when trades happen
    MaxTicks      \* bound: ticks in the source

None == -1

Series == [width: 1..Day, session: Sessions]

ASSUME SidecarAssumption ==
    /\ Stores \subseteq Series /\ Stores # {}
    /\ Requests \subseteq Series
    /\ Candidates \in Seq(1..Day)
    /\ Ends \subseteq Nat \cup {None}
    \* After the epoch's first day no bucket starts before 0.
    /\ Times \subseteq Nat /\ \A t \in Times : t >= Day
    /\ MaxTicks \in Nat

VARIABLES
    source,     \* the tick file: the time of each of its ticks
    sidecar,    \* store -> its bars; no file and a file with no bar are treated alike
    sync        \* the refresh under way

vars == <<source, sidecar, sync>>

Bar == [time: Nat, ticks: Seq(1..MaxTicks)]
\* An FWOB file is in key order; no two bars of a series have one key.
IsBarFile(f) ==
    /\ f \in Seq(Bar)
    /\ \A j, k \in 1..Len(f) : j < k => f[j].time < f[k].time

TypeOK ==
    /\ source \in Seq(Times) /\ Len(source) <= MaxTicks
    /\ \A s \in Stores : IsBarFile(sidecar[s])
    /\ sync.pc \in {"idle", "scan", "write", "report"}
    /\ sync.store \in Stores
    /\ sync.resume \in Nat \cup {None}
    /\ sync.end \in Ends \cup {None}
    /\ IsBarFile(sync.bars)
    /\ sync.seen \in 0..MaxTicks
    /\ sync.lost \in BOOLEAN

NoSync == [pc |-> "idle", store |-> CHOOSE s \in Stores : TRUE, resume |-> None,
           end |-> None, bars |-> <<>>, seen |-> 0, lost |-> FALSE]

Init ==
    /\ source = <<>>
    /\ sidecar = [s \in Stores |-> <<>>]
    /\ sync = NoSync

-----------------------------------------------------------------------------
(* Bars from ticks.                                                        *)

Rows(ticks) == [i \in 1..Len(ticks) |-> [time |-> ticks[i], ticks |-> <<i>>]]

\* Only a regular-hours series filters its ticks.
Filtered(session, rows) == IF session = "rth" THEN InSession(session, rows) ELSE rows

\* The series as one pass over the ticks gives it.
Rebuild(s, ticks) ==
    Resample(s.width, s.session, Filtered(s.session, Rows(ticks)))

-----------------------------------------------------------------------------
(* One refresh.                                                            *)

LastBarTime(s) ==
    IF sidecar[s] = <<>> THEN None ELSE Last(sidecar[s]).time

\* Seeded fault: the last bar stays.
TrimNothing(s, end) ==
    /\ sync.pc = "idle"
    /\ sync' = [pc |-> "scan", store |-> s, resume |-> LastBarTime(s), end |-> end,
                bars |-> <<>>, seen |-> 0, lost |-> FALSE]
    /\ UNCHANGED <<source, sidecar>>

\* The last bar is deleted, durably; its bucket is where the scan resumes.
Trim(s, end) ==
    /\ sync.pc = "idle"
    /\ sync' = [pc |-> "scan", store |-> s, resume |-> LastBarTime(s), end |-> end,
                bars |-> <<>>, seen |-> 0, lost |-> FALSE]
    /\ sidecar' = IF LastBarTime(s) = None THEN sidecar
                  ELSE [sidecar EXCEPT ![s] = Front(@)]
    /\ UNCHANGED source

\* lower_bound and upper_bound of a file in key order: the number of its rows
\* before, and up to, an instant.
LowerBound(rows, t) ==
    CHOOSE n \in 0..Len(rows) : \A i \in 1..Len(rows) : i <= n <=> rows[i].time < t
UpperBound(rows, t) ==
    CHOOSE n \in 0..Len(rows) : \A i \in 1..Len(rows) : i <= n <=> rows[i].time <= t

\* index_window: both bounds are inclusive.
Scanned(from, to, rows) ==
    SubSeq(rows, IF from = None THEN 1 ELSE LowerBound(rows, from) + 1,
                 IF to = None THEN Len(rows) ELSE UpperBound(rows, to))

\* Seeded fault: the session only names the file.
ScanUnfiltered ==
    /\ sync.pc = "scan"
    /\ LET s == sync.store
           rows == Scanned(sync.resume, sync.end, Rows(source))
       IN  sync' = [sync EXCEPT !.pc = "write", !.seen = Len(source),
                                !.bars = Resample(s.width, s.session, rows)]
    /\ UNCHANGED <<source, sidecar>>

\* The ticks from the resumed bucket on become bars in memory; a bucket before
\* it is not stored again.
Scan ==
    /\ sync.pc = "scan"
    /\ LET s == sync.store
           rows == Filtered(s.session, Scanned(sync.resume, sync.end, Rows(source)))
           bars == Resample(s.width, s.session, rows)
       IN  sync' = [sync EXCEPT !.pc = "write", !.seen = Len(source),
                                !.bars = RowsAt(bars, {i \in DOMAIN bars :
                                            sync.resume # None => bars[i].time >= sync.resume})]
    /\ UNCHANGED <<source, sidecar>>

\* They are appended to what is there, or a first refresh creates the file.
WriteBars(bars) ==
    sidecar' = [sidecar EXCEPT ![sync.store] = @ \o bars]

\* Seeded fault: a file that has gone is created again.
WriteAnyway ==
    /\ sync.pc = "write"
    /\ sync' = [sync EXCEPT !.pc = "report"]
    /\ WriteBars(sync.bars)
    /\ UNCHANGED source

\* FrameWriter::open_append fails if the file has gone since it was trimmed.
Write ==
    /\ sync.pc = "write"
    /\ IF sync.lost /\ sync.bars # <<>>
       THEN sync' = NoSync /\ UNCHANGED sidecar
       ELSE sync' = [sync EXCEPT !.pc = "report"] /\ WriteBars(sync.bars)
    /\ UNCHANGED source

\* The outcome is read back from the file and printed.
Report ==
    /\ sync.pc = "report"
    /\ sync' = NoSync
    /\ UNCHANGED <<source, sidecar>>

\* The process dies, or a file operation fails: what was trimmed is gone, and
\* of the bars being written a first part may have reached the file.
Abandon ==
    /\ sync.pc # "idle"
    /\ sync' = NoSync
    /\ \/ UNCHANGED sidecar
       \/ /\ sync.pc = "write" /\ ~sync.lost
          /\ \E n \in 0..Len(sync.bars) : WriteBars(SubSeq(sync.bars, 1, n))
    /\ UNCHANGED source

\* A refresh that trimmed the only bar has left an empty file.
Exists(s) ==
    \/ sidecar[s] # <<>>
    \/ sync.pc # "idle" /\ sync.store = s /\ sync.resume # None /\ ~sync.lost

\* `mdfwob unsync`, at any time: nothing keeps it from a file that a sync has
\* trimmed.  The --force before a refresh is one, with no sync under way.
Unsync(s) ==
    /\ Exists(s)
    /\ sidecar' = [sidecar EXCEPT ![s] = <<>>]
    /\ sync' = [sync EXCEPT !.lost = @ \/ (sync.pc # "idle" /\ sync.store = s)]
    /\ UNCHANGED source

\* A download commits one more tick.
Download(t) ==
    /\ Len(source) < MaxTicks
    /\ source # <<>> => t >= Last(source)
    /\ source' = Append(source, t)
    /\ UNCHANGED <<sidecar, sync>>

Next ==
    \/ \E s \in Stores : Unsync(s) \/ \E end \in Ends : Trim(s, end)
    \/ Scan \/ Write \/ Report \/ Abandon
    \/ \E t \in Times : Download(t)

Spec == Init /\ [][Next]_vars

-----------------------------------------------------------------------------
(* One request.                                                            *)

\* sidecar_serves.
Serves(have, want) ==
    /\ IF have.width = Day THEN want.width = Day
       ELSE IF want.width = Day THEN Day % have.width = 0
       ELSE have.width <= want.width /\ want.width % have.width = 0
    /\ \/ have.session = want.session
       \/ have.session = "ext" /\ want.session = "rth" /\ have.width < Day

\* The stores to look at, in this order: coarsest first, and of each width the
\* wanted session before the extended one.
Order(want) ==
    [i \in 1..(2 * Len(Candidates)) |->
        [width |-> Candidates[(i + 1) \div 2],
         session |-> IF i % 2 = 1 THEN want.session ELSE "ext"]]
\* Those that could answer it: they hold at least one bar.
Usable(want) ==
    RowsAt(Order(want), {i \in DOMAIN Order(want) :
                            /\ Order(want)[i] \in Stores
                            /\ Serves(Order(want)[i], want)
                            /\ sidecar[Order(want)[i]] # <<>>})

\* Seeded fault: a tick at the very start of the next bucket goes unnoticed.
IsStaleAfterNext(s) == Last(source) > NextBucketStart(s.width, Last(sidecar[s]).time)

\* Stale only when the ticks reach beyond the bucket of the last bar.
IsStale(s) == Last(source) >= NextBucketStart(s.width, Last(sidecar[s]).time)

\* resolve_sidecar_match: a store, or that there is none (<<>>) or only stale
\* ones, which is an error.
Current(want) ==
    RowsAt(Usable(want), {i \in DOMAIN Usable(want) : ~IsStale(Usable(want)[i])})
Refused(want) ==
    source # <<>> /\ Usable(want) # <<>> /\ Current(want) = <<>>
Found(want) == source # <<>> /\ Current(want) # <<>>

\* symbol_bars through the sidecar: the rows of an extended store are filtered
\* for a regular-hours request, then bucketed anew.
Served(want) ==
    LET have == Head(Current(want))
        rows == IF have.session = "ext" /\ want.session = "rth"
                THEN InSession("rth", sidecar[have]) ELSE sidecar[have]
    IN  Resample(want.width, want.session, rows)

-----------------------------------------------------------------------------
(* What the code leaves to whoever chooses hours and intervals.            *)

\* Buckets of a stored series do not run into each other.
EvenStores == \A s \in Stores : Even(s.width, s.session)

\* No bucket of a tick that is stored begins on the day before.
WithinDay(have) ==
    \A t \in Times :
        Belongs(have.session, t) => Midnight(t) <= BucketStart(have.width, have.session, t)

\* The regular open and close are edges of the extended buckets.
Aligned(have) ==
    /\ (Hours["rth"].open - Hours["ext"].open) % have.width = 0
    /\ (Hours["rth"].close - Hours["rth"].open) % have.width = 0

FitRequests ==
    /\ \A want \in Requests : Even(want.width, want.session)
    /\ \A have \in Stores : WithinDay(have)
    /\ \A have \in Stores, want \in Requests :
          Serves(have, want) /\ have.session # want.session => Aligned(have)

-----------------------------------------------------------------------------
(* Properties.                                                             *)

\* All of the bars that one pass over the ticks gives, except that the last one
\* may still miss its latest ticks.
UpToLastBar(bars, full) ==
    /\ Len(bars) = Len(full)
    /\ \A k \in 1..Len(bars) :
        /\ bars[k].time = full[k].time
        /\ IF k < Len(bars) THEN bars[k].ticks = full[k].ticks
           ELSE IsPrefix(bars[k].ticks, full[k].ticks)

\* At every moment, also in the middle of a refresh and after any number of
\* refreshes that died, a sidecar holds a first part of the full series, and no
\* bar but its last is partial ("a partial bar that silently persists is a data
\* error no downstream check would catch").
OnlyTheLastBarIsOpen ==
    \A s \in Stores :
        LET full == Rebuild(s, source)
            n == Len(sidecar[s])
        IN  n <= Len(full) /\ UpToLastBar(sidecar[s], SubSeq(full, 1, n))

\* A refresh that reports success has left exactly what a rebuild over the same
\* ticks would have left, unless the file was removed under it.
RefreshIsRebuild ==
    sync.pc = "report" /\ sync.end = None /\ ~sync.lost =>
        sidecar[sync.store] = Rebuild(sync.store, SubSeq(source, 1, sync.seen))

\* Bars read through a sidecar are those the ticks give, whichever store stands
\* in, however its last refresh ended, and while one is running.
ServedIsResampled ==
    \A want \in Requests :
        Found(want) => UpToLastBar(Served(want), Rebuild(want, source))

\* A request is refused for staleness only if some refresh would help.
RefusedIsBehind ==
    \A want \in Requests :
        Refused(want) => \E s \in Stores :
            Serves(s, want) /\ sidecar[s] # Rebuild(s, source)
=============================================================================
