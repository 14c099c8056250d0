------------------------------ MODULE Download ------------------------------
(***************************************************************************)
(* One symbol's download: SymbolDownloader::download_symbol, its batch     *)
(* loop and the TickStore/TickWriter it writes through, run again and      *)
(* again by successive processes that may be cancelled, fail or die at any *)
(* point.  The provider is external: a request is answered by any batch    *)
(* its contract allows, by a batch that breaks what validate_provider_batch*)
(* checks, or by an error.  Retries inside fetch_with_recovery leave every *)
(* variable of this module unchanged; how many there are is left open here.*)
(***************************************************************************)
EXTENDS MarketData

CONSTANTS
    Provider,         \* "ibkr" or "databento"
    PrintTime,        \* when the market prints each trade, so that it can be had
    Window,           \* the instants one databento request spans (a day)
    CommitInterval,   \* commit_interval_seconds: -1, 0 or a number of seconds
    FirstNow,         \* the clock when the first process starts
    LastNow,          \* bound: the clock stops here
    MaxRuns           \* bound: processes started after the first one

ASSUME DownloadAssumption ==
    /\ Provider \in {"ibkr", "databento"}
    /\ Window \in Nat \ {0}
    /\ CommitInterval \in Int
    /\ FirstNow \in Nat
    /\ LastNow \in Nat
    /\ FirstNow <= LastNow
    /\ Second(LastNow) <= Horizon
    /\ MaxRuns \in Nat
    \* A provider has a trade from the instant it is printed; IBKR stamps it with
    \* the second, Databento (ts_event) with the instant.
    /\ PrintTime \in [Trades -> Nat]
    /\ \A m, n \in Trades : m <= n => PrintTime[m] <= PrintTime[n]
    /\ \A m \in Trades :
        Market[m] = IF Provider = "ibkr" THEN Sub * Second(PrintTime[m])
                                         ELSE PrintTime[m]
    \* Downloader::run refuses databento without a start.
    /\ Provider = "databento" => Start # None

VARIABLES
    disk,        \* the committed ticks of the symbol's file (<<>>: none, or no file)
    torn,        \* the file has an uncommitted tail an interrupted write left
    buffered,    \* ticks appended to the open writer since its last commit
    cursor,      \* the instant the next request starts from
    end,         \* resolve_end of the current iteration
    lastCommit,  \* when the open writer was last committed
    pc,          \* where the worker is
    result,      \* how the symbol ended
    cancel,      \* the CancellationToken
    now,         \* the clock, which is also how far the market has printed
    runs         \* processes started so far (for the bound)

fileVars == <<disk, torn>>
loopVars == <<cursor, end, lastCommit>>
vars == <<disk, torn, buffered, cursor, end, lastCommit, pc, result, cancel,
          now, runs>>

Idle == {"idle", "done"}
PC == Idle \cup {"opened", "loop", "fetch", "commit", "finish"}

TypeOK ==
    /\ disk \in Seq(Trades)
    /\ torn \in BOOLEAN
    /\ buffered \in Seq(Trades)
    /\ cursor \in Nat
    /\ end \in Nat
    /\ lastCommit \in Nat
    /\ pc \in PC
    /\ result \in {"ok", "err"}
    /\ cancel \in BOOLEAN
    /\ now \in FirstNow..LastNow
    /\ runs \in 0..MaxRuns

Init ==
    /\ disk = <<>>
    /\ torn = FALSE
    /\ buffered = <<>>
    /\ cursor = 0
    /\ end = 0
    /\ lastCommit = 0
    /\ pc = "idle"
    /\ result = "ok"
    /\ cancel = FALSE
    /\ now = FirstNow
    /\ runs = 0

Goto(label) == pc' = label /\ UNCHANGED result
Stop(outcome) == pc' = "finish" /\ result' = outcome
Return(outcome) == pc' = "done" /\ result' = outcome

-----------------------------------------------------------------------------
(* The provider.                                                           *)

\* The trades a request at the cursor can see: the market has printed them.
Printed == {m \in Trades : PrintTime[m] < now}
Pending(c) == {m \in Printed : Market[m] >= c}

Run(i, j) == [k \in 1..(j - i + 1) |-> i + k - 1]

\* IBKR ignores the end of the request and answers with some number of ticks
\* from its start, through the last one printed of their final second.
IbkrAnswer(i, j) ==
    /\ {i, j} \subseteq Pending(cursor)
    /\ i <= j
    /\ \A m \in Pending(cursor) :
        /\ i <= m
        /\ Second(Market[m]) = Second(Market[j]) => m <= j
\* It answers nothing when the rest of the local day has nothing to return.
IbkrEmptyReply ==
    \A m \in Pending(cursor) : Market[m] >= NextDayStart(cursor)

\* Databento answers with every trade of at most a day from the cursor.
InWindow == {m \in Pending(cursor) : /\ Market[m] < end
                                     /\ Market[m] < cursor + Window}
DatabentoAnswer(i, j) ==
    /\ {i, j} \subseteq InWindow
    /\ \A m \in InWindow : i <= m /\ m <= j

EmptyReply ==
    IF Provider = "ibkr" THEN IbkrEmptyReply ELSE InWindow = {}
Answer(i, j) ==
    IF Provider = "ibkr" THEN IbkrAnswer(i, j) ELSE DatabentoAnswer(i, j)
TickReply(batch) ==
    LET i == batch[1]
        j == batch[Len(batch)]
    IN  Answer(i, j) /\ batch = Run(i, j)

\* A provider may also re-send old ticks or return them out of order.
Misbehaved(batch) ==
    \E k \in 1..Len(batch) :
        \/ Market[batch[k]] < cursor
        \/ k > 1 /\ Market[batch[k]] < Market[batch[k - 1]]

Batches ==
    LET forward == {Run(i, j) : i, j \in Printed} \ {<<>>}
    IN  forward \cup {Reverse(b) : b \in forward}
Replies == {b \in Batches : TickReply(b) \/ Misbehaved(b)}

-----------------------------------------------------------------------------
(* One process.                                                            *)

\* Seeded fault: the repair after a failed light verification is left out.
OpenStoreUnrepaired ==
    /\ pc = "idle"
    /\ Goto("opened")
    /\ UNCHANGED <<fileVars, buffered, loopVars, cancel, now, runs>>

\* The worker takes the lock and checks the file: format, schema, and the
\* light verification whose failure repairs the file to its committed ticks.
OpenStore ==
    /\ pc = "idle"
    /\ torn' = FALSE
    /\ Goto("opened")
    /\ UNCHANGED <<disk, buffered, loopVars, cancel, now, runs>>

\* The lock is held elsewhere, a check fails, or the repair does.
OpenFails ==
    /\ pc = "idle"
    /\ Return("err")
    /\ UNCHANGED <<fileVars, buffered, loopVars, cancel, now, runs>>

\* Where the download starts.  The last tick of a file with a torn tail could
\* be anything; verify_existing has removed the tail before it is asked for.
FileIsEmpty == disk = <<>> /\ ~torn
LastTicks == IF torn THEN Trades ELSE {disk[Len(disk)]}

ResumeAt(c) ==
    /\ pc = "opened"
    /\ cursor' = c
    /\ lastCommit' = now
    /\ Goto("loop")
    /\ UNCHANGED <<fileVars, buffered, end, cancel, now, runs>>
ResumeFromFile ==
    /\ ~FileIsEmpty
    /\ \E m \in LastTicks : ResumeAt(SecondAfter(m))
ResumeFromStart ==
    /\ FileIsEmpty
    /\ Start # None
    /\ ResumeAt(Start)
\* The provider's head is no later than its first trade.
ResumeFromHead ==
    /\ FileIsEmpty
    /\ Start = None
    /\ \E h \in 0..LastNow :
        /\ \A m \in Trades : h <= Market[m]
        /\ ResumeAt(h)
\* Cancelled while pacing for it, or the head request fails: it is not retried.
HeadFails ==
    /\ pc = "opened"
    /\ FileIsEmpty
    /\ Start = None
    /\ Return("err") \/ (cancel /\ Return("ok"))
    /\ UNCHANGED <<fileVars, buffered, loopVars, cancel, now, runs>>

\* The top of download_symbol_batches' loop.
ResolvedEnd == IF End = None THEN now ELSE End
LeaveLoop ==
    /\ pc = "loop"
    /\ cursor >= ResolvedEnd \/ cancel
    /\ end' = ResolvedEnd
    /\ Stop("ok")
    /\ UNCHANGED <<fileVars, buffered, cursor, lastCommit, cancel, now, runs>>
StartRequest ==
    /\ pc = "loop"
    /\ cursor < ResolvedEnd /\ ~cancel
    /\ end' = ResolvedEnd
    /\ Goto("fetch")
    /\ UNCHANGED <<fileVars, buffered, cursor, lastCommit, cancel, now, runs>>

\* validate_provider_batch.
ValidBatch(batch) ==
    \A k \in 1..Len(batch) :
        /\ Market[batch[k]] >= cursor
        /\ k > 1 => Market[batch[k]] >= Market[batch[k - 1]]

\* ticks.retain(|tick| tick.timestamp < end): the first n ticks of a batch in
\* order are those before the end.
Retained(batch, n) ==
    /\ n \in 0..Len(batch)
    /\ \A k \in 1..Len(batch) : Market[batch[k]] < end <=> k <= n

\* Seeded faults: the batch is not checked against the cursor; the cursor moves
\* past the ticks that the end cut off.
AppendUnchecked(batch) ==
    /\ pc = "fetch"
    /\ \E n \in 1..Len(batch) :
        /\ Retained(batch, n)
        /\ buffered' = buffered \o SubSeq(batch, 1, n)
        /\ cursor' = SecondAfter(batch[n])
    /\ Goto("commit")
    /\ UNCHANGED <<fileVars, end, lastCommit, cancel, now, runs>>
AppendPastEnd(batch) ==
    /\ pc = "fetch"
    /\ ValidBatch(batch)
    /\ \E n \in 1..Len(batch) :
        /\ Retained(batch, n)
        /\ buffered' = buffered \o SubSeq(batch, 1, n)
        /\ cursor' = SecondAfter(batch[Len(batch)])
    /\ Goto("commit")
    /\ UNCHANGED <<fileVars, end, lastCommit, cancel, now, runs>>

\* A batch lands: all of it is appended, in one transaction, and the cursor
\* moves to the second after its last tick.
AppendBatch(batch) ==
    /\ pc = "fetch"
    /\ ValidBatch(batch)
    /\ \E n \in 1..Len(batch) :
        /\ Retained(batch, n)
        /\ buffered' = buffered \o SubSeq(batch, 1, n)
        /\ cursor' = SecondAfter(batch[n])
    /\ Goto("commit")
    /\ UNCHANGED <<fileVars, end, lastCommit, cancel, now, runs>>

\* Every tick of the batch is at or after the end: the range is complete.
ReachEnd(batch) ==
    /\ pc = "fetch"
    /\ ValidBatch(batch)
    /\ Retained(batch, 0)
    /\ Stop("ok")
    /\ UNCHANGED <<fileVars, buffered, loopVars, cancel, now, runs>>

\* A batch is refused: it breaks the contract, a price or a size does not fit
\* the schema, or the transactional append fails.  None of it is kept.
RejectBatch(batch) ==
    /\ pc = "fetch"
    /\ ~ValidBatch(batch) \/ ~Retained(batch, 0)
    /\ Stop("err")
    /\ UNCHANGED <<fileVars, buffered, loopVars, cancel, now, runs>>

\* No tick at all: on to the next local day.
SkipEmptyDay ==
    /\ pc = "fetch"
    /\ EmptyReply
    /\ cursor' = NextDayStart(cursor)
    /\ Goto("loop")
    /\ UNCHANGED <<fileVars, buffered, end, lastCommit, cancel, now, runs>>

\* Seeded fault: any failed request ends the symbol as cancellation does.
FailureEndsCleanly ==
    /\ pc = "fetch"
    /\ Stop("ok")
    /\ UNCHANGED <<fileVars, buffered, loopVars, cancel, now, runs>>

\* fetch_with_recovery gives up (Err), or cancellation interrupts it (None).
FetchFails ==
    /\ pc = "fetch"
    /\ IF cancel THEN Stop("ok") ELSE Stop("err")
    /\ UNCHANGED <<fileVars, buffered, loopVars, cancel, now, runs>>

\* Seeded fault: an interval of 0 commits only at the end, as -1 does.
CommitDueUnlessZero ==
    CommitInterval > 0 /\ now - lastCommit >= CommitInterval * Sub

CommitDue ==
    \/ CommitInterval = 0
    \/ CommitInterval > 0 /\ now - lastCommit >= CommitInterval * Sub

\* After a batch: sync the open writer when the cadence says so.
CommitBatch ==
    /\ pc = "commit"
    /\ IF CommitDue
       THEN /\ disk' = disk \o buffered
            /\ buffered' = <<>>
            /\ lastCommit' = now
       ELSE UNCHANGED <<disk, buffered, lastCommit>>
    /\ Goto("loop")
    /\ UNCHANGED <<torn, cursor, end, cancel, now, runs>>
CommitFails ==
    /\ pc = "commit"
    /\ CommitDue
    /\ Stop("err")
    /\ UNCHANGED <<fileVars, buffered, loopVars, cancel, now, runs>>

\* Every exit path of the loop finishes the writer.
FinishWriter ==
    /\ pc = "finish"
    /\ disk' = disk \o buffered
    /\ buffered' = <<>>
    /\ Return(result)
    /\ UNCHANGED <<torn, loopVars, cancel, now, runs>>
\* Seeded fault: the result of finish() is dropped.
FinishFailsUnnoticed ==
    /\ pc = "finish"
    /\ torn' \in IF buffered = <<>> THEN {torn} ELSE BOOLEAN
    /\ buffered' = <<>>
    /\ Return(result)
    /\ UNCHANGED <<disk, loopVars, cancel, now, runs>>

\* finish() fails: what was not committed is lost and may leave a torn tail.
\* (Without an appended batch there is no writer to fail; the model does not
\* tell that case apart, which only adds runs that end in error.)
FinishFails ==
    /\ pc = "finish"
    /\ torn' \in IF buffered = <<>> THEN {torn} ELSE BOOLEAN
    /\ buffered' = <<>>
    /\ Return("err")
    /\ UNCHANGED <<disk, loopVars, cancel, now, runs>>

Fetch ==
    \/ \E batch \in Replies :
        \/ AppendBatch(batch)
        \/ ReachEnd(batch)
        \/ RejectBatch(batch)
    \/ SkipEmptyDay
    \/ FetchFails

Worker ==
    \/ OpenStore \/ OpenFails
    \/ ResumeFromFile \/ ResumeFromStart \/ ResumeFromHead \/ HeadFails
    \/ LeaveLoop \/ StartRequest
    \/ Fetch
    \/ CommitBatch \/ CommitFails
    \/ FinishWriter \/ FinishFails

-----------------------------------------------------------------------------
(* What happens around it.                                                 *)

\* The first Ctrl+C sets the token.
Cancel ==
    /\ pc \notin Idle
    /\ ~cancel
    /\ cancel' = TRUE
    /\ UNCHANGED <<fileVars, buffered, loopVars, pc, result, now, runs>>

\* The process dies (a second Ctrl+C, a kill, a power cut).
Crash ==
    /\ pc \notin Idle
    /\ runs < MaxRuns
    /\ runs' = runs + 1
    /\ torn' \in IF buffered = <<>> THEN {torn} ELSE BOOLEAN
    /\ buffered' = <<>>
    /\ cancel' = FALSE
    /\ pc' = "idle" /\ result' = "ok"
    /\ UNCHANGED <<disk, loopVars, now>>

\* The next scheduled run of the same download.
RunAgain ==
    /\ pc = "done"
    /\ runs < MaxRuns
    /\ runs' = runs + 1
    /\ cancel' = FALSE
    /\ pc' = "idle" /\ result' = "ok"
    /\ UNCHANGED <<fileVars, buffered, loopVars, now>>

\* Time passes and the market prints.
Advance ==
    /\ now < LastNow
    /\ now' = now + 1
    /\ UNCHANGED <<fileVars, buffered, loopVars, pc, result, cancel, runs>>

Next == Worker \/ Cancel \/ Crash \/ RunAgain \/ Advance

Spec == Init /\ [][Next]_vars

\* The worker thread is scheduled, and each request is eventually answered.
FairSpec == Spec /\ WF_vars(Worker)

-----------------------------------------------------------------------------
(* Properties.                                                             *)

Stored == disk \o buffered

\* The downloads whose every wanted trade was printed before they started, and
\* that on databento start on a second and see a local day in one request.
WindowCoversDay ==
    /\ Start % Sub = 0 /\ Window % Sub = 0
    /\ \A s \in 0..Horizon : Sub * NextMidnight[s] <= Sub * s + Window
Settled ==
    /\ End # None
    /\ \A m \in Wanted : PrintTime[m] < FirstNow
    /\ Provider = "databento" => WindowCoversDay

\* Whatever fails, is cancelled, retried or killed, the committed file holds
\* exactly the wanted trades up to the end of a second and only grows
\* (TickStore, TickWriter, the cursor arithmetic of the batch loop and the
\* resume position, taken together).
Archive == INSTANCE TickArchive WITH archive <- disk
Promise == Archive!ArchiveSpec

\* A symbol that ends without an error and without Ctrl+C has every wanted
\* trade before the end its loop last resolved, on disk.
CompleteOnSuccess ==
    pc = "done" /\ result = "ok" /\ ~cancel =>
        \A m \in Wanted : Market[m] < end => \E k \in 1..Len(disk) : disk[k] = m

\* The file is in print order and holds no trade twice, even when batches are
\* cut at the edge of a market that is still printing.
InOrder == \A j, k \in 1..Len(Stored) : j < k => Stored[j] < Stored[k]

\* The cursor never moves past a wanted trade the market had printed when the
\* batch came in without that trade being appended.
NeverPassesPrintedTrade ==
    [][pc = "fetch" =>
        \A m \in Printed :
            cursor <= Market[m] /\ Market[m] < cursor' /\ m \in Wanted
                => \E k \in 1..Len(buffered') : buffered'[k] = m]_vars

\* No trade between two stored ones is missing.
GapFree == Contiguous(Stored)

\* With commit_interval_seconds = 0 nothing is at risk while the worker waits
\* for the provider, however long that takes: a crash then loses no tick.
NothingAtRiskWhileWaiting ==
    CommitInterval = 0 /\ pc \in {"loop", "fetch"} => buffered = <<>>

\* Every started download ends: the cursor moves on with every answer, over
\* empty days too, until it reaches the end.
Terminates == pc \notin Idle ~> pc \in Idle

-----------------------------------------------------------------------------
(* The inductive invariants behind those properties.                       *)

Looping == {"loop", "fetch", "commit"}

\* Every trade stored so far lies before the cursor, so a batch from the cursor
\* can repeat none of them; nothing is buffered before the loop starts, a file
\* is resumed only when its tail is sound, and a request lies inside the
\* calendar.
LoopInv ==
    /\ pc \in Idle \cup {"opened"} => buffered = <<>>
    /\ pc \notin Idle => ~torn
    /\ pc \in Looping => \A k \in 1..Len(Stored) : Market[Stored[k]] < cursor
    /\ pc = "fetch" => cursor < end /\ Second(end) <= Horizon

\* No wanted trade before instant t is missing from the end of what is stored.
NothingMissedBefore(t) ==
    \A m \in Wanted : Market[m] < t =>
        Stored # <<>> /\ m <= Stored[Len(Stored)]

\* For a settled download: what is stored is exact, what is committed is exact
\* on its own, and the cursor has left nothing behind.
SettledInv ==
    Settled =>
        /\ Exact(Stored) /\ Exact(disk)
        /\ pc \in Looping => cursor >= Origin /\ NothingMissedBefore(cursor)
        /\ pc \in Looping /\ Provider = "databento" => cursor % Sub = 0
        /\ pc = "fetch" => end = End
        /\ pc \in {"finish", "done"} /\ result = "ok" /\ ~cancel =>
            NothingMissedBefore(end)
=============================================================================
