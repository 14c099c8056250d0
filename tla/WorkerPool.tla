----------------------------- MODULE WorkerPool -----------------------------
(***************************************************************************)
(* Whole download processes: the startup wait for the provider, the pool   *)
(* of worker threads over the job queue, the pacers they share and the     *)
(* *.fwob.lock of each file.  Several processes may run over the same      *)
(* output directory.  What a worker does with a symbol it owns is one of   *)
(* Download's outcomes; here it only costs paced requests.                 *)
(***************************************************************************)
EXTENDS Integers, Sequences, FiniteSets, SequencesExt

CONSTANTS
    Processes,
    Parallelism,       \* worker threads of a process
    Nobody,            \* holds a lock no worker holds
    Jobs,              \* process -> the symbols of its plan, in order
    Ibkr,              \* the processes whose provider is ibkr
    Budget,            \* reconnect_timeout_seconds: -1, 0 or a number of ticks
    RequestInterval,   \* of the two pacers, in ticks
    RetryInterval,
    MaxCrashes         \* bound: processes that die

Pacers == {"request", "retry"}
Interval == [request |-> RequestInterval, retry |-> RetryInterval]

Files == UNION {ToSet(Jobs[p]) : p \in Processes}

\* worker_count: no more workers than jobs.
Workers ==
    UNION {{p} \X (1..IF Parallelism < Len(Jobs[p]) THEN Parallelism ELSE Len(Jobs[p]))
              : p \in Processes}
ProcessOf(w) == w[1]
WorkersOf(p) == {w \in Workers : ProcessOf(w) = p}

None == "none"
NoTime == -1

ASSUME PoolAssumption ==
    /\ IsFiniteSet(Processes)
    /\ Ibkr \subseteq Processes
    /\ Parallelism \in Nat \ {0}      \* DownloadPlan::new
    /\ Jobs \in [Processes -> Seq(STRING)]
    \* validate_output_titles: no two jobs of a plan write to one file.
    /\ \A p \in Processes : Jobs[p] # <<>> /\ IsInjective(Jobs[p])
    /\ Budget \in Nat \cup {-1}
    /\ RequestInterval \in Nat /\ RetryInterval \in Nat
    /\ MaxCrashes \in Nat
    \* What stands for no worker, and for no job, is neither.
    /\ Nobody \notin Workers /\ None \notin Files

VARIABLES
    phase,      \* process -> "connecting", "sleeping", "running" or how it exited
    left,       \* process -> retry_deadline of the startup, as time left; or None
    cancel,     \* process -> its CancellationToken
    queue,      \* process -> the jobs nobody has taken
    firstError, \* process -> the first job that failed, or None
    pacer,      \* process -> pacer -> the next slot, relative to now
    pc,         \* worker -> where it is
    job,        \* worker -> the symbol it has taken
    lock,       \* file -> the worker that holds its lock
    outcome,    \* process -> job -> how it ended so far
    idle,       \* process -> pacer -> ticks since its last grant
    crashes     \* processes that died (for the bound)

processVars == <<phase, left, cancel>>
poolVars == <<queue, firstError, outcome>>
paceVars == <<pacer, idle>>
workerVars == <<pc, job>>
vars == <<processVars, poolVars, paceVars, workerVars, lock, crashes>>

Exited == {"ok", "err", "dead"}
PC == {"next", "lock", "download", "gone"}

TypeOK ==
    /\ phase \in [Processes -> {"connecting", "sleeping", "running"} \cup Exited]
    /\ left \in [Processes -> (0..Budget) \cup {NoTime}]
    /\ cancel \in [Processes -> BOOLEAN]
    /\ \A p \in Processes : IsSuffix(queue[p], Jobs[p])
    /\ firstError \in [Processes -> Files \cup {None}]
    /\ \A p \in Processes, k \in Pacers : pacer[p][k] \in -Interval[k]..Interval[k]
    /\ pc \in [Workers -> PC]
    /\ job \in [Workers -> Files \cup {None}]
    /\ \A p \in Processes : outcome[p] \in [ToSet(Jobs[p]) -> {"none", "ok", "err"}]
    /\ lock \in [Files -> Workers \cup {Nobody}]
    /\ crashes \in 0..MaxCrashes

Init ==
    /\ phase = [p \in Processes |-> "connecting"]
    /\ left = [p \in Processes |-> NoTime]
    /\ cancel = [p \in Processes |-> FALSE]
    /\ queue = Jobs
    /\ firstError = [p \in Processes |-> None]
    /\ pacer = [p \in Processes |-> [k \in Pacers |-> 0]]
    /\ pc = [w \in Workers |-> "next"]
    /\ job = [w \in Workers |-> None]
    /\ lock = [f \in Files |-> Nobody]
    /\ outcome = [p \in Processes |-> [f \in ToSet(Jobs[p]) |-> "none"]]
    /\ idle = [p \in Processes |-> Interval]
    /\ crashes = 0

Exit(p, how) == phase' = [phase EXCEPT ![p] = how]

-----------------------------------------------------------------------------
(* The provider's connect: for ibkr inside connect_with_retry.             *)

Connects(p) ==
    /\ phase[p] = "connecting"
    /\ Exit(p, "running")
    /\ UNCHANGED <<left, cancel, poolVars, paceVars, workerVars, lock, crashes>>

\* Seeded fault: every failed attempt starts the budget anew.
ConnectFailsAnew(p) ==
    /\ phase[p] = "connecting"
    /\ IF p \in Ibkr /\ cancel[p] THEN Exit(p, "ok") /\ UNCHANGED left
       ELSE IF p \notin Ibkr \/ Budget = 0 THEN Exit(p, "err") /\ UNCHANGED left
       ELSE Exit(p, "sleeping") /\ left' = [left EXCEPT ![p] = Budget]
    /\ UNCHANGED <<cancel, poolVars, paceVars, workerVars, lock, crashes>>

\* The attempt fails: Ctrl+C, the budget and its absence are looked at.
ConnectFails(p) ==
    /\ phase[p] = "connecting"
    /\ LET deadline == IF Budget > 0 /\ left[p] = NoTime THEN Budget ELSE left[p]
       IN  IF p \in Ibkr /\ cancel[p] THEN Exit(p, "ok") /\ UNCHANGED left
           ELSE IF p \notin Ibkr \/ Budget = 0 \/ deadline = 0
                THEN Exit(p, "err") /\ UNCHANGED left
           ELSE Exit(p, "sleeping") /\ left' = [left EXCEPT ![p] = deadline]
    /\ UNCHANGED <<cancel, poolVars, paceVars, workerVars, lock, crashes>>

\* sleep_cancellable: wakes every 100ms to look at the token.
WakeUp(p) ==
    /\ phase[p] = "sleeping"
    /\ Exit(p, IF cancel[p] THEN "ok" ELSE "connecting")
    /\ UNCHANGED <<left, cancel, poolVars, paceVars, workerVars, lock, crashes>>

-----------------------------------------------------------------------------
(* One worker.                                                             *)

Running(w) == phase[ProcessOf(w)] = "running"
At(w, label) == Running(w) /\ pc[w] = label
Goto(w, label) == pc' = [pc EXCEPT ![w] = label]

\* Seeded fault: jobs are taken from the back of the queue.
TakeJobLast(w) ==
    LET p == ProcessOf(w) IN
    /\ At(w, "next")
    /\ ~cancel[p] /\ queue[p] # <<>>
    /\ job' = [job EXCEPT ![w] = Last(queue[p])]
    /\ queue' = [queue EXCEPT ![p] = Front(@)]
    /\ Goto(w, "lock")
    /\ UNCHANGED <<processVars, firstError, outcome, paceVars, lock, crashes>>

TakeJob(w) ==
    LET p == ProcessOf(w) IN
    /\ At(w, "next")
    /\ ~cancel[p] /\ queue[p] # <<>>
    /\ job' = [job EXCEPT ![w] = Head(queue[p])]
    /\ queue' = [queue EXCEPT ![p] = Tail(@)]
    /\ Goto(w, "lock")
    /\ UNCHANGED <<processVars, firstError, outcome, paceVars, lock, crashes>>

\* Seeded fault: a failed symbol ends the run.
LeavePoolOnError(w) ==
    /\ At(w, "next")
    /\ \/ cancel[ProcessOf(w)] \/ queue[ProcessOf(w)] = <<>>
       \/ firstError[ProcessOf(w)] # None
    /\ Goto(w, "gone")
    /\ UNCHANGED <<processVars, poolVars, paceVars, job, lock, crashes>>

LeavePool(w) ==
    /\ At(w, "next")
    /\ cancel[ProcessOf(w)] \/ queue[ProcessOf(w)] = <<>>
    /\ Goto(w, "gone")
    /\ UNCHANGED <<processVars, poolVars, paceVars, job, lock, crashes>>

\* Seeded fault: the slot holds the result of the latest symbol.
RecordLatest(w, ok) ==
    LET p == ProcessOf(w) IN
    /\ outcome' = [outcome EXCEPT ![p][job[w]] = IF ok THEN "ok" ELSE "err"]
    /\ firstError' = [firstError EXCEPT ![p] = IF ok THEN None ELSE job[w]]
    /\ job' = [job EXCEPT ![w] = None]
    /\ Goto(w, "next")
    /\ UNCHANGED <<processVars, queue, paceVars, crashes>>

\* The job is over: its error, if any, is recorded and the worker goes on.
Record(w, ok) ==
    LET p == ProcessOf(w) IN
    /\ outcome' = [outcome EXCEPT ![p][job[w]] = IF ok THEN "ok" ELSE "err"]
    /\ firstError' = [firstError EXCEPT ![p] = IF @ = None /\ ~ok THEN job[w] ELSE @]
    /\ job' = [job EXCEPT ![w] = None]
    /\ Goto(w, "next")
    /\ UNCHANGED <<processVars, queue, paceVars, crashes>>

\* Seeded fault: the lock file's existence counts, not who locked it.
TakeLockUnchecked(w) ==
    /\ At(w, "lock")
    /\ lock' = [lock EXCEPT ![job[w]] = w]
    /\ Goto(w, "download")
    /\ UNCHANGED <<processVars, poolVars, paceVars, job, crashes>>

\* try_lock never waits: a lock held elsewhere is the job's error.
TakeLock(w) ==
    /\ At(w, "lock")
    /\ lock[job[w]] = Nobody
    /\ lock' = [lock EXCEPT ![job[w]] = w]
    /\ Goto(w, "download")
    /\ UNCHANGED <<processVars, poolVars, paceVars, job, crashes>>
LockIsHeld(w) ==
    /\ At(w, "lock")
    /\ lock[job[w]] # Nobody
    /\ Record(w, FALSE)
    /\ UNCHANGED lock

\* Seeded fault: the next slot is an interval after the last one, not after now.
RequestOnCredit(w, k) ==
    LET p == ProcessOf(w) IN
    /\ At(w, "download")
    /\ ~cancel[p]
    /\ pacer[p][k] <= 0
    /\ pacer' = [pacer EXCEPT ![p][k] = @ + Interval[k]]
    /\ idle' = [idle EXCEPT ![p][k] = 0]
    /\ UNCHANGED <<processVars, poolVars, workerVars, lock, crashes>>

\* RequestPacer::wait lets the worker's next request through.
Request(w, k) ==
    LET p == ProcessOf(w) IN
    /\ At(w, "download")
    /\ ~cancel[p]
    /\ pacer[p][k] <= 0
    /\ pacer' = [pacer EXCEPT ![p][k] = Interval[k]]
    /\ idle' = [idle EXCEPT ![p][k] = 0]
    /\ UNCHANGED <<processVars, poolVars, workerVars, lock, crashes>>

\* The symbol ends one way or the other, and the guard drops its lock.
EndSymbol(w) ==
    /\ At(w, "download")
    /\ lock' = [lock EXCEPT ![job[w]] = Nobody]
    /\ \E ok \in BOOLEAN : Record(w, ok)

\* All workers are joined; the process reports the first error.
Join(p) ==
    /\ phase[p] = "running"
    /\ \A w \in WorkersOf(p) : pc[w] = "gone"
    /\ Exit(p, IF firstError[p] = None THEN "ok" ELSE "err")
    /\ UNCHANGED <<left, cancel, poolVars, paceVars, workerVars, lock, crashes>>

-----------------------------------------------------------------------------
(* Around it.                                                              *)

Cancel(p) ==
    /\ phase[p] \notin Exited
    /\ ~cancel[p]
    /\ cancel' = [cancel EXCEPT ![p] = TRUE]
    /\ UNCHANGED <<phase, left, poolVars, paceVars, workerVars, lock, crashes>>

\* A second Ctrl+C, a kill: the operating system drops the process's locks.
Crash(p) ==
    /\ phase[p] \notin Exited
    /\ crashes < MaxCrashes
    /\ crashes' = crashes + 1
    /\ Exit(p, "dead")
    /\ lock' = [f \in Files |-> IF lock[f] \in WorkersOf(p) THEN Nobody ELSE lock[f]]
    /\ UNCHANGED <<left, cancel, poolVars, paceVars, workerVars>>

\* A tick of the clock.  A pacer idle for longer than its interval is like one
\* idle for exactly that long.
Tick ==
    /\ pacer' = [p \in Processes |-> [k \in Pacers |->
                    IF pacer[p][k] > -Interval[k] THEN pacer[p][k] - 1 ELSE pacer[p][k]]]
    /\ idle' = [p \in Processes |-> [k \in Pacers |->
                    IF idle[p][k] < Interval[k] THEN idle[p][k] + 1 ELSE idle[p][k]]]
    /\ left' = [p \in Processes |-> IF left[p] > 0 THEN left[p] - 1 ELSE left[p]]
    /\ <<pacer', idle', left'>> # <<pacer, idle, left>>
    /\ UNCHANGED <<phase, cancel, poolVars, workerVars, lock, crashes>>

Over == (\A p \in Processes : phase[p] \in Exited) /\ UNCHANGED vars

Startup(p) == Connects(p) \/ ConnectFails(p) \/ WakeUp(p)
Work(w) ==
    \/ TakeJob(w) \/ LeavePool(w) \/ TakeLock(w) \/ LockIsHeld(w)
    \/ EndSymbol(w)

Next ==
    \/ \E p \in Processes : Startup(p) \/ Join(p) \/ Cancel(p) \/ Crash(p)
    \/ \E w \in Workers : Work(w) \/ \E k \in Pacers : Request(w, k)
    \/ Tick
    \/ Over

Spec == Init /\ [][Next]_vars

\* Threads run, time passes, and no symbol needs requests for ever.
FairSpec ==
    /\ Spec
    /\ WF_vars(Tick)
    /\ \A p \in Processes : WF_vars(Startup(p)) /\ WF_vars(Join(p))
    /\ \A w \in Workers : WF_vars(Work(w))

-----------------------------------------------------------------------------
(* Properties.                                                             *)

Owns(w) == At(w, "download")

\* No two workers, of whichever processes, are ever inside the same file's
\* verification, repair and download; and a dead process blocks nobody.
OneWriterPerFile ==
    /\ \A v, w \in Workers : Owns(v) /\ Owns(w) /\ job[v] = job[w] => v = w
    /\ \A f \in Files : lock[f] # Nobody => Owns(lock[f])

\* A process whose workers have all left without Ctrl+C has an outcome for
\* every job: a failed symbol costs no other symbol its turn.
EveryJobHasItsTurn ==
    \A p \in Processes :
        (\A w \in WorkersOf(p) : pc[w] = "gone") /\ ~cancel[p]
            => \A f \in ToSet(Jobs[p]) : outcome[p][f] # "none"

\* It exits with an error when some symbol failed, also when other workers'
\* symbols end well after that, and without one when none did.
ErrorsReachTheExit ==
    \A p \in Processes :
        /\ phase[p] = "ok" => \A f \in ToSet(Jobs[p]) : outcome[p][f] # "err"
        /\ firstError[p] # None => outcome[p][firstError[p]] = "err"

\* All workers of a process together send no two requests within an interval of
\* one pacer, also after it has been idle (RequestPacer keeps no credit).
Spaced ==
    [][\A p \in Processes, k \in Pacers :
          pacer'[p][k] > pacer[p][k] => idle[p][k] >= Interval[k]]_vars

\* Every process ends: nothing waits for a lock, a pacer or a job for ever.
EveryProcessEnds == \A p \in Processes : <>(phase[p] \in Exited)
=============================================================================
