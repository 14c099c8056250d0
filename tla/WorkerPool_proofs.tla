------------------------- MODULE WorkerPool_proofs -------------------------
(***************************************************************************)
(* Proofs about WorkerPool, for any number of processes, threads, symbols  *)
(* and crashes.                                                            *)
(***************************************************************************)
EXTENDS WorkerPool, TLAPS

JobsOf(p) == ToSet(Jobs[p])

Active(w) == pc[w] \in {"lock", "download"}

\* The types of what the pool works on.
Types ==
    /\ phase \in [Processes -> {"connecting", "sleeping", "running"} \cup Exited]
    /\ cancel \in [Processes -> BOOLEAN]
    /\ queue \in [Processes -> Seq(Files)]
    /\ firstError \in [Processes -> Files \cup {None}]
    /\ pc \in [Workers -> PC]
    /\ job \in [Workers -> Files \cup {None}]
    /\ lock \in [Files -> Workers \cup {Nobody}]
    /\ DOMAIN outcome = Processes
    /\ \A p \in Processes : outcome[p] \in [JobsOf(p) -> {"none", "ok", "err"}]

\* Nobody works before the process runs, and then on a symbol of its plan.
Plans ==
    \A w \in Workers :
        /\ Active(w) => job[w] \in JobsOf(ProcessOf(w))
        /\ phase[ProcessOf(w)] \in {"connecting", "sleeping"} => pc[w] = "next"

\* A lock is held by the worker that downloads its file, and by no other.
Locks ==
    /\ \A w \in Workers : Owns(w) => lock[job[w]] = w
    /\ \A f \in Files : lock[f] # Nobody => Owns(lock[f]) /\ job[lock[f]] = f

Waits(p, f) == \E i \in 1..Len(queue[p]) : queue[p][i] = f

\* A symbol waits in the queue or is with one worker, once, and has no outcome
\* yet.
Once ==
    \A p \in Processes :
        /\ \A i \in 1..Len(queue[p]) :
              /\ queue[p][i] \in JobsOf(p)
              /\ outcome[p][queue[p][i]] = "none"
              /\ \A j \in 1..Len(queue[p]) : queue[p][i] = queue[p][j] => i = j
        /\ \A w \in WorkersOf(p) :
              Active(w) => outcome[p][job[w]] = "none" /\ ~Waits(p, job[w])
        /\ \A v, w \in WorkersOf(p) :
              Active(v) /\ Active(w) /\ job[v] = job[w] => v = w

\* And whatever has no outcome yet does so; a worker leaves when there is
\* nothing left to take, or at Ctrl+C.
Turns ==
    /\ \A p \in Processes : \A f \in JobsOf(p) :
          outcome[p][f] = "none" =>
              Waits(p, f) \/ \E w \in WorkersOf(p) : Active(w) /\ job[w] = f
    /\ \A w \in Workers :
          pc[w] = "gone" => cancel[ProcessOf(w)] \/ queue[ProcessOf(w)] = <<>>

\* The error slot is empty exactly as long as nothing failed.
Errors ==
    \A p \in Processes :
        /\ phase[p] \in {"connecting", "sleeping", "ok"} => firstError[p] = None
        /\ IF firstError[p] = None
           THEN \A f \in JobsOf(p) : outcome[p][f] # "err"
           ELSE firstError[p] \in JobsOf(p) /\ outcome[p][firstError[p]] = "err"

PoolInv == Types /\ Plans /\ Locks /\ Once /\ Turns /\ Errors

\* An idle pacer keeps no credit.
Paced ==
    /\ pacer \in [Processes -> [Pacers -> Int]]
    /\ idle \in [Processes -> [Pacers -> Int]]
    /\ \A p \in Processes, k \in Pacers :
          idle[p][k] >= Interval[k] \/ idle[p][k] + pacer[p][k] >= Interval[k]

-----------------------------------------------------------------------------

\* A worker belongs to one of the processes, and is among its workers.
LEMMA ProcessOfWorker ==
    ASSUME NEW w \in Workers
    PROVE  ProcessOf(w) \in Processes /\ w \in WorkersOf(ProcessOf(w))
  BY DEF Workers, ProcessOf, WorkersOf

\* A job of a plan is a file of the directory.
LEMMA JobsAreFiles ==
    ASSUME NEW p \in Processes
    PROVE  JobsOf(p) \subseteq Files
  BY DEF JobsOf, Files

\* A plan has at least one job, and so at least one worker.
LEMMA SomeWorker ==
    ASSUME NEW p \in Processes
    PROVE  WorkersOf(p) # {}
<1>1. Len(Jobs[p]) \in Nat /\ Len(Jobs[p]) # 0
  BY PoolAssumption
<1>2. 1 \in 1..IF Parallelism < Len(Jobs[p]) THEN Parallelism ELSE Len(Jobs[p])
  BY <1>1, PoolAssumption
<1>3. <<p, 1>> \in Workers /\ ProcessOf(<<p, 1>>) = p
  BY <1>2 DEF Workers, ProcessOf
<1>4. QED
  BY <1>3 DEF WorkersOf

\* At the start every job waits and nobody works.
LEMMA InitPool == Init => PoolInv
<1> SUFFICES ASSUME Init PROVE PoolInv
  OBVIOUS
<1>1. ASSUME NEW p \in Processes
      PROVE  /\ Jobs[p] \in Seq(Files)
             /\ \A i \in 1..Len(Jobs[p]) :
                   /\ Jobs[p][i] \in JobsOf(p)
                   /\ \A j \in 1..Len(Jobs[p]) : Jobs[p][i] = Jobs[p][j] => i = j
             /\ \A f \in JobsOf(p) : \E i \in 1..Len(Jobs[p]) : Jobs[p][i] = f
  <2>1. Jobs[p] \in Seq(STRING) /\ IsInjective(Jobs[p])
    BY PoolAssumption
  <2>2. DOMAIN Jobs[p] = 1..Len(Jobs[p])
    BY <2>1
  <2>3. JobsOf(p) = {Jobs[p][i] : i \in 1..Len(Jobs[p])}
    BY <2>2 DEF JobsOf, ToSet
  <2>4. \A i \in 1..Len(Jobs[p]) : Jobs[p][i] \in Files
    BY <2>3, JobsAreFiles
  <2>5. Jobs[p] \in Seq(Files)
    BY <2>1, <2>4
  <2>6. QED
    BY <2>1, <2>2, <2>3, <2>5 DEF IsInjective
<1>2. \A p \in Processes : outcome[p] = [f \in JobsOf(p) |-> "none"]
  BY DEF Init, JobsOf
<1>3. Types
  <2>1. queue \in [Processes -> Seq(Files)]
    BY <1>1, PoolAssumption DEF Init
  <2>2. DOMAIN outcome = Processes
        /\ \A p \in Processes : outcome[p] \in [JobsOf(p) -> {"none", "ok", "err"}]
    BY <1>2 DEF Init
  <2>3. cancel \in [Processes -> BOOLEAN]
    BY Zenon DEF Init
  <2>4. QED
    BY <2>1, <2>2, <2>3 DEF Init, Types, Exited, PC
<1>4. Plans /\ Turns
  BY <1>1, <1>2 DEF Init, Plans, Turns, Active, Waits
<1>5. Locks
  BY ProcessOfWorker DEF Init, Locks, Owns, At
<1>6. Once
  <2>1. \A w \in Workers : ~Active(w)
    BY DEF Init, Active
  <2>2. \A p \in Processes : WorkersOf(p) \subseteq Workers /\ queue[p] = Jobs[p]
    BY DEF Init, WorkersOf
  <2>3. ASSUME NEW p \in Processes, NEW i \in 1..Len(queue[p])
        PROVE  /\ queue[p][i] \in JobsOf(p)
               /\ outcome[p][queue[p][i]] = "none"
               /\ \A j \in 1..Len(queue[p]) : queue[p][i] = queue[p][j] => i = j
    <3>1. queue[p] = Jobs[p] /\ i \in 1..Len(Jobs[p])
      BY <2>2
    <3>2. Jobs[p][i] \in JobsOf(p)
          /\ \A j \in 1..Len(Jobs[p]) : Jobs[p][i] = Jobs[p][j] => i = j
      BY <1>1, <3>1
    <3>3. outcome[p][Jobs[p][i]] = "none"
      BY <1>2, <3>2
    <3>4. QED
      BY <3>1, <3>2, <3>3
  <2>4. QED
    BY <2>1, <2>2, <2>3 DEF Once
<1>7. Errors
  BY <1>2 DEF Init, Errors
<1>8. QED
  BY <1>3, <1>4, <1>5, <1>6, <1>7 DEF PoolInv

-----------------------------------------------------------------------------

\* A step of one process's phase, which nothing else looks at, to anything a
\* process may come to: before it runs, or when all of its workers have left.
LEMMA PhaseStep ==
    ASSUME PoolInv, NEW p \in Processes,
           NEW how \in {"connecting", "sleeping", "running"} \cup Exited, Exit(p, how),
           UNCHANGED <<cancel, queue, firstError, outcome, pc, job, lock>>,
           \/ phase[p] \in {"connecting", "sleeping"}
           \/ /\ \A w \in WorkersOf(p) : pc[w] = "gone"
              /\ how \in {"ok", "err"} /\ (how = "ok" => firstError[p] = None)
    PROVE  PoolInv'
<1>1. \A q \in Processes : phase'[q] = IF q = p THEN how ELSE phase[q]
  BY DEF PoolInv, Types, Exit
<1>2. Types'
  BY DEF PoolInv, Types, Exit
<1>3. ASSUME NEW w \in Workers, ProcessOf(w) = p PROVE pc[w] \in {"next", "gone"}
  BY <1>3, ProcessOfWorker DEF PoolInv, Plans
<1>4. Plans'
  BY <1>1, <1>3, ProcessOfWorker DEF PoolInv, Plans, Active, Exited
<1>5. \A w \in Workers : Owns(w)' <=> Owns(w)
  BY <1>1, <1>3, ProcessOfWorker DEF Owns, At, Running
<1>6. Locks'
  BY <1>5 DEF PoolInv, Types, Locks
<1>7. Once' /\ Turns'
  BY DEF PoolInv, Once, Turns, Active, Waits
<1>8. Errors'
  BY <1>1 DEF PoolInv, Errors, Exited
<1>9. QED
  BY <1>2, <1>4, <1>6, <1>7, <1>8 DEF PoolInv

\* Ctrl+C only sets the token.
LEMMA CancelStep ==
    ASSUME PoolInv, NEW p \in Processes, Cancel(p)
    PROVE  PoolInv'
<1>1. /\ cancel' = [cancel EXCEPT ![p] = TRUE]
      /\ UNCHANGED <<phase, queue, firstError, outcome, pc, job, lock>>
  BY DEF Cancel, poolVars, workerVars
<1>2. Types'
  BY <1>1 DEF PoolInv, Types
<1>3. Plans' /\ Locks' /\ Once' /\ Errors'
  BY <1>1 DEF PoolInv, Plans, Locks, Once, Errors, Active, Waits, Owns, At, Running
<1>4. Turns'
  <2>1. \A q \in Processes : cancel[q] => cancel'[q]
    BY <1>1 DEF PoolInv, Types
  <2>2. QED
    BY <1>1, <2>1, ProcessOfWorker DEF PoolInv, Turns, Active, Waits
<1>5. QED
  BY <1>2, <1>3, <1>4 DEF PoolInv

\* A process that dies takes its locks with it, and nobody else's.
LEMMA CrashStep ==
    ASSUME PoolInv, NEW p \in Processes, Crash(p)
    PROVE  PoolInv'
<1>1. /\ phase' = [phase EXCEPT ![p] = "dead"]
      /\ lock' = [f \in Files |-> IF lock[f] \in WorkersOf(p) THEN Nobody ELSE lock[f]]
      /\ UNCHANGED <<cancel, queue, firstError, outcome, pc, job>>
  BY DEF Crash, Exit, poolVars, workerVars
<1>2. \A q \in Processes : phase'[q] = IF q = p THEN "dead" ELSE phase[q]
  BY <1>1 DEF PoolInv, Types
<1>3. Types'
  BY <1>1 DEF PoolInv, Types, Exited
<1>4. Plans'
  BY <1>1, <1>2, ProcessOfWorker DEF PoolInv, Plans, Active
<1>5. \A w \in Workers : Owns(w)' <=> Owns(w) /\ ProcessOf(w) # p
  BY <1>1, <1>2, ProcessOfWorker DEF Owns, At, Running
<1>6. Locks'
  <2>1. ASSUME NEW w \in Workers, Owns(w)' PROVE lock'[job[w]] = w
    <3>1. Owns(w) /\ ProcessOf(w) # p
      BY <1>5, <2>1
    <3>2. lock[job[w]] = w /\ job[w] \in Files
      BY <3>1, ProcessOfWorker, JobsAreFiles DEF PoolInv, Locks, Plans, Active, Owns, At
    <3>3. QED
      BY <1>1, <3>1, <3>2 DEF WorkersOf
  <2>2. ASSUME NEW f \in Files, lock'[f] # Nobody
        PROVE  lock'[f] = lock[f] /\ Owns(lock[f])' /\ job[lock[f]] = f
    <3>1. lock'[f] = lock[f] /\ lock[f] \in Workers /\ lock[f] \notin WorkersOf(p)
      BY <1>1, <2>2 DEF PoolInv, Types
    <3>2. Owns(lock[f]) /\ job[lock[f]] = f /\ ProcessOf(lock[f]) # p
      BY <2>2, <3>1 DEF PoolInv, Locks, WorkersOf
    <3>3. phase'[ProcessOf(lock[f])] = "running" /\ pc'[lock[f]] = "download"
      BY <1>1, <1>2, <3>1, <3>2, ProcessOfWorker DEF Owns, At, Running
    <3>4. QED
      BY <3>1, <3>2, <3>3 DEF Owns, At, Running
  <2>3. QED
    BY <1>1, <2>1, <2>2 DEF Locks, Owns, At, Running
<1>7. Once' /\ Turns'
  BY <1>1 DEF PoolInv, Once, Turns, Active, Waits
<1>8. Errors'
  BY <1>1, <1>2 DEF PoolInv, Errors
<1>9. QED
  BY <1>3, <1>4, <1>6, <1>7, <1>8 DEF PoolInv

\* A worker leaves with no job in its hands.
LEMMA LeavePoolStep ==
    ASSUME PoolInv, NEW w \in Workers, LeavePool(w)
    PROVE  PoolInv'
<1>1. /\ pc[w] = "next" /\ (cancel[ProcessOf(w)] \/ queue[ProcessOf(w)] = <<>>)
      /\ pc' = [pc EXCEPT ![w] = "gone"]
      /\ phase[ProcessOf(w)] = "running"
      /\ UNCHANGED <<phase, cancel, queue, firstError, outcome, job, lock>>
  BY DEF LeavePool, At, Running, Goto, processVars, poolVars
<1>2. Types'
  BY <1>1 DEF PoolInv, Types, PC
<1>3. \A v \in Workers : /\ Active(v)' <=> Active(v)
                         /\ Owns(v)' <=> Owns(v)
                         /\ pc'[v] = IF v = w THEN "gone" ELSE pc[v]
  BY <1>1 DEF PoolInv, Types, Active, Owns, At, Running
<1>4. Plans' /\ Locks'
  BY <1>1, <1>3 DEF PoolInv, Types, Plans, Locks
<1>5. Once' /\ Turns'
  BY <1>1, <1>3 DEF PoolInv, Once, Turns, Waits, WorkersOf
<1>6. Errors'
  BY <1>1 DEF PoolInv, Errors
<1>7. QED
  BY <1>2, <1>4, <1>5, <1>6 DEF PoolInv

\* A lock that nobody holds goes to the worker that asks.
LEMMA TakeLockStep ==
    ASSUME PoolInv, NEW w \in Workers, TakeLock(w)
    PROVE  PoolInv'
<1>1. /\ pc[w] = "lock" /\ lock[job[w]] = Nobody
      /\ lock' = [lock EXCEPT ![job[w]] = w]
      /\ pc' = [pc EXCEPT ![w] = "download"]
      /\ phase[ProcessOf(w)] = "running"
      /\ UNCHANGED <<phase, cancel, queue, firstError, outcome, job>>
  BY DEF TakeLock, At, Running, Goto, processVars, poolVars
<1>2. job[w] \in Files
  BY <1>1, ProcessOfWorker, JobsAreFiles DEF PoolInv, Plans, Active
<1>3. Types'
  BY <1>1, <1>2 DEF PoolInv, Types, PC
<1>4. \A v \in Workers : /\ Active(v)' <=> Active(v)
                         /\ Owns(v)' <=> Owns(v) \/ v = w
                         /\ pc'[v] = IF v = w THEN "download" ELSE pc[v]
  BY <1>1 DEF PoolInv, Types, Active, Owns, At, Running
<1>5. Plans'
  BY <1>1, <1>4 DEF PoolInv, Plans
<1>6. Locks'
  <2>1. \A f \in Files : lock'[f] = IF f = job[w] THEN w ELSE lock[f]
    BY <1>1, <1>2 DEF PoolInv, Types
  <2>2. \A v \in Workers : Owns(v) => job[v] # job[w]
    BY <1>1, PoolAssumption DEF PoolInv, Locks
  <2>3. \A v \in Workers : Owns(v) => job[v] \in Files
    BY ProcessOfWorker, JobsAreFiles DEF PoolInv, Plans, Active, Owns, At
  <2>4. QED
    BY <1>1, <1>2, <1>4, <2>1, <2>2, <2>3 DEF PoolInv, Types, Locks
<1>7. Once' /\ Turns'
  BY <1>1, <1>4 DEF PoolInv, Once, Turns, Waits, WorkersOf
<1>8. Errors'
  BY <1>1 DEF PoolInv, Errors
<1>9. QED
  BY <1>3, <1>5, <1>6, <1>7, <1>8 DEF PoolInv

\* The job moves from the head of the queue to the worker.
LEMMA TakeJobStep ==
    ASSUME PoolInv, NEW w \in Workers, TakeJob(w)
    PROVE  PoolInv'
<1> DEFINE p == ProcessOf(w)
           q == queue[p]
<1>1. /\ pc[w] = "next" /\ q # <<>>
      /\ job' = [job EXCEPT ![w] = Head(q)]
      /\ queue' = [queue EXCEPT ![p] = Tail(q)]
      /\ pc' = [pc EXCEPT ![w] = "lock"]
      /\ phase[p] = "running"
      /\ UNCHANGED <<phase, cancel, firstError, outcome, lock>>
  BY DEF TakeJob, At, Running, Goto, processVars
<1>2. p \in Processes /\ q \in Seq(Files) /\ w \in WorkersOf(p)
  BY ProcessOfWorker DEF PoolInv, Types
<1>3. /\ Len(q) \in Nat /\ Len(q) >= 1 /\ Head(q) = q[1] /\ q[1] \in Files
      /\ Tail(q) \in Seq(Files) /\ Len(Tail(q)) = Len(q) - 1
      /\ \A i \in 1..Len(Tail(q)) : Tail(q)[i] = q[i + 1] /\ i + 1 \in 1..Len(q)
      /\ \A i \in 1..Len(q) : i # 1 => i - 1 \in 1..Len(Tail(q)) /\ Tail(q)[i - 1] = q[i]
  BY <1>1, <1>2
<1>4. /\ q[1] \in JobsOf(p) /\ outcome[p][q[1]] = "none"
      /\ \A i \in 1..Len(q) : q[i] = q[1] => i = 1
  BY <1>2, <1>3 DEF PoolInv, Once
<1>5. Types'
  BY <1>1, <1>2, <1>3 DEF PoolInv, Types, PC
<1>6. \A v \in Workers : /\ Active(v)' <=> Active(v) \/ v = w
                         /\ Owns(v)' <=> Owns(v)
                         /\ pc'[v] = IF v = w THEN "lock" ELSE pc[v]
                         /\ job'[v] = IF v = w THEN q[1] ELSE job[v]
  BY <1>1, <1>3 DEF PoolInv, Types, Active, Owns, At, Running
<1>7. \A r \in Processes : queue'[r] = IF r = p THEN Tail(q) ELSE queue[r]
  BY <1>1 DEF PoolInv, Types
<1>8. ~Active(w) /\ ~Owns(w)
  BY <1>1 DEF Active, Owns, At
<1> HIDE DEF p, q
<1>9. p = ProcessOf(w) /\ q = queue[p]
  BY DEF p, q
<1>10. \A r \in Processes, f \in Files :
          Waits(r, f)' <=> Waits(r, f) /\ ~(r = p /\ f = q[1])
  <2> TAKE r \in Processes, f \in Files
  <2>1. CASE r # p
    BY <1>7, <2>1 DEF Waits
  <2>2. CASE r = p
    <3>1. Waits(r, f)' <=> \E i \in 1..Len(Tail(q)) : Tail(q)[i] = f
      BY <1>7, <2>2 DEF Waits
    <3>2. Waits(r, f) <=> \E i \in 1..Len(q) : q[i] = f
      BY <1>9, <2>2 DEF Waits
    <3>3. ASSUME NEW i \in 1..Len(Tail(q)), Tail(q)[i] = f
          PROVE  f # q[1] /\ \E j \in 1..Len(q) : q[j] = f
      <4>1. q[i + 1] = f /\ i + 1 \in 1..Len(q) /\ i + 1 # 1
        BY <1>3, <3>3
      <4>2. QED
        BY <1>4, <4>1
    <3>4. ASSUME NEW i \in 1..Len(q), q[i] = f, f # q[1]
          PROVE  \E j \in 1..Len(Tail(q)) : Tail(q)[j] = f
      BY <1>3, <3>4
    <3>5. QED
      BY <2>2, <3>1, <3>2, <3>3, <3>4
  <2>3. QED
    BY <2>1, <2>2
<1>11. Plans'
  BY <1>1, <1>4, <1>6, <1>9 DEF PoolInv, Plans
<1>12. Locks'
  BY <1>1, <1>6, <1>8 DEF PoolInv, Types, Locks
<1>13. Once'
  <2>1. ASSUME NEW r \in Processes, NEW i \in 1..Len(queue'[r])
        PROVE  /\ queue'[r][i] \in JobsOf(r)
               /\ outcome[r][queue'[r][i]] = "none"
               /\ \A j \in 1..Len(queue'[r]) : queue'[r][i] = queue'[r][j] => i = j
    <3>1. CASE r # p
      BY <1>7, <2>1, <3>1 DEF PoolInv, Once
    <3>2. CASE r = p
      <4>1. i \in 1..Len(Tail(q)) /\ queue'[r] = Tail(q)
        BY <1>7, <2>1, <3>2
      <4>2. Tail(q)[i] = q[i + 1] /\ i + 1 \in 1..Len(q)
        BY <1>3, <4>1
      <4>3. q[i + 1] \in JobsOf(r) /\ outcome[r][q[i + 1]] = "none"
        BY <1>9, <3>2, <4>2 DEF PoolInv, Once
      <4>4. ASSUME NEW j \in 1..Len(Tail(q)), Tail(q)[i] = Tail(q)[j] PROVE i = j
        <5>1. q[i + 1] = q[j + 1] /\ j + 1 \in 1..Len(q)
          BY <1>3, <4>2, <4>4
        <5>2. i + 1 = j + 1
          BY <1>2, <1>9, <4>2, <5>1 DEF PoolInv, Once
        <5>3. QED
          BY <4>1, <5>2
      <4>5. QED
        BY <4>1, <4>2, <4>3, <4>4
    <3>3. QED
      BY <3>1, <3>2
  <2>2. ASSUME NEW r \in Processes, NEW v \in WorkersOf(r), Active(v)'
        PROVE  outcome[r][job'[v]] = "none" /\ ~Waits(r, job[v])'
    <3>1. v \in Workers /\ ProcessOf(v) = r
      BY DEF WorkersOf
    <3>2. ASSUME NEW f \in Files, job'[v] = f, ~(\E i \in 1..Len(queue'[r]) : queue'[r][i] = f)
          PROVE  ~Waits(r, job[v])'
      BY <3>2 DEF Waits
    <3>3. \A f \in Files : Waits(r, f)' <=> \E i \in 1..Len(queue'[r]) : queue'[r][i] = f
      BY DEF Waits
    <3>4. CASE v = w
      <4>1. job'[v] = q[1] /\ r = p
        BY <1>6, <1>9, <3>1, <3>4
      <4>2. q[1] \in Files /\ outcome[r][q[1]] = "none"
        BY <1>3, <1>4, <4>1
      <4>3. ~(\E i \in 1..Len(queue'[r]) : queue'[r][i] = q[1])
        BY <1>10, <3>3, <4>1, <4>2
      <4>4. QED
        BY <3>2, <4>1, <4>2, <4>3
    <3>5. CASE v # w
      <4>1. Active(v) /\ job'[v] = job[v]
        BY <1>6, <2>2, <3>1, <3>5
      <4>2. outcome[r][job[v]] = "none" /\ ~Waits(r, job[v])
        BY <4>1 DEF PoolInv, Once
      <4>3. job[v] \in Files
        BY <3>1, <4>1, ProcessOfWorker, JobsAreFiles DEF PoolInv, Plans
      <4>4. ~(\E i \in 1..Len(queue'[r]) : queue'[r][i] = job[v])
        BY <1>10, <3>3, <4>2, <4>3
      <4>5. QED
        BY <3>2, <4>1, <4>2, <4>3, <4>4
    <3>6. QED
      BY <3>4, <3>5
  <2>3. ASSUME NEW r \in Processes, NEW u \in WorkersOf(r), NEW v \in WorkersOf(r),
               Active(u)', Active(v)', job'[u] = job'[v]
        PROVE  u = v
    <3>1. u \in Workers /\ v \in Workers /\ ProcessOf(u) = r /\ ProcessOf(v) = r
      BY DEF WorkersOf
    <3>2. ASSUME NEW x \in WorkersOf(r), Active(x) PROVE p = r => job[x] # q[1]
      <4>1. ~Waits(r, job[x])
        BY <3>2 DEF PoolInv, Once
      <4>2. p = r => Waits(r, q[1])
        BY <1>3, <1>9 DEF Waits
      <4>3. QED
        BY <4>1, <4>2
    <3>3. CASE u # w /\ v # w
      BY <1>6, <2>3, <3>1, <3>3 DEF PoolInv, Once
    <3>4. CASE u = w \/ v = w
      BY <1>6, <1>9, <2>3, <3>1, <3>2, <3>4
    <3>5. QED
      BY <3>3, <3>4
  <2>4. QED
    BY <1>1, <2>1, <2>2, <2>3 DEF Once
<1>14. Turns'
  <2>1. ASSUME NEW r \in Processes, NEW f \in JobsOf(r), outcome[r][f] = "none"
        PROVE  Waits(r, f)' \/ \E v \in WorkersOf(r) : Active(v)' /\ job'[v] = f
    <3>1. f \in Files
      BY JobsAreFiles
    <3>2. CASE Waits(r, f)
      <4>1. CASE r = p /\ f = q[1]
        BY <1>2, <1>6, <4>1
      <4>2. QED
        BY <1>10, <3>1, <3>2, <4>1
    <3>3. CASE ~Waits(r, f)
      <4>1. PICK v \in WorkersOf(r) : Active(v) /\ job[v] = f
        BY <2>1, <3>3 DEF PoolInv, Turns
      <4>2. v \in Workers /\ v # w
        BY <1>8, <4>1 DEF WorkersOf
      <4>3. QED
        BY <1>6, <4>1, <4>2
    <3>4. QED
      BY <3>2, <3>3
  <2>2. ASSUME NEW v \in Workers, pc'[v] = "gone"
        PROVE  cancel[ProcessOf(v)] \/ queue'[ProcessOf(v)] = <<>>
    <3>1. v # w /\ (cancel[ProcessOf(v)] \/ queue[ProcessOf(v)] = <<>>)
      BY <1>6, <2>2 DEF PoolInv, Turns
    <3>2. ProcessOf(v) \in Processes /\ q # <<>>
      BY <1>1, ProcessOfWorker DEF q, p
    <3>3. QED
      BY <1>7, <1>9, <3>1, <3>2
  <2>3. QED
    BY <1>1, <2>1, <2>2 DEF Turns
<1>15. Errors'
  BY <1>1 DEF PoolInv, Errors
<1>16. QED
  BY <1>5, <1>11, <1>12, <1>13, <1>14, <1>15 DEF PoolInv

\* A job that ends: its outcome is the only one that changes, and it had none
\* before, so the error slot stays right.
LEMMA RecordStep ==
    ASSUME PoolInv, NEW w \in Workers, NEW ok \in BOOLEAN, Active(w), Running(w),
           Record(w, ok),
           \/ Owns(w) /\ lock' = [lock EXCEPT ![job[w]] = Nobody]
           \/ ~Owns(w) /\ lock' = lock
    PROVE  PoolInv'
<1> DEFINE p == ProcessOf(w)
           g == job[w]
           how == IF ok THEN "ok" ELSE "err"
<1>1. /\ outcome' = [outcome EXCEPT ![p][g] = how]
      /\ firstError' = [firstError EXCEPT ![p] = IF @ = None /\ ~ok THEN g ELSE @]
      /\ job' = [job EXCEPT ![w] = None]
      /\ pc' = [pc EXCEPT ![w] = "next"]
      /\ UNCHANGED <<phase, cancel, queue>>
  BY DEF Record, Goto, processVars
<1>2. /\ p \in Processes /\ w \in WorkersOf(p) /\ g \in JobsOf(p) /\ g \in Files
      /\ g # None /\ how \in {"ok", "err"} /\ phase[p] = "running"
  BY ProcessOfWorker, JobsAreFiles, PoolAssumption DEF PoolInv, Plans, Running
<1>3. outcome[p][g] = "none" /\ ~Waits(p, g)
      /\ \A v \in WorkersOf(p) : Active(v) /\ job[v] = g => v = w
  BY <1>2 DEF PoolInv, Once
<1> HIDE DEF how
<1>4. \A r \in Processes : \A f \in JobsOf(r) :
          outcome'[r][f] = IF r = p /\ f = g THEN how ELSE outcome[r][f]
  BY <1>1, <1>2 DEF PoolInv, Types
<1>5. \A v \in Workers : /\ Active(v)' <=> Active(v) /\ v # w
                         /\ Owns(v)' <=> Owns(v) /\ v # w
                         /\ pc'[v] = IF v = w THEN "next" ELSE pc[v]
                         /\ job'[v] = IF v = w THEN None ELSE job[v]
  BY <1>1 DEF PoolInv, Types, Active, Owns, At, Running
<1>6. \A r \in Processes :
          firstError'[r] = IF r = p /\ firstError[r] = None /\ ~ok THEN g ELSE firstError[r]
  BY <1>1, <1>2 DEF PoolInv, Types
<1> HIDE DEF p, g
<1>7. Types'
  <2>1. /\ phase' \in [Processes -> {"connecting", "sleeping", "running"} \cup Exited]
        /\ cancel' \in [Processes -> BOOLEAN]
        /\ queue' \in [Processes -> Seq(Files)]
        /\ pc' \in [Workers -> PC]
        /\ job' \in [Workers -> Files \cup {None}]
    BY <1>1 DEF PoolInv, Types, PC
  <2>2. firstError' \in [Processes -> Files \cup {None}]
    BY <1>1, <1>2 DEF PoolInv, Types
  <2>3. lock' \in [Files -> Workers \cup {Nobody}]
    BY <1>2 DEF PoolInv, Types, g
  <2>4. DOMAIN outcome' = Processes
    BY <1>1 DEF PoolInv, Types
  <2>5. ASSUME NEW r \in Processes
        PROVE  outcome'[r] \in [JobsOf(r) -> {"none", "ok", "err"}]
    <3>1. outcome[r] \in [JobsOf(r) -> {"none", "ok", "err"}]
      BY DEF PoolInv, Types
    <3>2. outcome'[r] = IF r = p THEN [outcome[r] EXCEPT ![g] = how] ELSE outcome[r]
      BY <1>1, <1>2 DEF PoolInv, Types
    <3>3. QED
      BY <1>2, <3>1, <3>2
  <2>6. QED
    BY <2>1, <2>2, <2>3, <2>4, <2>5 DEF Types
<1>8. Plans'
  BY <1>1, <1>2, <1>5, ProcessOfWorker DEF PoolInv, Plans, p
<1>9. Locks'
  <2>1. \A v \in Workers : Owns(v) => lock[job[v]] = v /\ job[v] \in Files
    BY ProcessOfWorker, JobsAreFiles DEF PoolInv, Locks, Plans, Active, Owns, At
  <2>2. CASE Owns(w) /\ lock' = [lock EXCEPT ![g] = Nobody]
    <3>1. lock[g] = w
      BY <2>1, <2>2 DEF g
    <3>2. \A f \in Files : lock'[f] = IF f = g THEN Nobody ELSE lock[f]
      BY <2>2 DEF PoolInv, Types
    <3>3. ASSUME NEW v \in Workers, Owns(v)' PROVE lock'[job'[v]] = v
      <4>1. Owns(v) /\ v # w /\ job'[v] = job[v]
        BY <1>5, <3>3
      <4>2. QED
        BY <2>1, <3>1, <3>2, <4>1
    <3>4. ASSUME NEW f \in Files, lock'[f] # Nobody
          PROVE  lock'[f] = lock[f] /\ lock[f] \in Workers /\ lock[f] # w
                 /\ Owns(lock[f]) /\ job[lock[f]] = f
      <4>1. lock'[f] = lock[f] /\ f # g
        BY <3>2, <3>4
      <4>2. lock[f] \in Workers /\ Owns(lock[f]) /\ job[lock[f]] = f
        BY <3>4, <4>1 DEF PoolInv, Types, Locks
      <4>3. QED
        BY <4>1, <4>2 DEF g
    <3>5. QED
      BY <1>1, <1>5, <3>3, <3>4 DEF Locks, Owns, At, Running
  <2>3. CASE ~Owns(w) /\ lock' = lock
    BY <1>5, <2>3 DEF PoolInv, Types, Locks
  <2>4. QED
    BY <2>2, <2>3 DEF g
<1>10. Once'
  <2>1. ASSUME NEW r \in Processes, NEW i \in 1..Len(queue[r])
        PROVE  /\ queue[r][i] \in JobsOf(r)
               /\ outcome'[r][queue[r][i]] = "none"
               /\ \A j \in 1..Len(queue[r]) : queue[r][i] = queue[r][j] => i = j
    BY <1>3, <1>4 DEF PoolInv, Once, Waits
  <2>2. ASSUME NEW r \in Processes, NEW v \in WorkersOf(r), Active(v)'
        PROVE  /\ job'[v] = job[v] /\ Active(v)
               /\ outcome'[r][job[v]] = "none" /\ ~Waits(r, job[v])
    <3>1. v \in Workers /\ ProcessOf(v) = r
      BY DEF WorkersOf
    <3>2. Active(v) /\ v # w /\ job'[v] = job[v]
      BY <1>5, <2>2, <3>1
    <3>3. outcome[r][job[v]] = "none" /\ ~Waits(r, job[v]) /\ job[v] \in JobsOf(r)
      BY <3>1, <3>2 DEF PoolInv, Once, Plans
    <3>4. ~(r = p /\ job[v] = g)
      BY <1>3, <3>2
    <3>5. QED
      BY <1>4, <3>2, <3>3, <3>4
  <2>3. QED
    BY <1>1, <2>1, <2>2 DEF PoolInv, Once, Waits
<1>11. Turns'
  <2>1. ASSUME NEW r \in Processes, NEW f \in JobsOf(r), outcome'[r][f] = "none"
        PROVE  Waits(r, f) \/ \E v \in WorkersOf(r) : Active(v)' /\ job'[v] = f
    <3>1. ~(r = p /\ f = g) /\ outcome[r][f] = "none"
      BY <1>2, <1>4, <2>1
    <3>2. CASE Waits(r, f)
      BY <3>2
    <3>3. CASE ~Waits(r, f)
      <4>1. PICK v \in WorkersOf(r) : Active(v) /\ job[v] = f
        BY <3>1, <3>3 DEF PoolInv, Turns
      <4>2. v \in Workers /\ v # w
        BY <3>1, <4>1 DEF WorkersOf, p, g
      <4>3. QED
        BY <1>5, <4>1, <4>2
    <3>4. QED
      BY <3>2, <3>3
  <2>2. \A v \in Workers : pc'[v] = "gone" => pc[v] = "gone"
    BY <1>5
  <2>3. QED
    BY <1>1, <2>1, <2>2 DEF PoolInv, Turns, Waits
<1>12. Errors'
  <2>1. ASSUME NEW r \in Processes
        PROVE  /\ phase[r] \in {"connecting", "sleeping", "ok"} => firstError'[r] = None
               /\ IF firstError'[r] = None
                  THEN \A f \in JobsOf(r) : outcome'[r][f] # "err"
                  ELSE firstError'[r] \in JobsOf(r) /\ outcome'[r][firstError'[r]] = "err"
    <3>1. /\ phase[r] \in {"connecting", "sleeping", "ok"} => firstError[r] = None
          /\ IF firstError[r] = None
             THEN \A f \in JobsOf(r) : outcome[r][f] # "err"
             ELSE firstError[r] \in JobsOf(r) /\ outcome[r][firstError[r]] = "err"
      BY DEF PoolInv, Errors
    <3>2. CASE r # p
      BY <1>4, <1>6, <3>1, <3>2
    <3>3. CASE r = p /\ firstError[r] = None
      <4>1. CASE ok
        BY <1>4, <1>6, <3>1, <3>3, <4>1 DEF how
      <4>2. CASE ~ok
        BY <1>2, <1>4, <1>6, <3>1, <3>3, <4>2 DEF how
      <4>3. QED
        BY <4>1, <4>2
    <3>4. CASE r = p /\ firstError[r] # None
      BY <1>2, <1>3, <1>4, <1>6, <3>1, <3>4
    <3>5. QED
      BY <3>2, <3>3, <3>4
  <2>2. QED
    BY <1>1, <2>1 DEF Errors
<1>13. QED
  BY <1>7, <1>8, <1>9, <1>10, <1>11, <1>12 DEF PoolInv

\* Every step keeps the pool in order.
LEMMA NextPool == PoolInv /\ [Next]_vars => PoolInv'
<1> SUFFICES ASSUME PoolInv, [Next]_vars PROVE PoolInv'
  OBVIOUS
<1> USE DEF processVars, poolVars, paceVars, workerVars
<1>1. ASSUME NEW p \in Processes, Startup(p) PROVE PoolInv'
  <2>1. CASE Connects(p)
    BY <2>1, PhaseStep DEF Connects
  <2>2. CASE ConnectFails(p)
    <3>1. PICK how \in {"ok", "err", "sleeping"} : Exit(p, how)
      BY <2>2 DEF ConnectFails
    <3>2. how \in {"connecting", "sleeping", "running"} \cup Exited
      BY DEF Exited
    <3>3. QED
      BY <2>2, <3>1, <3>2, PhaseStep DEF ConnectFails
  <2>3. CASE WakeUp(p)
    <3>1. PICK how \in {"ok", "connecting"} : Exit(p, how)
      BY <2>3 DEF WakeUp
    <3>2. how \in {"connecting", "sleeping", "running"} \cup Exited
      BY DEF Exited
    <3>3. QED
      BY <2>3, <3>1, <3>2, PhaseStep DEF WakeUp
  <2>4. QED
    BY <1>1, <2>1, <2>2, <2>3 DEF Startup
<1>2. ASSUME NEW p \in Processes, Join(p) PROVE PoolInv'
  <2>1. PICK how \in {"ok", "err"} : Exit(p, how) /\ (how = "ok" => firstError[p] = None)
    BY <1>2 DEF Join
  <2>2. how \in {"connecting", "sleeping", "running"} \cup Exited
    BY DEF Exited
  <2>3. QED
    BY <1>2, <2>1, <2>2, PhaseStep DEF Join
<1>3. ASSUME NEW w \in Workers, LockIsHeld(w) PROVE PoolInv'
  <2>1. Active(w) /\ Running(w) /\ ~Owns(w) /\ Record(w, FALSE) /\ lock' = lock
    BY <1>3 DEF LockIsHeld, At, Active, Owns
  <2>2. QED
    BY <2>1, RecordStep
<1>4. ASSUME NEW w \in Workers, EndSymbol(w) PROVE PoolInv'
  <2>1. Active(w) /\ Running(w) /\ Owns(w) /\ lock' = [lock EXCEPT ![job[w]] = Nobody]
    BY <1>4 DEF EndSymbol, At, Active, Owns
  <2>2. PICK ok \in BOOLEAN : Record(w, ok)
    BY <1>4 DEF EndSymbol
  <2>3. QED
    BY <2>1, <2>2, RecordStep
<1>5. ASSUME NEW w \in Workers, Work(w) PROVE PoolInv'
  BY <1>3, <1>4, <1>5, TakeJobStep, LeavePoolStep, TakeLockStep DEF Work
<1>6. ASSUME UNCHANGED <<phase, cancel, queue, firstError, outcome, pc, job, lock>>
      PROVE  PoolInv'
  BY <1>6 DEF PoolInv, Types, Plans, Locks, Once, Turns, Errors, Active, Waits, Owns, At, Running
<1>7. ASSUME NEW w \in Workers, NEW k \in Pacers, Request(w, k) PROVE PoolInv'
  BY <1>6, <1>7 DEF Request
<1>8. CASE Tick
  BY <1>6, <1>8 DEF Tick
<1>9. CASE Over \/ UNCHANGED vars
  BY <1>6, <1>9 DEF Over, vars
<1>10. QED
  BY <1>1, <1>2, <1>5, <1>7, <1>8, <1>9, CancelStep, CrashStep DEF Next

\* The invariant from which the results below follow.
THEOREM PoolInvariant == Spec => []PoolInv
<1>1. QED
  BY InitPool, NextPool, PTL DEF Spec

\* Two workers never work on one file, whichever processes they belong to: the
\* lock file is held exactly by the worker that downloads (TickStore::open_writer).
THEOREM OneWriter == Spec => []OneWriterPerFile
<1>1. PoolInv => OneWriterPerFile
  BY DEF PoolInv, Locks, OneWriterPerFile
<1>2. QED
  BY <1>1, PoolInvariant, PTL

\* Without Ctrl+C the workers of the job loop leave no job behind, whatever
\* failed: a job is in the queue, with a worker or has its outcome.
THEOREM EveryTurn == Spec => []EveryJobHasItsTurn
<1>1. PoolInv => EveryJobHasItsTurn
  <2> SUFFICES ASSUME PoolInv, NEW p \in Processes,
                      \A w \in WorkersOf(p) : pc[w] = "gone", ~cancel[p],
                      NEW f \in JobsOf(p), outcome[p][f] = "none"
               PROVE  FALSE
    BY DEF EveryJobHasItsTurn, JobsOf
  <2>1. PICK w \in WorkersOf(p) : TRUE
    BY SomeWorker
  <2>2. w \in Workers /\ ProcessOf(w) = p
    BY DEF WorkersOf
  <2>3. queue[p] = <<>>
    BY <2>2 DEF PoolInv, Turns
  <2>4. ~Waits(p, f)
    BY <2>3 DEF Waits
  <2>5. \A v \in WorkersOf(p) : ~Active(v)
    BY DEF Active
  <2>6. QED
    BY <2>4, <2>5 DEF PoolInv, Turns
<1>2. QED
  BY <1>1, PoolInvariant, PTL

\* The exit status is decided by the first error slot, which no later success
\* and no other worker's error clears.
THEOREM ErrorsExit == Spec => []ErrorsReachTheExit
<1>1. PoolInv => ErrorsReachTheExit
  BY DEF PoolInv, Errors, ErrorsReachTheExit, JobsOf
<1>2. QED
  BY <1>1, PoolInvariant, PTL

-----------------------------------------------------------------------------
(* The pacers.                                                             *)

\* The intervals of both pacers are numbers of ticks.
LEMMA IntervalNat == \A k \in Pacers : Interval[k] \in Nat
  BY PoolAssumption DEF Pacers, Interval

\* A new pacer has been idle for long enough.
LEMMA InitPaced == Init => Paced
<1> SUFFICES ASSUME Init PROVE Paced
  OBVIOUS
<1>1. pacer \in [Processes -> [Pacers -> Int]]
  BY DEF Init
<1>2. idle \in [Processes -> [Pacers -> Int]]
        /\ \A p \in Processes, k \in Pacers : idle[p][k] = Interval[k]
  BY IntervalNat DEF Init, Interval, Pacers
<1>3. QED
  BY <1>1, <1>2, IntervalNat DEF Paced

\* A grant leaves the full interval to wait, and a tick takes from the wait what
\* it adds to the idle time.
LEMMA NextPaced == Paced /\ [Next]_vars => Paced'
<1> SUFFICES ASSUME Paced, [Next]_vars PROVE Paced'
  OBVIOUS
<1>1. ASSUME UNCHANGED paceVars PROVE Paced'
  BY <1>1 DEF Paced, paceVars
<1>2. ASSUME NEW w \in Workers, NEW k \in Pacers, Request(w, k) PROVE Paced'
  <2> DEFINE p == ProcessOf(w)
  <2>1. /\ p \in Processes
        /\ pacer' = [pacer EXCEPT ![p][k] = Interval[k]]
        /\ idle' = [idle EXCEPT ![p][k] = 0]
    BY <1>2, ProcessOfWorker DEF Request
  <2> HIDE DEF p
  <2>2. /\ pacer' \in [Processes -> [Pacers -> Int]]
        /\ idle' \in [Processes -> [Pacers -> Int]]
    BY <2>1, IntervalNat DEF Paced
  <2>3. \A r \in Processes, j \in Pacers :
           IF r = p /\ j = k THEN pacer'[r][j] = Interval[j] /\ idle'[r][j] = 0
           ELSE pacer'[r][j] = pacer[r][j] /\ idle'[r][j] = idle[r][j]
    BY <2>1 DEF Paced
  <2>4. QED
    BY <2>2, <2>3, IntervalNat DEF Paced
<1>3. CASE Tick
  <2>1. /\ pacer' \in [Processes -> [Pacers -> Int]]
        /\ idle' \in [Processes -> [Pacers -> Int]]
    BY <1>3, IntervalNat DEF Tick, Paced
  <2>2. ASSUME NEW p \in Processes, NEW k \in Pacers
        PROVE  idle'[p][k] >= Interval[k] \/ idle'[p][k] + pacer'[p][k] >= Interval[k]
    <3>1. /\ pacer'[p][k] = IF pacer[p][k] > -Interval[k] THEN pacer[p][k] - 1 ELSE pacer[p][k]
          /\ idle'[p][k] = IF idle[p][k] < Interval[k] THEN idle[p][k] + 1 ELSE idle[p][k]
      BY <1>3 DEF Tick
    <3>2. /\ pacer[p][k] \in Int /\ idle[p][k] \in Int /\ Interval[k] \in Nat
          /\ idle[p][k] >= Interval[k] \/ idle[p][k] + pacer[p][k] >= Interval[k]
      BY IntervalNat DEF Paced
    <3>3. QED
      BY <3>1, <3>2
  <2>3. QED
    BY <2>1, <2>2 DEF Paced
<1>4. CASE ~Tick /\ ~(\E w \in Workers, k \in Pacers : Request(w, k))
  <2>1. UNCHANGED paceVars
    BY <1>4 DEF Next, vars, Over, Startup, Connects, ConnectFails, WakeUp, Join, Cancel, Crash,
                Work, TakeJob, LeavePool, TakeLock, LockIsHeld, EndSymbol, Record
  <2>2. QED
    BY <1>1, <2>1
<1>5. QED
  BY <1>2, <1>3, <1>4

\* However many workers share a pacer, the interval has passed whenever it lets
\* one of them through (RequestPacer::wait).
THEOREM RequestsSpaced == Spec => Spaced
<1> DEFINE Gap == \A p \in Processes, k \in Pacers :
                     pacer'[p][k] > pacer[p][k] => idle[p][k] >= Interval[k]
<1>1. Paced /\ [Next]_vars => [Gap]_vars
  <2> SUFFICES ASSUME Paced, [Next]_vars, NEW p \in Processes, NEW k \in Pacers,
                      pacer'[p][k] > pacer[p][k]
               PROVE  idle[p][k] >= Interval[k]
    OBVIOUS
  <2>1. pacer[p][k] \in Int /\ idle[p][k] \in Int /\ Interval[k] \in Nat
    BY IntervalNat DEF Paced
  <2>2. ~Tick
    BY <2>1 DEF Tick
  <2>3. ~UNCHANGED paceVars
    BY <2>1 DEF paceVars
  <2>4. PICK w \in Workers, j \in Pacers : Request(w, j)
    BY <2>2, <2>3 DEF Next, vars, Over, Startup, Connects, ConnectFails, WakeUp, Join, Cancel,
                Crash, Work, TakeJob, LeavePool, TakeLock, LockIsHeld, EndSymbol, Record
  <2>5. ProcessOf(w) = p /\ j = k
    <3>1. pacer' = [pacer EXCEPT ![ProcessOf(w)][j] = Interval[j]]
      BY <2>4 DEF Request
    <3>2. QED
      BY <2>1, <3>1, ProcessOfWorker DEF Paced
  <2>6. pacer[p][k] <= 0
    BY <2>4, <2>5 DEF Request
  <2>7. QED
    BY <2>1, <2>6 DEF Paced
<1>2. QED
  BY <1>1, InitPaced, NextPaced, PTL DEF Spec, Spaced

-----------------------------------------------------------------------------
(* Types.                                                                  *)

\* The queue is what is left of the plan.
Rest ==
    \A p \in Processes :
        /\ Len(queue[p]) <= Len(Jobs[p])
        /\ \A i \in 1..Len(queue[p]) :
              queue[p][i] = Jobs[p][Len(Jobs[p]) - Len(queue[p]) + i]

Bounded ==
    /\ left \in [Processes -> (0..Budget) \cup {NoTime}]
    /\ crashes \in 0..MaxCrashes
    /\ pacer \in [Processes -> [Pacers -> Int]]
    /\ \A p \in Processes, k \in Pacers : pacer[p][k] \in -Interval[k]..Interval[k]

\* The rest of a plan is a suffix of it, as TypeOK has it.
LEMMA RestIsSuffix ==
    ASSUME NEW p \in Processes, Types, Rest
    PROVE  IsSuffix(queue[p], Jobs[p])
<1> DEFINE q == queue[p]
           t == Jobs[p]
<1>1. q \in Seq(Files) /\ t \in Seq(STRING)
  BY PoolAssumption DEF Types
<1>2. Len(q) <= Len(t) /\ \A i \in 1..Len(q) : q[i] = t[Len(t) - Len(q) + i]
  BY Zenon DEF Rest
<1> HIDE DEF q, t
<1>3. Len(q) \in Nat /\ Len(t) \in Nat
  BY <1>1
<1>4. /\ Reverse(q) = [i \in 1..Len(q) |-> q[Len(q) - i + 1]]
      /\ Reverse(t) = [i \in 1..Len(t) |-> t[Len(t) - i + 1]]
  BY DEF Reverse
<1>5. Reverse(q) \in Seq(Files) /\ Len(Reverse(q)) = Len(q)
  BY <1>1, <1>2, <1>3, <1>4
<1>6. Reverse(t) \in Seq(STRING) /\ Len(Reverse(t)) = Len(t)
  BY <1>1, <1>2, <1>3, <1>4
<1>7. \A i \in 1..Len(q) : Reverse(q)[i] = Reverse(t)[i]
  <2> TAKE i \in 1..Len(q)
  <2>1. Len(q) - i + 1 \in 1..Len(q) /\ i \in 1..Len(t)
        /\ Len(t) - Len(q) + (Len(q) - i + 1) = Len(t) - i + 1
    BY <1>2, <1>3
  <2>2. q[Len(q) - i + 1] = t[Len(t) - i + 1]
    BY <1>2, <1>3, <2>1
  <2>3. QED
    BY <1>4, <2>1, <2>2
<1>8. SubSeq(Reverse(q), 1, Len(q)) = SubSeq(Reverse(t), 1, Len(q))
  <2>1. /\ SubSeq(Reverse(q), 1, Len(q)) = [i \in 1..Len(q) |-> Reverse(q)[i]]
        /\ SubSeq(Reverse(t), 1, Len(q)) = [i \in 1..Len(q) |-> Reverse(t)[i]]
    BY <1>2, <1>3, <1>5, <1>6
  <2>2. QED
    BY <1>7, <2>1
<1>9. QED
  BY <1>2, <1>3, <1>5, <1>6, <1>8 DEF IsSuffix, IsPrefix, q, t

\* At the start all of the plan is left and nothing is counted.
LEMMA InitBounded == Init => Rest /\ Bounded
<1> SUFFICES ASSUME Init PROVE Rest /\ Bounded
  OBVIOUS
<1>1. Rest
  <2>1. \A p \in Processes : Len(Jobs[p]) \in Nat
    BY PoolAssumption
  <2>2. QED
    BY <2>1 DEF Init, Rest
<1>2. Bounded
  BY IntervalNat, PoolAssumption DEF Init, Bounded
<1>3. QED
  BY <1>1, <1>2

\* Only taking a job shortens the queue, at its head.
LEMMA NextRest == Types /\ Rest /\ [Next]_vars => Rest'
<1> SUFFICES ASSUME Types, Rest, [Next]_vars PROVE Rest'
  OBVIOUS
<1>1. CASE queue' = queue
  BY <1>1 DEF Rest
<1>2. ASSUME NEW w \in Workers, TakeJob(w) PROVE Rest'
  <2> DEFINE p == ProcessOf(w)
             q == queue[p]
             t == Jobs[p]
  <2>1. p \in Processes /\ q \in Seq(Files) /\ q # <<>> /\ Len(t) \in Nat
    BY <1>2, ProcessOfWorker, PoolAssumption DEF TakeJob, Types
  <2>2. \A r \in Processes : queue'[r] = IF r = p THEN Tail(q) ELSE queue[r]
    BY <1>2 DEF TakeJob, Types
  <2>3. /\ Len(q) <= Len(t)
        /\ \A i \in 1..Len(q) : q[i] = t[Len(t) - Len(q) + i]
    BY <2>1 DEF Rest
  <2> HIDE DEF p, q, t
  <2>4. /\ Len(q) \in Nat /\ Len(Tail(q)) = Len(q) - 1
        /\ \A i \in 1..Len(Tail(q)) : Tail(q)[i] = q[i + 1] /\ i + 1 \in 1..Len(q)
    BY <2>1
  <2>5. Len(Tail(q)) <= Len(t)
    BY <2>1, <2>3, <2>4
  <2>6. ASSUME NEW i \in 1..Len(Tail(q)) PROVE Tail(q)[i] = t[Len(t) - Len(Tail(q)) + i]
    <3>1. Tail(q)[i] = t[Len(t) - Len(q) + (i + 1)]
      BY <2>3, <2>4
    <3>2. Len(t) - Len(q) + (i + 1) = Len(t) - Len(Tail(q)) + i
      BY <2>1, <2>4
    <3>3. QED
      BY <3>1, <3>2
  <2>7. ASSUME NEW r \in Processes, NEW i \in 1..Len(queue'[r])
        PROVE  queue'[r][i] = Jobs[r][Len(Jobs[r]) - Len(queue'[r]) + i]
    <3>1. CASE r = p
      BY <2>2, <2>6, <2>7, <3>1 DEF t
    <3>2. CASE r # p
      BY <2>2, <2>7, <3>2 DEF Rest
    <3>3. QED
      BY <3>1, <3>2
  <2>8. \A r \in Processes : Len(queue'[r]) <= Len(Jobs[r])
    BY <2>2, <2>5 DEF Rest, t
  <2>9. QED
    BY <2>7, <2>8 DEF Rest
<1>3. QED
  BY <1>1, <1>2 DEF Next, vars, Over, poolVars, Startup, Connects, ConnectFails, WakeUp, Join,
          Cancel, Crash, Work, LeavePool, TakeLock, LockIsHeld, EndSymbol, Record, Request, Tick

\* Startup, crashes, grants and ticks keep the counters within their bounds.
LEMMA NextBounded == Bounded /\ [Next]_vars => Bounded'
<1> SUFFICES ASSUME Bounded, [Next]_vars PROVE Bounded'
  OBVIOUS
<1> USE DEF processVars, poolVars, paceVars, workerVars
<1>1. ASSUME UNCHANGED <<left, crashes, pacer>> PROVE Bounded'
  BY <1>1 DEF Bounded
<1>2. ASSUME NEW p \in Processes, ConnectFails(p) PROVE Bounded'
  <2>1. UNCHANGED left
        \/ \E d \in (0..Budget) \cup {NoTime} : left' = [left EXCEPT ![p] = d]
    <3>1. left[p] \in (0..Budget) \cup {NoTime} /\ (Budget > 0 => Budget \in 0..Budget)
      BY PoolAssumption DEF Bounded
    <3>2. QED
      BY <1>2, <3>1 DEF ConnectFails
  <2>2. left' \in [Processes -> (0..Budget) \cup {NoTime}]
    BY <2>1 DEF Bounded
  <2>3. QED
    BY <1>2, <2>2 DEF ConnectFails, Bounded
<1>3. ASSUME NEW p \in Processes, Crash(p) PROVE Bounded'
  BY <1>3, PoolAssumption DEF Crash, Bounded
<1>4. ASSUME NEW w \in Workers, NEW k \in Pacers, Request(w, k) PROVE Bounded'
  <2>1. /\ ProcessOf(w) \in Processes
        /\ pacer' = [pacer EXCEPT ![ProcessOf(w)][k] = Interval[k]]
        /\ UNCHANGED <<left, crashes>>
    BY <1>4, ProcessOfWorker DEF Request
  <2>2. pacer' \in [Processes -> [Pacers -> Int]]
    BY <2>1, IntervalNat DEF Bounded
  <2>3. \A r \in Processes, j \in Pacers :
           pacer'[r][j] = IF r = ProcessOf(w) /\ j = k THEN Interval[j] ELSE pacer[r][j]
    BY <2>1 DEF Bounded
  <2>4. QED
    BY <2>1, <2>2, <2>3, IntervalNat DEF Bounded
<1>5. CASE Tick
  <2>1. crashes' = crashes /\ pacer' \in [Processes -> [Pacers -> Int]]
    BY <1>5, IntervalNat DEF Tick, Bounded
  <2>2. left' \in [Processes -> (0..Budget) \cup {NoTime}]
    <3>1. \A p \in Processes : left'[p] = IF left[p] > 0 THEN left[p] - 1 ELSE left[p]
      BY <1>5 DEF Tick
    <3>2. \A p \in Processes : left'[p] \in (0..Budget) \cup {NoTime}
      BY <3>1, PoolAssumption DEF Bounded, NoTime
    <3>3. QED
      BY <1>5, <3>2 DEF Tick
  <2>3. ASSUME NEW p \in Processes, NEW k \in Pacers
        PROVE  pacer'[p][k] \in -Interval[k]..Interval[k]
    <3>1. pacer'[p][k] = IF pacer[p][k] > -Interval[k] THEN pacer[p][k] - 1 ELSE pacer[p][k]
      BY <1>5 DEF Tick
    <3>2. pacer[p][k] \in -Interval[k]..Interval[k] /\ Interval[k] \in Nat
      BY IntervalNat DEF Bounded
    <3>3. QED
      BY <3>1, <3>2
  <2>4. QED
    BY <2>1, <2>2, <2>3 DEF Bounded
<1>6. QED
  BY <1>1, <1>2, <1>3, <1>4, <1>5 DEF Next, vars, Over, Startup, Connects, WakeUp, Join, Cancel,
          Work, TakeJob, LeavePool, TakeLock, LockIsHeld, EndSymbol, Record

\* Every variable keeps its type, and a queue is always the rest of its plan, for
\* any number of processes and threads and any budget of startup retries.
THEOREM PoolTypes == Spec => []TypeOK
<1>1. Types /\ Rest /\ Bounded => TypeOK
  BY RestIsSuffix DEF Types, Bounded, TypeOK, JobsOf
<1>2. PoolInv => Types
  BY DEF PoolInv
<1>3. Init => Rest /\ Bounded
  BY InitBounded
<1>4. QED
  BY <1>1, <1>2, <1>3, NextRest, NextBounded, PoolInvariant, PTL DEF Spec
=============================================================================
