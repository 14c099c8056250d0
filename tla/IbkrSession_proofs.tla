------------------------- MODULE IbkrSession_proofs -------------------------
(***************************************************************************)
(* Proofs about IbkrSession, for any number of workers, polls, faults and  *)
(* any retry budget.                                                       *)
(***************************************************************************)
EXTENDS IbkrSession, TLAPS

\* Every replacement of the client costs a fault, and so does every restore
\* notice.
Counts ==
    /\ faults \in 0..MaxFaults
    /\ clients <= faults + 1
    /\ connected = {} => clients <= faults
    /\ epoch + notices <= faults
    /\ ~link => epoch + notices + 1 <= faults

\* The shared state: while nobody holds the gate, only the slot's client is
\* connected.
Slots ==
    /\ slot \in [client: Nat, generation: Nat]
    /\ gate \in Workers \cup {Nobody}
    /\ epoch \in Nat /\ notices \in Nat /\ clients \in Nat
    /\ link \in BOOLEAN /\ gateway \in BOOLEAN /\ cancel \in BOOLEAN
    /\ connected \subseteq 0..(clients - 1)
    /\ slot.client < clients /\ slot.generation < clients
    /\ slot.generation = 0 => slot.client = 0
    /\ gate = Nobody => connected \subseteq {slot.client}

Shared == Counts /\ Slots

\* One worker's frame f against the shared state.
Good(v, f) ==
    /\ f \in Frame
    /\ f.client < clients /\ f.generation <= slot.generation
    /\ f.pc # "replace" /\ f.generation = slot.generation => f.client = slot.client
    /\ f.pc \in {"dial", "replace"} <=> gate = v
    /\ f.pc = "dial" => connected = {}
    /\ f.pc = "replace" => /\ f.client = clients - 1
                           /\ slot.generation + 1 < clients
                           /\ connected \subseteq {f.client}
    /\ f.pc = "gate" => f.failure = "io"
    /\ f.pc \in {"failed", "gate"} /\ f.failure = "io" => f.client \notin connected
    /\ f.pc = "failed" => f.failure # "none"
    /\ f.pc = "failed" /\ f.failure = "canceled" => cancel
    /\ f.pc \in {"issue", "wait"} => f.start <= epoch
    /\ f.pc = "wait" /\ f.request = "lost" /\ f.client \in connected /\ link
           => f.start < epoch + notices

IInv ==
    /\ Shared
    /\ worker \in [Workers -> Frame]
    /\ \A v \in Workers : Good(v, worker[v])

-----------------------------------------------------------------------------

\* What the assumptions say of the constants.
LEMMA ConstantTypes ==
    /\ MaxFaults \in Nat /\ StallPolls \in Nat /\ Nobody \notin Workers
    /\ Budget \in Nat \/ Budget = -1
  BY SessionAssumption

\* A worker between two calls is in order, wherever it goes from there.
LEMMA NoCallGood ==
    ASSUME Shared, NEW w \in Workers, gate # w,
           NEW label \in {"head", "between", "pace", "stopped", "error"},
           NEW f \in Frame, f.client = 0, f.generation = 0, f.pc = label
    PROVE  Good(w, f)
  BY DEF Good, Shared, Slots

\* A worker outside a call has a frame like any other.
LEMMA NoCallFrame ==
    ASSUME NEW label \in {"head", "between", "pace", "stopped", "error"},
           NEW left \in (0..Budget) \cup {None}
    PROVE  LET f == [NoCall EXCEPT !.pc = label]
               g == [NoCall EXCEPT !.pc = label, !.left = left]
           IN  /\ f \in Frame /\ f.client = 0 /\ f.generation = 0 /\ f.pc = label
               /\ g \in Frame /\ g.client = 0 /\ g.generation = 0 /\ g.pc = label
<1>1. NoCall \in Frame /\ NoCall.client = 0 /\ NoCall.generation = 0
  BY ConstantTypes DEF NoCall, Frame, PC, Ended, Requests, Failures, None
<1>2. QED
  BY <1>1 DEF Frame, PC, Ended

\* A step of one worker that leaves everything shared alone has only that
\* worker's frame to answer for.
LEMMA FrameStep ==
    ASSUME IInv, NEW w \in Workers, NEW frame, Good(w, frame), Become(w, frame),
           UNCHANGED <<clientVars, outside, world>>
    PROVE  IInv'
<1>1. Shared'
  BY DEF IInv, Shared, Counts, Slots, clientVars, outside, world
<1>2. worker' = [worker EXCEPT ![w] = frame] /\ frame \in Frame
  BY DEF Become, Good
<1>3. worker' \in [Workers -> Frame]
  BY <1>2 DEF IInv
<1>4. ASSUME NEW v \in Workers PROVE Good(v, worker[v])'
  <2>1. worker'[v] = IF v = w THEN frame ELSE worker[v]
    BY <1>2 DEF IInv
  <2>2. Good(v, worker'[v])
    BY <2>1 DEF IInv
  <2>3. QED
    BY <2>2 DEF Good, clientVars, outside, world
<1>5. QED
  BY <1>1, <1>3, <1>4 DEF IInv

\* A step that changes the shared state has to leave every worker in order.
LEMMA SharedStep ==
    ASSUME Shared', worker' \in [Workers -> Frame],
           \A v \in Workers : Good(v, worker[v])'
    PROVE  IInv'
  BY DEF IInv

\* A fault more leaves the counts in order.
LEMMA FaultCounts ==
    ASSUME IInv, UNCHANGED <<clientVars, connected, clients, link, gateway, notices, cancel>>,
           faults' = faults \/ (faults < MaxFaults /\ faults' = faults + 1)
    PROVE  Shared'
<1>1. Slots'
  BY DEF IInv, Shared, Slots, clientVars
<1>2. Counts'
  <2>1. /\ epoch' = epoch /\ notices' = notices /\ link' = link
        /\ clients' = clients /\ connected' = connected
    BY DEF clientVars
  <2>2. /\ faults \in Int /\ clients \in Int /\ epoch \in Int /\ notices \in Int
    BY ConstantTypes DEF IInv, Shared, Slots, Counts
  <2>3. CASE faults' = faults
    BY <2>1, <2>3 DEF IInv, Shared, Counts
  <2>4. CASE faults < MaxFaults /\ faults' = faults + 1
    BY <2>1, <2>2, <2>4, ConstantTypes DEF IInv, Shared, Counts
  <2>5. QED
    BY <2>3, <2>4
<1>3. QED
  BY <1>1, <1>2 DEF Shared

\* A step that only tells some requests what became of them.
LEMMA MarkStep ==
    ASSUME IInv, NEW W \in SUBSET Workers, NEW request \in Requests \ {"lost"},
           Mark(W, request), UNCHANGED <<clientVars, connected, clients, link, gateway, notices, cancel>>,
           faults' = faults \/ (faults < MaxFaults /\ faults' = faults + 1)
    PROVE  IInv'
<1>1. Shared'
  BY FaultCounts
<1>2. worker' \in [Workers -> Frame]
  BY DEF IInv, Mark, Frame
<1>3. ASSUME NEW v \in Workers PROVE Good(v, worker[v])'
  <2>1. worker'[v] = worker[v] \/ worker'[v] = [worker[v] EXCEPT !.request = request]
    BY DEF Mark
  <2>2. Good(v, worker[v]) /\ worker[v] \in Frame /\ worker'[v] \in Frame
    BY <1>2 DEF IInv
  <2>3. Good(v, worker'[v])
    BY <2>1, <2>2 DEF Good, Frame
  <2>4. QED
    BY <2>3 DEF Good, clientVars
<1>4. QED
  BY <1>1, <1>2, <1>3, SharedStep

-----------------------------------------------------------------------------

\* The shared numbers, as a snapshot takes them.
LEMMA SnapshotTypes ==
    ASSUME IInv
    PROVE  /\ slot.client \in 0..(MaxFaults + 1) /\ slot.client < clients
           /\ slot.generation \in 0..(MaxFaults + 1)
           /\ epoch \in 0..MaxFaults
           /\ clients \in 1..(MaxFaults + 1)
<1>1. /\ slot.client \in Nat /\ slot.generation \in Nat /\ epoch \in Nat /\ notices \in Nat
      /\ clients \in Nat /\ faults \in 0..MaxFaults /\ MaxFaults \in Nat
  BY ConstantTypes DEF IInv, Shared, Slots, Counts
<1>2. slot.client < clients /\ slot.generation < clients /\ clients <= faults + 1
      /\ epoch + notices <= faults
  BY DEF IInv, Shared, Slots, Counts
<1>3. QED
  BY <1>1, <1>2

\* A worker that leaves its call, or starts the next attempt, and changes
\* nothing else.
LEMMA LeaveStep ==
    ASSUME IInv, NEW w \in Workers, gate # w,
           NEW label \in {"head", "between", "pace", "stopped", "error"},
           Leave(w, label), UNCHANGED <<clientVars, outside, world>>
    PROVE  IInv'
<1> DEFINE f == [NoCall EXCEPT !.pc = label]
<1>1. f \in Frame /\ f.client = 0 /\ f.generation = 0 /\ f.pc = label
  <2>1. None \in (0..Budget) \cup {None}
    OBVIOUS
  <2>2. QED
    BY <2>1, NoCallFrame
<1> HIDE DEF f
<1>2. Good(w, f)
  BY <1>1, NoCallGood DEF IInv
<1>3. QED
  BY <1>2, FrameStep DEF Leave, f

\* A retry starts over from the pacer and keeps nothing of the request.
LEMMA RetryStep ==
    ASSUME IInv, NEW w \in Workers, gate # w,
           NEW left \in (0..Budget) \cup {None},
           Retry(w, left), UNCHANGED <<clientVars, outside, world>>
    PROVE  IInv'
<1> DEFINE f == [NoCall EXCEPT !.pc = "pace", !.left = left]
<1>1. f \in Frame /\ f.client = 0 /\ f.generation = 0 /\ f.pc = "pace"
  BY NoCallFrame
<1> HIDE DEF f
<1>2. Good(w, f)
  BY <1>1, NoCallGood DEF IInv
<1>3. QED
  BY <1>2, FrameStep DEF Retry, f

\* Only a worker that dials or replaces holds the gate.
LEMMA NoGate ==
    ASSUME IInv, NEW w \in Workers, worker[w].pc \notin {"dial", "replace"}
    PROVE  gate # w
  BY DEF IInv, Good

\* The start of a request for the head, and of an attempt.
LEMMA HeadStep ==
    ASSUME IInv, NEW w \in Workers, AskHead(w)
    PROVE  IInv'
<1> DEFINE f == worker[w]
           g(r) == [f EXCEPT !.pc = "headwait", !.client = slot.client,
                             !.generation = slot.generation, !.request = r]
<1>1. f \in Frame /\ Good(w, f) /\ Shared
  BY DEF IInv
<1>2. gate # w /\ UNCHANGED <<clientVars, outside, world>>
  BY NoGate DEF AskHead, At
<1>3. CASE cancel
  BY <1>2, <1>3, LeaveStep DEF AskHead
<1>4. CASE ~cancel
  <2>1. PICK r \in {"open", "lost"} : Become(w, g(r))
    BY <1>4 DEF AskHead
  <2>2. g(r) \in Frame /\ g(r).pc = "headwait" /\ g(r).client = slot.client
        /\ g(r).generation = slot.generation
    BY <1>1, SnapshotTypes DEF Frame, PC, Ended, Requests
  <2> HIDE DEF g
  <2>3. Good(w, g(r))
    BY <2>2, <1>2, <1>1, SnapshotTypes DEF Good, Shared, Slots
  <2>4. QED
    BY <2>1, <2>3, <1>2, FrameStep
<1>5. QED
  BY <1>3, <1>4

\* A snapshot takes the current client, its generation and the counter.
LEMMA SnapshotStep ==
    ASSUME IInv, NEW w \in Workers, Snapshot(w)
    PROVE  IInv'
<1> DEFINE f == worker[w]
           g == [f EXCEPT !.pc = "subscribe", !.client = slot.client,
                          !.generation = slot.generation]
<1>1. f \in Frame /\ Good(w, f) /\ Shared
  BY DEF IInv
<1>2. gate # w /\ UNCHANGED <<clientVars, outside, world>>
  BY NoGate DEF Snapshot, At
<1>3. CASE cancel
  BY <1>2, <1>3, LeaveStep DEF Snapshot
<1>4. CASE ~cancel
  <2>1. Become(w, g)
    BY <1>4 DEF Snapshot
  <2>2. g \in Frame /\ g.pc = "subscribe" /\ g.client = slot.client
        /\ g.generation = slot.generation
    BY <1>1, SnapshotTypes DEF Frame, PC, Ended
  <2> HIDE DEF g
  <2>3. Good(w, g)
    BY <2>2, <1>2, <1>1, SnapshotTypes DEF Good, Shared, Slots
  <2>4. QED
    BY <2>1, <2>3, <1>2, FrameStep
<1>5. QED
  BY <1>3, <1>4

\* The epoch is read before the request goes out.
LEMMA LoadEpochStep ==
    ASSUME IInv, NEW w \in Workers, LoadEpoch(w)
    PROVE  IInv'
<1> DEFINE f == worker[w]
           g == [f EXCEPT !.pc = "issue", !.start = epoch]
<1>1. f \in Frame /\ Good(w, f) /\ f.pc = "subscribe"
  BY DEF IInv, LoadEpoch, At
<1>2. UNCHANGED <<clientVars, outside, world>>
  BY DEF LoadEpoch
<1>3. Become(w, g)
  BY DEF LoadEpoch, Become, IInv, Frame
<1>4. g \in Frame
  BY <1>1, SnapshotTypes DEF Frame, PC, Ended
<1>5. Good(w, g)
  BY <1>1, <1>4, SnapshotTypes DEF Good, Frame
<1>6. QED
  BY <1>2, <1>3, <1>5, FrameStep

\* A failed attempt keeps the client it ran on.
LEMMA FailGood ==
    ASSUME IInv, NEW w \in Workers, worker[w].pc \in {"issue", "wait"},
           NEW why \in Failures \ {"none"},
           why = "io" => ~Healthy(w), why = "canceled" => cancel
    PROVE  Good(w, [worker[w] EXCEPT !.pc = "failed", !.failure = why,
                                     !.request = "none", !.silence = 0, !.start = 0])
<1> DEFINE f == worker[w]
           g == [f EXCEPT !.pc = "failed", !.failure = why,
                          !.request = "none", !.silence = 0, !.start = 0]
<1>1. f \in Frame /\ Good(w, f)
  BY DEF IInv
<1>2. g \in Frame
  <2>1. 0 \in 0..StallPolls /\ 0 \in 0..MaxFaults /\ why \in Failures
    BY ConstantTypes
  <2>2. QED
    BY <1>1, <2>1 DEF Frame, PC, Ended, Requests
<1>3. /\ g.pc = "failed" /\ g.failure = why
      /\ g.client = f.client /\ g.generation = f.generation
  BY <1>1 DEF Frame
<1> HIDE DEF g
<1>4. Good(w, g)
  BY <1>1, <1>2, <1>3 DEF Good, Healthy
<1>5. QED
  BY <1>4 DEF g

\* A request that goes out while the link is down may get lost; the restore is
\* still to come then.
LEMMA IssueStep ==
    ASSUME IInv, NEW w \in Workers, Issue(w)
    PROVE  IInv'
<1> DEFINE f == worker[w]
<1>1. f \in Frame /\ Good(w, f) /\ f.pc = "issue"
  BY DEF IInv, Issue, At
<1>2. UNCHANGED <<clientVars, outside, world>>
  BY DEF Issue
<1>3. CASE Healthy(w)
  <2>1. PICK r \in IF link THEN {"open"} ELSE {"open", "lost"} :
            Become(w, [f EXCEPT !.pc = "wait", !.request = r])
    BY <1>3 DEF Issue
  <2> DEFINE g == [f EXCEPT !.pc = "wait", !.request = r]
  <2>2. g \in Frame
    BY <1>1 DEF Frame, PC, Ended, Requests
  <2>3. /\ g.pc = "wait" /\ g.request = r /\ g.client = f.client
        /\ g.generation = f.generation /\ g.start = f.start
    BY <1>1 DEF Frame
  <2> HIDE DEF g
  <2>4. Good(w, g)
    BY <1>1, <2>2, <2>3 DEF Good
  <2>5. QED
    BY <1>2, <2>1, <2>4, FrameStep DEF g
<1>4. CASE ~Healthy(w)
  BY <1>1, <1>2, <1>4, FailGood, FrameStep DEF Issue, Fail, Failures
<1>5. QED
  BY <1>3, <1>4

\* What is heard, or not heard, of a request.
LEMMA WaitStep ==
    ASSUME IInv, NEW w \in Workers,
           Progress(w) \/ ReadError(w) \/ Silent(w) \/ Answered(w)
    PROVE  IInv'
<1> DEFINE f == worker[w]
           Heard(n) == [f EXCEPT !.silence = n]
<1>1. f \in Frame /\ Good(w, f) /\ f.pc = "wait" /\ gate # w
  BY NoGate DEF IInv, Progress, ReadError, Silent, Answered, At
<1>2. UNCHANGED <<clientVars, outside, world>>
  BY DEF Progress, ReadError, Silent, Answered
<1>3. ASSUME NEW n \in 0..StallPolls PROVE Good(w, Heard(n))
  BY <1>1, <1>3 DEF Good, Frame
<1>4. ASSUME NEW why \in Failures \ {"none"}, Fail(w, why),
             why = "io" => ~Healthy(w), why = "canceled" => cancel
      PROVE  IInv'
  BY <1>1, <1>2, <1>4, FailGood, FrameStep DEF Fail
<1>5. CASE Progress(w)
  <2>1. Become(w, Heard(0))
    BY <1>5 DEF Progress, Become, IInv, Frame
  <2>2. QED
    BY <1>2, <1>3, <2>1, FrameStep, ConstantTypes
<1>6. CASE ReadError(w)
  BY <1>4, <1>6 DEF ReadError, Failures
<1>7. CASE Silent(w)
  <2> DEFINE n == IF f.silence < StallPolls THEN f.silence + 1 ELSE StallPolls
  <2>1. n \in 0..StallPolls
    BY <1>1, ConstantTypes DEF Frame
  <2>2. CASE cancel
    BY <1>4, <1>7, <2>2 DEF Silent, Failures
  <2>3. CASE ~cancel /\ epoch # f.start
    BY <1>4, <1>7, <2>3 DEF Silent, Failures
  <2>4. CASE Fail(w, "stalled")
    BY <1>4, <2>4 DEF Failures
  <2>5. CASE worker' = [worker EXCEPT ![w].silence = n]
    <3>1. Become(w, Heard(n))
      BY <2>5 DEF Become, IInv, Frame
    <3> HIDE DEF n
    <3>2. QED
      BY <1>2, <1>3, <2>1, <3>1, FrameStep
  <2>6. QED
    BY <1>7, <2>2, <2>3, <2>4, <2>5 DEF Silent
<1>8. CASE Answered(w)
  BY <1>1, <1>2, <1>8, LeaveStep DEF Answered
<1>9. QED
  BY <1>5, <1>6, <1>7, <1>8

\* fetch_with_recovery.
LEMMA RecoverStep ==
    ASSUME IInv, NEW w \in Workers, Recover(w)
    PROVE  IInv'
<1> DEFINE f == worker[w]
           left == IF Budget > 0 /\ f.left = None THEN Budget ELSE f.left
<1>1. f \in Frame /\ Good(w, f) /\ f.pc = "failed" /\ gate # w
  BY NoGate DEF IInv, Recover, At
<1>2. UNCHANGED <<clientVars, outside, world>>
  BY DEF Recover
<1>3. left \in (0..Budget) \cup {None}
  BY <1>1, ConstantTypes DEF Frame, None
<1>4. CASE Leave(w, "stopped") \/ Leave(w, "error")
  BY <1>1, <1>2, <1>4, LeaveStep
<1>5. CASE Retry(w, left)
  <2> HIDE DEF left
  <2>1. QED
    BY <1>1, <1>2, <1>3, <1>5, RetryStep
<1>6. CASE /\ RecoveryAction(f.failure) \notin {"none", "retry"}
           /\ worker' = [worker EXCEPT ![w].pc = "gate", ![w].left = left]
  <2> DEFINE g == [f EXCEPT !.pc = "gate", !.left = left]
  <2>1. f.failure = "io"
    BY <1>6 DEF RecoveryAction
  <2> HIDE DEF left
  <2>2. Become(w, g)
    BY <1>6 DEF Become, IInv, Frame
  <2>3. g \in Frame
    BY <1>1, <1>3 DEF Frame, PC, Ended
  <2>4. /\ g.pc = "gate" /\ g.failure = "io" /\ g.client = f.client
        /\ g.generation = f.generation
    BY <1>1, <2>1 DEF Frame
  <2> HIDE DEF g
  <2>5. Good(w, g)
    BY <1>1, <2>1, <2>3, <2>4 DEF Good
  <2>6. QED
    BY <1>2, <2>2, <2>5, FrameStep
<1>7. QED
  BY <1>4, <1>5, <1>6 DEF Recover

-----------------------------------------------------------------------------

\* Whoever enters the gate with the slot's generation still current finds its
\* dead client to be the only one.
LEMMA EnterGateStep ==
    ASSUME IInv, NEW w \in Workers, EnterGate(w)
    PROVE  IInv'
<1> DEFINE f == worker[w]
<1>1. f \in Frame /\ Good(w, f) /\ f.pc = "gate" /\ gate = Nobody /\ gate # w
  BY ConstantTypes DEF IInv, EnterGate, At
<1>2. CASE slot.generation # f.generation
  <2>1. UNCHANGED <<clientVars, outside, world>> /\ Retry(w, f.left)
    BY <1>2 DEF EnterGate, clientVars
  <2>2. QED
    BY <1>1, <2>1, RetryStep DEF Frame
<1>3. CASE slot.generation = f.generation
  <2> DEFINE g == [f EXCEPT !.pc = "dial"]
  <2>1. gate' = w /\ Become(w, g) /\ UNCHANGED <<slot, epoch, outside, world>>
    BY <1>3 DEF EnterGate, Goto, Become, IInv, Frame
  <2>2. g \in Frame
    BY <1>1 DEF Frame, PC, Ended
  <2>3. g.pc = "dial" /\ g.client = f.client /\ g.generation = f.generation
    BY <1>1 DEF Frame
  <2> HIDE DEF g
  <2>4. connected = {}
    BY <1>1, <1>3 DEF Good, IInv, Shared, Slots
  <2>5. Shared'
    BY <2>1, <2>4 DEF IInv, Shared, Slots, Counts, outside, world
  <2>6. worker' \in [Workers -> Frame]
    BY <2>1, <2>2 DEF Become, IInv
  <2>7. ASSUME NEW v \in Workers PROVE Good(v, worker[v])'
    <3>1. worker'[v] = IF v = w THEN g ELSE worker[v]
      BY <2>1 DEF Become, IInv
    <3>2. Good(v, worker[v])
      BY DEF IInv
    <3>3. CASE v = w
      BY <1>1, <2>1, <2>2, <2>3, <2>4, <3>1, <3>3, ConstantTypes DEF Good, outside, world
    <3>4. CASE v # w
      BY <1>1, <2>1, <3>1, <3>2, <3>4, ConstantTypes DEF Good, outside, world
    <3>5. QED
      BY <3>3, <3>4
  <2>8. QED
    BY <2>5, <2>6, <2>7, SharedStep
<1>4. QED
  BY <1>2, <1>3

\* The fresh client is in nobody else's frame.
LEMMA DialStep ==
    ASSUME IInv, NEW w \in Workers, Dial(w)
    PROVE  IInv'
<1> DEFINE f == worker[w]
           g == [f EXCEPT !.pc = "replace", !.client = clients]
<1>1. f \in Frame /\ Good(w, f) /\ f.pc = "dial" /\ connected = {} /\ gate = w
  BY DEF IInv, Dial, At, Good
<1>2. /\ connected' = {clients} /\ clients' = clients + 1
      /\ slot' = slot /\ gate' = gate /\ epoch' = epoch /\ link' = link
      /\ gateway' = gateway /\ notices' = notices /\ cancel' = cancel /\ faults' = faults
  BY DEF Dial, clientVars, world
<1>3. Become(w, g)
  BY DEF Dial, Become, IInv, Frame
<1>4. /\ clients \in Nat /\ slot.generation \in Nat /\ slot.client \in Nat
      /\ slot.generation < clients /\ slot.client < clients
  BY DEF IInv, Shared, Slots
<1>5. clients \in 0..(MaxFaults + 1)
  BY SnapshotTypes, ConstantTypes
<1>6. g \in Frame
  BY <1>1, <1>5 DEF Frame, PC, Ended
<1>7. g.pc = "replace" /\ g.client = clients /\ g.generation = f.generation
  BY <1>1 DEF Frame
<1> HIDE DEF g
<1>8. Shared'
  <2>1. connected' \subseteq 0..(clients' - 1)
    BY <1>2, <1>4
  <2>2. Slots'
    BY <1>1, <1>2, <1>4, <2>1, ConstantTypes DEF IInv, Shared, Slots
  <2>3. Counts'
    BY <1>1, <1>2, <1>4, ConstantTypes DEF IInv, Shared, Counts
  <2>4. QED
    BY <2>2, <2>3 DEF Shared
<1>9. worker' \in [Workers -> Frame]
  BY <1>3, <1>6 DEF Become, IInv
<1>10. ASSUME NEW v \in Workers PROVE Good(v, worker[v])'
  <2>1. worker'[v] = IF v = w THEN g ELSE worker[v]
    BY <1>3 DEF Become, IInv
  <2>2. Good(v, worker[v]) /\ worker[v] \in Frame
    BY DEF IInv
  <2>3. CASE v = w
    <3>1. /\ g.client < clients' /\ g.client = clients' - 1
          /\ slot'.generation + 1 < clients' /\ connected' \subseteq {g.client}
      BY <1>2, <1>4, <1>7
    <3>2. g.generation <= slot'.generation
      BY <1>1, <1>2, <1>7 DEF Good
    <3>3. QED
      BY <1>1, <1>2, <1>6, <1>7, <2>1, <2>3, <3>1, <3>2 DEF Good
  <2>4. CASE v # w
    <3>1. worker[v].client \in Int /\ worker[v].client < clients
      BY <2>2, ConstantTypes DEF Good, Frame
    <3>2. worker[v].client < clients' /\ worker[v].client \notin connected'
      BY <1>2, <1>4, <3>1
    <3>3. worker[v].pc \notin {"dial", "replace"}
      BY <1>1, <2>2, <2>4 DEF Good
    <3>4. QED
      BY <1>1, <1>2, <2>1, <2>2, <2>4, <3>2, <3>3 DEF Good
  <2>5. QED
    BY <2>3, <2>4
<1>11. QED
  BY <1>8, <1>9, <1>10, SharedStep

\* A step that opens the gate again, the slot as it was.
LEMMA DialFailsStep ==
    ASSUME IInv, NEW w \in Workers, DialFails(w)
    PROVE  IInv'
<1> DEFINE f == worker[w]
           g == [NoCall EXCEPT !.pc = "pace", !.left = f.left]
<1>1. f \in Frame /\ Good(w, f) /\ f.pc = "dial" /\ gate = w /\ connected = {}
  BY DEF IInv, DialFails, At, Good
<1>2. gate' = Nobody /\ Become(w, g) /\ UNCHANGED <<slot, epoch, outside, world>>
  BY DEF DialFails, Retry
<1>3. g \in Frame /\ g.client = 0 /\ g.generation = 0 /\ g.pc = "pace"
  <2>1. f.left \in (0..Budget) \cup {None}
    BY <1>1 DEF Frame
  <2>2. QED
    BY <2>1, NoCallFrame
<1> HIDE DEF g
<1>4. Shared'
  BY <1>1, <1>2 DEF IInv, Shared, Slots, Counts, outside, world
<1>5. worker' \in [Workers -> Frame]
  BY <1>2, <1>3 DEF Become, IInv
<1>6. ASSUME NEW v \in Workers PROVE Good(v, worker[v])'
  <2>1. worker'[v] = IF v = w THEN g ELSE worker[v]
    BY <1>2 DEF Become, IInv
  <2>2. Good(v, worker[v])
    BY DEF IInv
  <2>3. CASE v = w
    BY <1>2, <1>3, <1>4, <2>1, <2>3, ConstantTypes DEF Good, Shared, Slots
  <2>4. CASE v # w
    BY <1>1, <1>2, <2>1, <2>2, <2>4, ConstantTypes DEF Good, outside, world
  <2>5. QED
    BY <2>3, <2>4
<1>7. QED
  BY <1>4, <1>5, <1>6, SharedStep

\* A replacement makes every snapshot of before older than the slot.
LEMMA ReplaceStep ==
    ASSUME IInv, NEW w \in Workers, Replace(w)
    PROVE  IInv'
<1> DEFINE f == worker[w]
           g == [NoCall EXCEPT !.pc = "pace", !.left = f.left]
<1>1. f \in Frame /\ Good(w, f) /\ f.pc = "replace" /\ gate = w
  BY DEF IInv, Replace, At, Good
<1>2. /\ gate' = Nobody /\ Become(w, g) /\ UNCHANGED <<epoch, outside, world>>
      /\ slot' = [client |-> f.client, generation |-> slot.generation + 1]
  BY DEF Replace, Retry
<1>3. g \in Frame /\ g.client = 0 /\ g.generation = 0 /\ g.pc = "pace"
  <2>1. f.left \in (0..Budget) \cup {None}
    BY <1>1 DEF Frame
  <2>2. QED
    BY <2>1, NoCallFrame
<1> HIDE DEF g
<1>4. slot'.client = f.client /\ slot'.generation = slot.generation + 1
  BY <1>2
<1>5. /\ slot.generation \in Nat /\ f.client \in Nat /\ f.client < clients
      /\ slot.generation + 1 < clients /\ connected \subseteq {f.client}
  BY <1>1, ConstantTypes DEF IInv, Shared, Slots, Good, Frame
<1>6. Shared'
  <2>1. Slots'
    BY <1>2, <1>4, <1>5, ConstantTypes DEF IInv, Shared, Slots, outside, world
  <2>2. Counts'
    BY <1>2 DEF IInv, Shared, Counts, outside, world
  <2>3. QED
    BY <2>1, <2>2 DEF Shared
<1>7. worker' \in [Workers -> Frame]
  BY <1>2, <1>3 DEF Become, IInv
<1>8. ASSUME NEW v \in Workers PROVE Good(v, worker[v])'
  <2>1. worker'[v] = IF v = w THEN g ELSE worker[v]
    BY <1>2 DEF Become, IInv
  <2>2. Good(v, worker[v]) /\ worker[v] \in Frame
    BY DEF IInv
  <2>3. CASE v = w
    <3>1. clients \in Nat /\ clients' = clients
      BY <1>2 DEF outside, IInv, Shared, Slots
    <3>2. slot.generation + 1 # 0 /\ 0 <= slot.generation + 1 /\ 0 < clients
      BY <1>5, <3>1
    <3>3. g.generation < slot'.generation /\ g.client < clients'
      BY <1>3, <1>4, <1>5, <3>1, <3>2
    <3>4. QED
      BY <1>2, <1>3, <1>4, <1>5, <2>1, <2>3, <3>1, <3>3, ConstantTypes DEF Good
  <2>4. CASE v # w
    <3>1. worker[v].generation \in Int /\ worker[v].generation <= slot.generation
      BY <2>2, ConstantTypes DEF Good, Frame
    <3>2. worker[v].generation <= slot'.generation
          /\ worker[v].generation # slot'.generation
      BY <1>4, <1>5, <3>1
    <3>3. worker[v].pc \notin {"dial", "replace"}
      BY <1>1, <2>2, <2>4 DEF Good
    <3>4. QED
      BY <1>2, <2>1, <2>2, <2>4, <3>2, <3>3, ConstantTypes DEF Good, outside, world
  <2>5. QED
    BY <2>3, <2>4
<1>9. QED
  BY <1>6, <1>7, <1>8, SharedStep

-----------------------------------------------------------------------------

\* The clock only moves deadlines.
LEMMA TickStep ==
    ASSUME IInv, Tick
    PROVE  IInv'
<1>1. UNCHANGED <<clientVars, outside, world>>
  BY DEF Tick
<1>2. Shared'
  BY <1>1 DEF IInv, Shared, Slots, Counts, clientVars, outside, world
<1>3. ASSUME NEW v \in Workers
      PROVE  worker'[v] \in Frame /\ Good(v, worker'[v])
  <2> DEFINE f == worker[v]
             g == [f EXCEPT !.left = @ - 1]
  <2>1. f \in Frame /\ Good(v, f) /\ worker'[v] = IF f.left > 0 THEN g ELSE f
    BY DEF IInv, Tick
  <2>2. CASE f.left > 0
    <3>1. f.left - 1 \in (0..Budget) \cup {None}
      BY <2>1, <2>2, ConstantTypes DEF Frame, None
    <3>2. g \in Frame
      BY <2>1, <3>1 DEF Frame
    <3>3. /\ g.pc = f.pc /\ g.client = f.client /\ g.generation = f.generation
          /\ g.failure = f.failure /\ g.start = f.start /\ g.request = f.request
      BY <2>1 DEF Frame
    <3> HIDE DEF g
    <3>4. Good(v, g)
      BY <2>1, <3>2, <3>3 DEF Good
    <3>5. QED
      BY <2>1, <2>2, <3>2, <3>4
  <2>3. QED
    BY <2>1, <2>2
<1>4. worker' \in [Workers -> Frame]
  BY <1>3 DEF Tick
<1>5. ASSUME NEW v \in Workers PROVE Good(v, worker[v])'
  BY <1>1, <1>3 DEF Good, clientVars, outside, world
<1>6. QED
  BY <1>2, <1>4, <1>5, SharedStep

\* Steps that leave every worker where it is.
LEMMA RestStep ==
    ASSUME IInv, Watch \/ Cancel \/ Restore \/ GatewayUp \/ Loss
    PROVE  IInv'
<1>1. worker' = worker /\ slot' = slot /\ gate' = gate /\ clients' = clients
  BY DEF Watch, Cancel, Restore, GatewayUp, Loss, clientVars, outside, world
<1>2. /\ epoch \in Nat /\ notices \in Nat /\ clients \in Nat /\ faults \in Nat
      /\ faults \in 0..MaxFaults
      /\ clients <= faults + 1 /\ (connected = {} => clients <= faults)
      /\ epoch + notices <= faults /\ (~link => epoch + notices + 1 <= faults)
  BY ConstantTypes DEF IInv, Shared, Slots, Counts
<1>3. ASSUME NEW v \in Workers
      PROVE  worker[v].start \in Nat /\ worker[v] \in Frame /\ Good(v, worker[v])
  BY ConstantTypes DEF IInv, Frame
<1>4. CASE Watch
  <2>1. /\ notices > 0 /\ notices' = notices - 1 /\ epoch' = epoch + 1
        /\ connected' = connected /\ link' = link /\ gateway' = gateway
        /\ cancel' = cancel /\ faults' = faults
    BY <1>4 DEF Watch, world
  <2>2. Slots'
    BY <1>1, <1>2, <2>1 DEF IInv, Shared, Slots
  <2>3. Counts'
    BY <1>1, <1>2, <2>1 DEF Counts
  <2>4. ASSUME NEW v \in Workers PROVE Good(v, worker[v])'
    <3>1. epoch' + notices' = epoch + notices
      BY <1>2, <2>1
    <3>2. worker[v].start <= epoch => worker[v].start <= epoch'
      BY <1>2, <1>3, <2>1
    <3>3. QED
      BY <1>1, <1>3, <2>1, <3>1, <3>2 DEF Good
  <2>5. QED
    BY <1>1, <2>2, <2>3, <2>4, SharedStep DEF Shared, IInv
<1>5. CASE Cancel
  <2>1. cancel' = TRUE /\ UNCHANGED <<clientVars, outside, faults>>
    BY <1>5 DEF Cancel
  <2>2. Shared'
    BY <2>1 DEF IInv, Shared, Slots, Counts, clientVars, outside
  <2>3. ASSUME NEW v \in Workers PROVE Good(v, worker[v])'
    BY <1>1, <1>3, <2>1 DEF Good, clientVars, outside
  <2>4. QED
    BY <1>1, <2>2, <2>3, SharedStep DEF IInv
<1>6. CASE Restore
  <2>1. /\ ~link /\ link' = TRUE /\ epoch' = epoch /\ connected' = connected
        /\ gateway' = gateway /\ cancel' = cancel /\ faults' = faults
        /\ notices' = IF connected = {} THEN notices ELSE notices + 1
    BY <1>6 DEF Restore, clientVars, world
  <2>2. Slots'
    BY <1>1, <1>2, <2>1 DEF IInv, Shared, Slots
  <2>3. Counts'
    BY <1>1, <1>2, <2>1 DEF Counts
  <2>4. ASSUME NEW v \in Workers PROVE Good(v, worker[v])'
    <3>1. connected # {} /\ worker[v].start <= epoch => worker[v].start < epoch' + notices'
      BY <1>2, <1>3, <2>1
    <3>2. QED
      BY <1>1, <1>3, <2>1, <3>1 DEF Good
  <2>5. QED
    BY <1>1, <2>2, <2>3, <2>4, SharedStep DEF Shared, IInv
<1>7. CASE GatewayUp
  <2>1. gateway' = TRUE /\ UNCHANGED <<clientVars, connected, clients, link, notices, world>>
    BY <1>7 DEF GatewayUp
  <2>2. Shared'
    BY <2>1 DEF IInv, Shared, Slots, Counts, clientVars, world
  <2>3. ASSUME NEW v \in Workers PROVE Good(v, worker[v])'
    BY <1>1, <1>3, <2>1 DEF Good, clientVars, world
  <2>4. QED
    BY <1>1, <2>2, <2>3, SharedStep DEF IInv
<1>8. CASE Loss
  <2>1. /\ connected' = {} /\ notices' \in 0..notices /\ gateway' \in BOOLEAN
        /\ faults < MaxFaults /\ faults' = faults + 1 /\ epoch' = epoch
        /\ link' = link /\ cancel' = cancel
    BY <1>8 DEF Loss, Fault, clientVars, IInv, Shared, Slots
  <2>2. PICK m \in 0..notices : notices' = m
    BY <2>1
  <2>3. Slots'
    BY <1>1, <1>2, <2>1, <2>2 DEF IInv, Shared, Slots
  <2>4. Counts'
    BY <1>1, <1>2, <2>1, <2>2, ConstantTypes DEF Counts
  <2>5. ASSUME NEW v \in Workers PROVE Good(v, worker[v])'
    BY <1>1, <1>3, <2>1 DEF Good
  <2>6. QED
    BY <1>1, <2>3, <2>4, <2>5, SharedStep DEF Shared, IInv
<1>9. QED
  BY <1>4, <1>5, <1>6, <1>7, <1>8

\* While the link is down no request can be told from one that was lost.
LEMMA BlipStep ==
    ASSUME IInv, Blip
    PROVE  IInv'
<1>1. PICK W \in SUBSET Waiting : Mark(W, "lost")
  BY DEF Blip
<1>2. /\ link' = FALSE /\ faults < MaxFaults /\ faults' = faults + 1
      /\ slot' = slot /\ gate' = gate /\ epoch' = epoch /\ connected' = connected
      /\ clients' = clients /\ gateway' = gateway /\ notices' = notices /\ cancel' = cancel
  BY DEF Blip, Fault, clientVars
<1>3. /\ epoch \in Nat /\ notices \in Nat /\ clients \in Nat /\ faults \in Nat
      /\ clients <= faults + 1 /\ epoch + notices <= faults /\ MaxFaults \in Nat
      /\ (connected = {} => clients <= faults)
  BY ConstantTypes DEF IInv, Shared, Slots, Counts
<1>4. Slots'
  BY <1>2 DEF IInv, Shared, Slots
<1>5. Counts'
  BY <1>2, <1>3 DEF Counts
<1>6. worker' \in [Workers -> Frame]
  BY <1>1 DEF IInv, Mark, Frame, Requests
<1>7. ASSUME NEW v \in Workers PROVE Good(v, worker[v])'
  <2>1. worker'[v] = worker[v] \/ worker'[v] = [worker[v] EXCEPT !.request = "lost"]
    BY <1>1 DEF Mark
  <2>2. Good(v, worker[v]) /\ worker[v] \in Frame /\ worker'[v] \in Frame
    BY <1>6 DEF IInv
  <2>3. /\ worker'[v].pc = worker[v].pc /\ worker'[v].client = worker[v].client
        /\ worker'[v].generation = worker[v].generation
        /\ worker'[v].failure = worker[v].failure /\ worker'[v].start = worker[v].start
    BY <2>1, <2>2 DEF Frame
  <2>4. QED
    BY <1>2, <2>2, <2>3 DEF Good
<1>8. QED
  BY <1>4, <1>5, <1>6, <1>7, SharedStep DEF Shared

\* A rejected request for the head.
LEMMA RejectHeadStep ==
    ASSUME IInv, NEW w \in Workers, RejectHead(w)
    PROVE  IInv'
<1> DEFINE g == [NoCall EXCEPT !.pc = "error"]
<1>1. /\ UNCHANGED <<clientVars, connected, clients, link, gateway, notices, cancel>>
      /\ faults < MaxFaults /\ faults' = faults + 1
  BY DEF RejectHead, Fault, outside
<1>2. Shared' /\ Shared
  BY <1>1, FaultCounts DEF IInv
<1>3. gate # w
  BY NoGate DEF RejectHead, At
<1>4. g \in Frame /\ g.client = 0 /\ g.generation = 0 /\ g.pc = "error"
  <2>1. None \in (0..Budget) \cup {None}
    OBVIOUS
  <2>2. QED
    BY <2>1, NoCallFrame
<1>5. worker' = [worker EXCEPT ![w] = g]
  BY DEF RejectHead, Leave, Become
<1> HIDE DEF g
<1>6. Good(w, g)
  BY <1>2, <1>3, <1>4, NoCallGood
<1>7. worker' \in [Workers -> Frame]
  BY <1>4, <1>5 DEF IInv
<1>8. ASSUME NEW v \in Workers PROVE Good(v, worker[v])'
  <2>1. worker'[v] = IF v = w THEN g ELSE worker[v]
    BY <1>5 DEF IInv
  <2>2. Good(v, worker'[v])
    BY <1>6, <2>1 DEF IInv
  <2>3. QED
    BY <1>1, <2>2 DEF Good, clientVars
<1>9. QED
  BY <1>2, <1>7, <1>8, SharedStep

\* TWS answers, wedges, resets or rejects.
LEMMA TwsStep ==
    ASSUME IInv,
           Reset \/ \E w \in Workers : Complete(w) \/ Wedge(w) \/ Reject(w) \/ RejectHead(w)
    PROVE  IInv'
<1>1. CASE Reset
  <2>1. PICK W \in SUBSET Workers : Mark(W, "reset")
    BY <1>1 DEF Reset
  <2>2. /\ UNCHANGED <<clientVars, connected, clients, link, gateway, notices, cancel>>
        /\ faults < MaxFaults /\ faults' = faults + 1
    BY <1>1 DEF Reset, Fault, outside
  <2>3. QED
    BY <2>1, <2>2, MarkStep DEF Requests
<1>2. ASSUME NEW w \in Workers, Complete(w) PROVE IInv'
  <2>1. Mark({w}, "done")
    BY <1>2 DEF Complete
  <2>2. /\ UNCHANGED <<clientVars, connected, clients, link, gateway, notices, cancel>>
        /\ faults' = faults
    BY <1>2 DEF Complete, outside, world
  <2>3. QED
    BY <2>1, <2>2, MarkStep DEF Requests
<1>3. ASSUME NEW w \in Workers, Wedge(w) PROVE IInv'
  <2>1. Mark({w}, "wedged")
    BY <1>3 DEF Wedge
  <2>2. /\ UNCHANGED <<clientVars, connected, clients, link, gateway, notices, cancel>>
        /\ faults < MaxFaults /\ faults' = faults + 1
    BY <1>3 DEF Wedge, Fault, outside
  <2>3. QED
    BY <2>1, <2>2, MarkStep DEF Requests
<1>4. ASSUME NEW w \in Workers, Reject(w) PROVE IInv'
  <2>1. PICK why \in {"competing", "refused"} : Fault(why) /\ Fail(w, why)
    BY <1>4 DEF Reject
  <2> DEFINE g == [worker[w] EXCEPT !.pc = "failed", !.failure = why,
                                    !.request = "none", !.silence = 0, !.start = 0]
  <2>2. Good(w, g)
    BY <1>4, FailGood DEF Reject, At, Failures
  <2>3. worker' = [worker EXCEPT ![w] = g]
    BY <2>1 DEF Fail, Become
  <2>4. g \in Frame
    BY <2>2 DEF Good
  <2> HIDE DEF g
  <2>5. /\ UNCHANGED <<clientVars, connected, clients, link, gateway, notices, cancel>>
        /\ faults < MaxFaults /\ faults' = faults + 1
    BY <1>4, <2>1 DEF Reject, Fault, outside
  <2>6. Shared'
    BY <2>5, FaultCounts
  <2>7. worker' \in [Workers -> Frame]
    BY <2>3, <2>4 DEF IInv
  <2>8. ASSUME NEW v \in Workers PROVE Good(v, worker[v])'
    <3>1. worker'[v] = IF v = w THEN g ELSE worker[v]
      BY <2>3 DEF IInv
    <3>2. Good(v, worker'[v])
      BY <2>2, <3>1 DEF IInv
    <3>3. QED
      BY <2>5, <3>2 DEF Good, clientVars
  <2>9. QED
    BY <2>6, <2>7, <2>8, SharedStep
<1>5. QED
  BY <1>1, <1>2, <1>3, <1>4, RejectHeadStep

-----------------------------------------------------------------------------

\* At the start there is one client, connected, and nobody uses it.
LEMMA InitGood == Init => IInv
<1> SUFFICES ASSUME Init PROVE IInv
  OBVIOUS
<1>1. Slots /\ Counts
  <2>1. slot.client = 0 /\ slot.generation = 0 /\ slot \in [client: Nat, generation: Nat]
    BY DEF Init
  <2>2. connected \subseteq 0..(clients - 1) /\ connected \subseteq {slot.client}
    BY <2>1 DEF Init
  <2>3. /\ epoch \in Nat /\ notices \in Nat /\ clients \in Nat
        /\ slot.client < clients /\ slot.generation < clients
    BY <2>1 DEF Init
  <2>4. Slots
    <3>1. /\ gate = Nobody
          /\ link \in BOOLEAN /\ gateway \in BOOLEAN /\ cancel \in BOOLEAN
      BY Zenon DEF Init
    <3>2. QED
      BY <2>1, <2>2, <2>3, <3>1 DEF Slots
  <2>5. Counts
    BY ConstantTypes DEF Init, Counts
  <2>6. QED
    BY <2>4, <2>5
<1>2. Shared
  BY <1>1 DEF Shared
<1>3. ASSUME NEW v \in Workers
      PROVE  worker[v] \in Frame /\ Good(v, worker[v])
  <2> DEFINE label == IF v \in NeedsHead THEN "head" ELSE "between"
             f == [NoCall EXCEPT !.pc = label]
  <2>1. worker[v] = f
    BY DEF Init
  <2>2. f \in Frame /\ f.client = 0 /\ f.generation = 0 /\ f.pc = label
    <3>1. None \in (0..Budget) \cup {None}
      OBVIOUS
    <3>2. label \in {"head", "between", "pace", "stopped", "error"}
      OBVIOUS
    <3> HIDE DEF label
    <3>3. QED
      BY <3>1, <3>2, NoCallFrame
  <2>3. gate # v
    BY ConstantTypes DEF Init
  <2> HIDE DEF f
  <2>4. Good(v, f)
    BY <1>2, <2>2, <2>3, NoCallGood
  <2>5. QED
    BY <2>1, <2>2, <2>4
<1>4. worker \in [Workers -> Frame]
  BY <1>3 DEF Init
<1>5. QED
  BY <1>2, <1>3, <1>4 DEF IInv

\* Every step of a worker, the watcher or the outside keeps the invariant.
LEMMA NextGood == IInv /\ [Next]_vars => IInv'
<1> SUFFICES ASSUME IInv, [Next]_vars PROVE IInv'
  OBVIOUS
<1>1. CASE UNCHANGED vars
  BY <1>1 DEF vars, IInv, Shared, Slots, Counts, Good, clientVars, outside, world
<1>2. ASSUME NEW w \in Workers, Step(w) PROVE IInv'
  <2>1. CASE HeadFails(w) \/ HeadArrives(w) \/ NextRequest(w)
    <3>1. gate # w /\ UNCHANGED <<clientVars, outside, world>>
      BY <2>1, NoGate DEF HeadFails, HeadArrives, NextRequest, At
    <3>2. QED
      BY <2>1, <3>1, LeaveStep DEF HeadFails, HeadArrives, NextRequest
  <2>2. CASE AskHead(w)
    BY <2>2, HeadStep
  <2>3. CASE Snapshot(w)
    BY <2>3, SnapshotStep
  <2>4. CASE LoadEpoch(w)
    BY <2>4, LoadEpochStep
  <2>5. CASE Issue(w)
    BY <2>5, IssueStep
  <2>6. CASE Answered(w) \/ ReadError(w) \/ Silent(w)
    BY <2>6, WaitStep
  <2>7. CASE Recover(w)
    BY <2>7, RecoverStep
  <2>8. CASE EnterGate(w)
    BY <2>8, EnterGateStep
  <2>9. CASE Dial(w)
    BY <2>9, DialStep
  <2>10. CASE DialFails(w)
    BY <2>10, DialFailsStep
  <2>11. CASE Replace(w)
    BY <2>11, ReplaceStep
  <2>12. QED
    BY <1>2, <2>1, <2>2, <2>3, <2>4, <2>5, <2>6, <2>7, <2>8, <2>9, <2>10, <2>11 DEF Step
<1>3. CASE Watch \/ Cancel \/ Restore \/ GatewayUp \/ Loss
  BY <1>3, RestStep
<1>4. CASE Blip
  BY <1>4, BlipStep
<1>5. CASE Tick
  BY <1>5, TickStep
<1>6. ASSUME NEW w \in Workers, Progress(w) PROVE IInv'
  BY <1>6, WaitStep
<1>7. CASE Reset \/ \E w \in Workers : Complete(w) \/ Wedge(w) \/ Reject(w) \/ RejectHead(w)
  BY <1>7, TwsStep
<1>8. QED
  BY <1>1, <1>2, <1>3, <1>4, <1>5, <1>6, <1>7 DEF Next, Outside, Over

\* The shared client, the gate, the epoch and every worker's frame stay in order.
THEOREM SessionInvariant == Spec => []IInv
  BY InitGood, NextGood, PTL DEF Spec

\* Every variable keeps its type for any number of workers and faults: the
\* generation of ClientSlot and the restore counter are bounded by the faults.
THEOREM SessionTypes == Spec => []TypeOK
<1>1. IInv => TypeOK
  <2> SUFFICES ASSUME IInv PROVE TypeOK
    OBVIOUS
  <2>1. /\ MaxFaults \in Nat /\ faults \in 0..MaxFaults /\ clients \in Nat
        /\ slot \in [client: Nat, generation: Nat]
        /\ slot.client < clients /\ slot.generation < clients
        /\ clients <= faults + 1 /\ epoch \in Nat /\ notices \in Nat
        /\ epoch + notices <= faults /\ connected \subseteq 0..(clients - 1)
    BY ConstantTypes DEF IInv, Shared, Slots, Counts
  <2>2. /\ clients \in 1..(MaxFaults + 1) /\ epoch \in 0..MaxFaults
        /\ notices \in 0..MaxFaults /\ connected \subseteq 0..MaxFaults
    BY <2>1
  <2>3. slot \in [client: 0..MaxFaults, generation: 0..MaxFaults]
    <3>1. slot.client \in 0..MaxFaults /\ slot.generation \in 0..MaxFaults
      BY <2>1
    <3>2. QED
      BY <2>1, <3>1
  <2>4. QED
    BY <2>1, <2>2, <2>3 DEF TypeOK, IInv, Shared, Slots
<1>2. QED
  BY <1>1, SessionInvariant, PTL

\* No worker ever dials while a client of this process is connected, so a
\* reconnect never collides with its own client id (replace_if_generation).
THEOREM NoOwnCollision == Spec => []NoSelfCollision
<1>1. IInv => NoSelfCollision
  BY DEF IInv, Good, NoSelfCollision, At
<1>2. QED
  BY <1>1, SessionInvariant, PTL

\* However many workers lose the client, one replacement is made and none is
\* left behind.
THEOREM OneClient == Spec => []OneLiveClient
<1>1. IInv => OneLiveClient
  <2> SUFFICES ASSUME IInv, NEW c \in connected, c # slot.client
               PROVE  \E w \in Workers : gate = w /\ At(w, "replace") /\ worker[w].client = c
    BY DEF OneLiveClient
  <2>1. gate \in Workers
    BY DEF IInv, Shared, Slots
  <2>2. Good(gate, worker[gate])
    BY <2>1 DEF IInv
  <2>3. worker[gate].pc = "replace" /\ worker[gate].client = c
    BY <2>2 DEF Good
  <2>4. QED
    BY <2>1, <2>3 DEF At
<1>2. QED
  BY <1>1, SessionInvariant, PTL

\* Once the link is back and the watcher has read every notice, a request that
\* a blip dropped shows: its start_epoch is older than the counter.
THEOREM OrphansShow == Spec => []OrphanShows
<1>1. IInv => OrphanShows
  <2> SUFFICES ASSUME IInv, link, notices = 0, NEW w \in Workers, At(w, "wait"),
                      Healthy(w), worker[w].request = "lost"
               PROVE  worker[w].start < epoch
    BY DEF OrphanShows
  <2>1. worker[w].start < epoch + notices /\ epoch \in Nat
    BY DEF IInv, Good, At, Healthy, Shared, Slots
  <2>2. QED
    BY <2>1
<1>2. QED
  BY <1>1, SessionInvariant, PTL

-----------------------------------------------------------------------------

\* A worker that has not given up, nor will for what it was told so far.
Persists(f) == f.pc \notin {"error", "head", "headwait"} /\ f.failure # "refused"

Persistent == \A w \in Workers : Persists(worker[w])

\* Without a budget, a head or a fatal rejection, no step leads to giving up.
LEMMA PersistentStep ==
    ASSUME Budget = -1, "refused" \notin Faults, IInv, Persistent, [Next]_vars
    PROVE  Persistent'
<1>1. \A v \in Workers : worker[v] \in Frame /\ Good(v, worker[v]) /\ Persists(worker[v])
  BY DEF IInv, Persistent
<1>2. worker \in [Workers -> Frame]
  BY DEF IInv
<1>3. ASSUME NEW w \in Workers, NEW g, Persists(g), Become(w, g)
      PROVE  Persistent'
  BY <1>1, <1>2, <1>3 DEF Become, Persistent, Persists
<1>4. ASSUME worker' = worker PROVE Persistent'
  BY <1>4 DEF Persistent, Persists
<1>5. ASSUME NEW w \in Workers, NEW label \in {"between", "pace", "stopped"}, Leave(w, label)
      PROVE  Persistent'
  <2>1. Persists([NoCall EXCEPT !.pc = label])
    BY DEF Persists, NoCall
  <2>2. QED
    BY <1>3, <1>5, <2>1 DEF Leave
<1>6. ASSUME NEW w \in Workers, NEW left, Retry(w, left)
      PROVE  Persistent'
  <2>1. Persists([NoCall EXCEPT !.pc = "pace", !.left = left])
    BY DEF Persists, NoCall
  <2>2. QED
    BY <1>3, <1>6, <2>1 DEF Retry
<1>7. ASSUME NEW w \in Workers, NEW why \in Failures \ {"refused"}, Fail(w, why)
      PROVE  Persistent'
  <2>1. Persists([worker[w] EXCEPT !.pc = "failed", !.failure = why,
                                   !.request = "none", !.silence = 0, !.start = 0])
    BY <1>1 DEF Persists, Frame
  <2>2. QED
    BY <1>3, <1>7, <2>1 DEF Fail
<1>8. ASSUME NEW W \in SUBSET Workers, NEW request, Mark(W, request)
      PROVE  Persistent'
  <2>1. ASSUME NEW v \in Workers PROVE Persists(worker'[v])
    BY <1>1, <1>8 DEF Mark, Persists, Frame
  <2>2. QED
    BY <2>1 DEF Persistent, Persists
<1>9. ASSUME NEW w \in Workers, Step(w) PROVE Persistent'
  <2>1. CASE AskHead(w) \/ HeadFails(w) \/ HeadArrives(w)
    BY <1>1, <2>1 DEF AskHead, HeadFails, HeadArrives, At, Persists
  <2>2. CASE NextRequest(w) \/ Answered(w)
    BY <1>5, <2>2 DEF NextRequest, Answered
  <2>3. CASE Snapshot(w)
    <3>1. CASE cancel
      BY <1>5, <2>3, <3>1 DEF Snapshot
    <3>2. CASE ~cancel
      <4> DEFINE g == [worker[w] EXCEPT !.pc = "subscribe", !.client = slot.client,
                                        !.generation = slot.generation]
      <4>1. Become(w, g)
        BY <2>3, <3>2 DEF Snapshot
      <4>2. Persists(g)
        BY <1>1 DEF Persists, Frame
      <4>3. QED
        BY <1>3, <4>1, <4>2
    <3>3. QED
      BY <3>1, <3>2
  <2>4. CASE LoadEpoch(w)
    <3> DEFINE g == [worker[w] EXCEPT !.pc = "issue", !.start = epoch]
    <3>1. Become(w, g)
      BY <1>2, <2>4 DEF LoadEpoch, Become, Frame
    <3>2. Persists(g)
      BY <1>1 DEF Persists, Frame
    <3>3. QED
      BY <1>3, <3>1, <3>2
  <2>5. CASE Issue(w)
    <3>1. CASE Healthy(w)
      <4>1. PICK r \in {"open", "lost"} :
                Become(w, [worker[w] EXCEPT !.pc = "wait", !.request = r])
        BY <2>5, <3>1 DEF Issue
      <4>2. Persists([worker[w] EXCEPT !.pc = "wait", !.request = r])
        BY <1>1 DEF Persists, Frame
      <4>3. QED
        BY <1>3, <4>1, <4>2
    <3>2. CASE ~Healthy(w)
      BY <1>7, <2>5, <3>2 DEF Issue, Failures
    <3>3. QED
      BY <3>1, <3>2
  <2>6. CASE ReadError(w)
    BY <1>7, <2>6 DEF ReadError, Failures
  <2>7. CASE Silent(w)
    <3> DEFINE n == IF worker[w].silence < StallPolls
                    THEN worker[w].silence + 1 ELSE StallPolls
    <3>1. CASE worker' = [worker EXCEPT ![w].silence = n]
      <4> HIDE DEF n
      <4>1. Become(w, [worker[w] EXCEPT !.silence = n])
        BY <1>2, <3>1 DEF Become, Frame
      <4>2. Persists([worker[w] EXCEPT !.silence = n])
        BY <1>1 DEF Persists, Frame
      <4>3. QED
        BY <1>3, <4>1, <4>2
    <3>2. CASE Fail(w, "canceled") \/ Fail(w, "orphaned") \/ Fail(w, "stalled")
      BY <1>7, <3>2 DEF Failures
    <3>3. QED
      BY <2>7, <3>1, <3>2 DEF Silent
  <2>8. CASE Recover(w)
    <3> DEFINE f == worker[w]
               left == IF Budget > 0 /\ f.left = None THEN Budget ELSE f.left
    <3>1. f.pc = "failed" /\ f.failure \in Failures \ {"none", "refused"}
          /\ (f.failure = "canceled" => cancel)
      BY <1>1, <2>8 DEF Recover, At, Good, Frame, Persists
    <3>2. left # 0 /\ Budget # 0
      BY <1>1 DEF Frame, None
    <3>3. CASE cancel
      BY <1>5, <2>8, <3>3 DEF Recover
    <3>4. CASE Retry(w, left)
      BY <1>6, <3>4
    <3>5. CASE worker' = [worker EXCEPT ![w].pc = "gate", ![w].left = left]
      <4> HIDE DEF left
      <4>1. Become(w, [f EXCEPT !.pc = "gate", !.left = left])
        BY <1>2, <3>5 DEF Become, Frame
      <4>2. Persists([f EXCEPT !.pc = "gate", !.left = left])
        BY <1>1 DEF Persists, Frame
      <4>3. QED
        BY <1>3, <4>1, <4>2
    <3>6. ~cancel => RecoveryAction(f.failure) # "none"
      BY <3>1 DEF RecoveryAction, Failures
    <3>7. QED
      BY <2>8, <3>2, <3>3, <3>4, <3>5, <3>6 DEF Recover
  <2>9. CASE EnterGate(w)
    <3>1. CASE Goto(w, "dial")
      <4>1. Become(w, [worker[w] EXCEPT !.pc = "dial"])
        BY <1>2, <3>1 DEF Goto, Become, Frame
      <4>2. Persists([worker[w] EXCEPT !.pc = "dial"])
        BY <1>1 DEF Persists, Frame
      <4>3. QED
        BY <1>3, <4>1, <4>2
    <3>2. QED
      BY <1>6, <2>9, <3>1 DEF EnterGate
  <2>10. CASE Dial(w)
    <3>1. Become(w, [worker[w] EXCEPT !.pc = "replace", !.client = clients])
      BY <1>2, <2>10 DEF Dial, Become, Frame
    <3>2. Persists([worker[w] EXCEPT !.pc = "replace", !.client = clients])
      BY <1>1 DEF Persists, Frame
    <3>3. QED
      BY <1>3, <3>1, <3>2
  <2>11. CASE DialFails(w) \/ Replace(w)
    BY <1>6, <2>11 DEF DialFails, Replace
  <2>12. QED
    BY <1>9, <2>1, <2>2, <2>3, <2>4, <2>5, <2>6, <2>7, <2>8, <2>9, <2>10, <2>11 DEF Step
<1>10. CASE Watch \/ Cancel \/ Restore \/ Loss \/ GatewayUp \/ UNCHANGED vars
  BY <1>4, <1>10 DEF Watch, Cancel, Restore, Loss, GatewayUp, vars
<1>11. CASE Blip
  BY <1>8, <1>11 DEF Blip, Waiting
<1>12. CASE Reset
  BY <1>8, <1>12 DEF Reset
<1>13. CASE Tick
  <2>1. ASSUME NEW v \in Workers PROVE Persists(worker'[v])
    BY <1>1, <1>13 DEF Tick, Persists, Frame
  <2>2. QED
    BY <2>1 DEF Persistent, Persists
<1>14. ASSUME NEW w \in Workers,
              Progress(w) \/ Complete(w) \/ Wedge(w) \/ Reject(w) \/ RejectHead(w)
       PROVE  Persistent'
  <2>1. CASE Progress(w)
    <3>1. Become(w, [worker[w] EXCEPT !.silence = 0])
      BY <1>2, <2>1 DEF Progress, Become, Frame
    <3>2. Persists([worker[w] EXCEPT !.silence = 0])
      BY <1>1 DEF Persists, Frame
    <3>3. QED
      BY <1>3, <3>1, <3>2
  <2>2. CASE Complete(w) \/ Wedge(w)
    BY <1>8, <2>2 DEF Complete, Wedge
  <2>3. CASE Reject(w)
    BY <1>7, <2>3 DEF Reject, Fault, Failures
  <2>4. CASE RejectHead(w)
    BY <1>1, <2>4 DEF RejectHead, At, Persists
  <2>5. QED
    BY <1>14, <2>1, <2>2, <2>3, <2>4
<1>15. QED
  BY <1>9, <1>10, <1>11, <1>12, <1>13, <1>14 DEF Next, Outside, Over

\* With unlimited retries, no fatal rejection, and no head to ask for first, no
\* worker ever gives its symbol up, whatever the outside does and however often
\* (fetch_with_recovery with reconnect_timeout_seconds = -1).
THEOREM NoneAbandoned ==
    ASSUME Budget = -1, "refused" \notin Faults, NeedsHead = {}
    PROVE  Spec => []NeverAbandoned
<1>1. Init => Persistent
  BY DEF Init, Persistent, Persists, NoCall
<1>2. IInv /\ Persistent /\ [Next]_vars => Persistent'
  BY PersistentStep
<1>3. Persistent => NeverAbandoned
  BY DEF Persistent, Persists, NeverAbandoned, At
<1>4. QED
  BY <1>1, <1>2, <1>3, SessionInvariant, PTL DEF Spec
=============================================================================
