----------------------------- MODULE IbkrSession -----------------------------
(***************************************************************************)
(* One logical request, the way a worker keeps at it: fetch_with_recovery, *)
(* IbkrProvider::historical_trade_ticks and the ClientSlot all workers     *)
(* share.  TWS, its link to the IBKR servers and the API socket are        *)
(* external; they answer, drop, reset and refuse as ibkr.rs and the README *)
(* describe, at most MaxFaults times.                                      *)
(***************************************************************************)
EXTENDS Integers, FiniteSets

CONSTANTS
    Workers,
    Nobody,         \* holds the gate when no worker does
    NeedsHead,      \* the workers whose symbol has neither a file nor a start
    StallPolls,     \* stall_timeout in polls of POLL_INTERVAL; 0 disables it
    Budget,         \* reconnect_timeout_seconds: -1, 0 or a number of ticks
    Faults,         \* what the outside may do
    MaxFaults       \* bound: how often it may

FaultKinds == {"blip", "wedge", "reset", "loss", "outage", "competing", "refused"}

ASSUME SessionAssumption ==
    /\ IsFiniteSet(Workers)
    /\ Nobody \notin Workers
    /\ NeedsHead \subseteq Workers
    /\ StallPolls \in Nat
    /\ Budget \in Nat \cup {-1}
    /\ Faults \subseteq FaultKinds
    /\ MaxFaults \in Nat

VARIABLES
    slot,        \* ClientSlot.state: the shared client and its generation
    gate,        \* ClientSlot.reconnect_gate: who holds it
    epoch,       \* IbkrProvider.connectivity
    worker,      \* each worker's call stack, see Frame
    connected,   \* external: the clients whose API socket is alive
    clients,     \* external: clients made so far, which also names the next
    link,        \* external: TWS reaches the IBKR servers
    gateway,     \* external: TWS accepts API connections
    notices,     \* restore notices the watcher has not read yet
    cancel,      \* the CancellationToken
    faults       \* faults so far (for the bound)

clientVars == <<slot, gate, epoch>>
outside == <<connected, clients, link, gateway, notices>>
world == <<cancel, faults>>
vars == <<clientVars, worker, outside, world>>

None == -1

Ended == {"stopped", "error"}
PC == Ended \cup {"head", "headwait", "between", "pace", "subscribe", "issue",
                  "wait", "failed", "gate", "dial", "replace"}
Requests == {"none", "open", "lost", "wedged", "reset", "done"}
Failures == {"none", "canceled", "orphaned", "stalled", "reset", "io",
             "competing", "refused"}

Frame ==
    [pc: PC,
     client: 0..(MaxFaults + 1),       \* of the snapshot, or just connected
     generation: 0..(MaxFaults + 1),   \* of the snapshot
     start: 0..MaxFaults,              \* start_epoch
     request: Requests,                \* external: what became of the request
     silence: 0..StallPolls,           \* polls since last_progress
     failure: Failures,                \* why the last attempt failed
     left: (0..Budget) \cup {None}]    \* retry_deadline, as time left to it

TypeOK ==
    /\ slot \in [client: 0..MaxFaults, generation: 0..MaxFaults]
    /\ gate \in Workers \cup {Nobody}
    /\ epoch \in 0..MaxFaults
    /\ worker \in [Workers -> Frame]
    /\ connected \subseteq 0..MaxFaults
    /\ clients \in 1..(MaxFaults + 1)
    /\ link \in BOOLEAN
    /\ gateway \in BOOLEAN
    /\ notices \in 0..MaxFaults
    /\ cancel \in BOOLEAN
    /\ faults \in 0..MaxFaults

NoCall == [pc |-> "between", client |-> 0, generation |-> 0, start |-> 0,
           request |-> "none", silence |-> 0, failure |-> "none",
           left |-> None]

Init ==
    /\ slot = [client |-> 0, generation |-> 0]
    /\ gate = Nobody
    /\ epoch = 0
    /\ worker = [w \in Workers |->
                    [NoCall EXCEPT !.pc = IF w \in NeedsHead THEN "head" ELSE "between"]]
    /\ connected = {0}
    /\ clients = 1
    /\ link = TRUE
    /\ gateway = TRUE
    /\ notices = 0
    /\ cancel = FALSE
    /\ faults = 0

At(w, label) == worker[w].pc = label
Become(w, frame) == worker' = [worker EXCEPT ![w] = frame]
Goto(w, label) == worker' = [worker EXCEPT ![w].pc = label]
\* The worker leaves the call with nothing but its outcome.
Leave(w, label) == Become(w, [NoCall EXCEPT !.pc = label])
\* The next attempt starts from what the call keeps: its deadline.
Retry(w, left) == Become(w, [NoCall EXCEPT !.pc = "pace", !.left = left])
\* The attempt returns an error; its locals are gone, the call's stay.
Fail(w, why) ==
    Become(w, [worker[w] EXCEPT !.pc = "failed", !.failure = why,
                                !.request = "none", !.silence = 0, !.start = 0])

Healthy(w) == worker[w].client \in connected

-----------------------------------------------------------------------------
(* Around the request.                                                     *)

\* Without a file and a start, the head is asked for first: one attempt, on
\* the client of the moment, with no recovery.
AskHead(w) ==
    /\ At(w, "head")
    /\ IF cancel
       THEN Leave(w, "stopped")
       ELSE \E r \in IF link THEN {"open"} ELSE {"open", "lost"} :
                Become(w, [worker[w] EXCEPT !.pc = "headwait", !.client = slot.client,
                                            !.generation = slot.generation,
                                            !.request = r])
    /\ UNCHANGED <<clientVars, outside, world>>
HeadFails(w) ==
    /\ At(w, "headwait")
    /\ ~Healthy(w) \/ worker[w].request = "reset"
    /\ Leave(w, "error")
    /\ UNCHANGED <<clientVars, outside, world>>
HeadArrives(w) ==
    /\ At(w, "headwait")
    /\ worker[w].request = "done"
    /\ Leave(w, "between")
    /\ UNCHANGED <<clientVars, outside, world>>

\* The batch loop asks for the next batch, or sees the cancellation.
NextRequest(w) ==
    /\ At(w, "between")
    /\ IF cancel THEN Leave(w, "stopped") ELSE Leave(w, "pace")
    /\ UNCHANGED <<clientVars, outside, world>>

-----------------------------------------------------------------------------
(* One attempt: historical_trade_ticks.                                    *)

\* The pacer lets the attempt through; it takes the client of the moment.
Snapshot(w) ==
    /\ At(w, "pace")
    /\ IF cancel
       THEN Leave(w, "stopped")
       ELSE Become(w, [worker[w] EXCEPT !.pc = "subscribe",
                                        !.client = slot.client,
                                        !.generation = slot.generation])
    /\ UNCHANGED <<clientVars, outside, world>>

\* start_epoch is read before the request is sent.
LoadEpoch(w) ==
    /\ At(w, "subscribe")
    /\ worker' = [worker EXCEPT ![w].pc = "issue", ![w].start = epoch]
    /\ UNCHANGED <<clientVars, outside, world>>

\* The request goes out.  On a dead socket that is an error at once; without a
\* link TWS may take it and drop it.
Issue(w) ==
    /\ At(w, "issue")
    /\ IF Healthy(w)
       THEN \E r \in IF link THEN {"open"} ELSE {"open", "lost"} :
                Become(w, [worker[w] EXCEPT !.pc = "wait", !.request = r])
       ELSE Fail(w, "io")
    /\ UNCHANGED <<clientVars, outside, world>>

\* A data tick or a notice comes in.
Progress(w) ==
    /\ At(w, "wait")
    /\ worker[w].request = "open"
    /\ Healthy(w) /\ link
    /\ worker[w].silence > 0
    /\ worker' = [worker EXCEPT ![w].silence = 0]
    /\ UNCHANGED <<clientVars, outside, world>>

\* The stream ends: a poll returns None at once.
Answered(w) ==
    /\ At(w, "wait")
    /\ worker[w].request = "done"
    /\ Leave(w, "between")
    /\ UNCHANGED <<clientVars, outside, world>>

\* A poll ends with an error: the socket is gone, or ibapi reconnected it.
ReadError(w) ==
    /\ At(w, "wait")
    /\ \/ ~Healthy(w) /\ worker[w].request # "done" /\ Fail(w, "io")
       \/ worker[w].request = "reset" /\ Fail(w, "reset")
    /\ UNCHANGED <<clientVars, outside, world>>

\* Seeded faults: a poll that comes back empty is only checked for an orphan;
\* for everything but cancellation.
SilentUnlessOrphaned(w) ==
    /\ At(w, "wait")
    /\ \/ cancel /\ Fail(w, "canceled")
       \/ ~cancel /\ epoch # worker[w].start /\ Fail(w, "orphaned")
    /\ UNCHANGED <<clientVars, outside, world>>
SilentUncancelled(w) ==
    /\ At(w, "wait")
    /\ LET silence == IF worker[w].silence < StallPolls
                      THEN worker[w].silence + 1 ELSE StallPolls
       IN  IF epoch # worker[w].start THEN Fail(w, "orphaned")
           ELSE IF StallPolls > 0 /\ silence >= StallPolls THEN Fail(w, "stalled")
           ELSE worker' = [worker EXCEPT ![w].silence = silence]
    /\ UNCHANGED <<clientVars, outside, world>>

\* A whole POLL_INTERVAL passes without a message.  That also happens once to
\* a stream whose end comes late in the interval.
Silent(w) ==
    /\ At(w, "wait")
    /\ LET silence == IF worker[w].silence < StallPolls
                      THEN worker[w].silence + 1 ELSE StallPolls
       IN  IF cancel THEN Fail(w, "canceled")
           ELSE IF epoch # worker[w].start THEN Fail(w, "orphaned")
           ELSE IF StallPolls > 0 /\ silence >= StallPolls THEN Fail(w, "stalled")
           ELSE worker' = [worker EXCEPT ![w].silence = silence]
    /\ UNCHANGED <<clientVars, outside, world>>

-----------------------------------------------------------------------------
(* What follows a failed attempt: fetch_with_recovery and ClientSlot.      *)

\* Seeded faults: a stalled request rebuilds the client; 10187 is fatal.
StallReconnects(failure) ==
    CASE failure \in {"reset", "orphaned", "competing"} -> "retry"
      [] failure \in {"io", "stalled"} -> "reconnect"
      [] OTHER -> "none"
CompetingIsFatal(failure) ==
    CASE failure \in {"reset", "orphaned", "stalled"} -> "retry"
      [] failure = "io" -> "reconnect"
      [] OTHER -> "none"

\* classify_recovery.
RecoveryAction(failure) ==
    CASE failure \in {"reset", "orphaned", "stalled", "competing"} -> "retry"
      [] failure = "io" -> "reconnect"
      [] OTHER -> "none"

\* Seeded fault: the retry deadline is set anew by every failure.
RecoverAnew(w) ==
    /\ At(w, "failed")
    /\ LET action == RecoveryAction(worker[w].failure)
           left == IF Budget > 0 THEN Budget ELSE worker[w].left
       IN  IF cancel THEN Leave(w, "stopped")
           ELSE IF action = "none" \/ Budget = 0 \/ left = 0 THEN Leave(w, "error")
           ELSE IF action = "retry" THEN Retry(w, left)
           ELSE worker' = [worker EXCEPT ![w].pc = "gate", ![w].left = left]
    /\ UNCHANGED <<clientVars, outside, world>>

\* What fetch_with_recovery makes of a failure: the end of the call, or another
\* attempt before the deadline that the first of its failures has set.
Recover(w) ==
    /\ At(w, "failed")
    /\ LET action == RecoveryAction(worker[w].failure)
           left == IF Budget > 0 /\ worker[w].left = None
                   THEN Budget ELSE worker[w].left
       IN  IF cancel THEN Leave(w, "stopped")
           ELSE IF action = "none" \/ Budget = 0 \/ left = 0 THEN Leave(w, "error")
           ELSE IF action = "retry" THEN Retry(w, left)
           ELSE worker' = [worker EXCEPT ![w].pc = "gate", ![w].left = left]
    /\ UNCHANGED <<clientVars, outside, world>>

\* replace_if_generation: one worker at a time, and only if nobody else has
\* replaced the client this worker's attempt ran on.
EnterGate(w) ==
    /\ At(w, "gate")
    /\ gate = Nobody
    /\ IF slot.generation = worker[w].generation
       THEN gate' = w /\ Goto(w, "dial")
       ELSE gate' = gate /\ Retry(w, worker[w].left)
    /\ UNCHANGED <<slot, epoch, outside, world>>

\* connect().  TWS refuses while it is down, and while another live connection
\* has this client_id.  A refused connection is retried like any failure.
Dial(w) ==
    /\ At(w, "dial")
    /\ gateway /\ connected = {}
    /\ worker' = [worker EXCEPT ![w].pc = "replace", ![w].client = clients]
    /\ connected' = {clients}
    /\ clients' = clients + 1
    /\ UNCHANGED <<clientVars, link, gateway, notices, world>>
DialFails(w) ==
    /\ At(w, "dial")
    /\ ~gateway \/ connected # {}
    /\ gate' = Nobody
    /\ Retry(w, worker[w].left)
    /\ UNCHANGED <<slot, epoch, outside, world>>

\* Seeded fault: the new client never reaches the slot.
ReplaceForgotten(w) ==
    /\ At(w, "replace")
    /\ gate' = Nobody
    /\ Retry(w, worker[w].left)
    /\ UNCHANGED <<slot, epoch, outside, world>>

Replace(w) ==
    /\ At(w, "replace")
    /\ slot' = [client |-> worker[w].client, generation |-> slot.generation + 1]
    /\ gate' = Nobody
    /\ Retry(w, worker[w].left)
    /\ UNCHANGED <<epoch, outside, world>>

\* Seeded faults: 1102 is not known for a restore; 1100 is taken for one.
WatchMissesRestore ==
    /\ notices > 0
    /\ notices' = notices - 1
    /\ UNCHANGED <<clientVars, worker, connected, clients, link, gateway, world>>
WatchCountsLoss ==
    /\ notices > 0
    /\ notices' = notices - 1
    /\ epoch' = epoch + 2
    /\ UNCHANGED <<slot, gate, worker, connected, clients, link, gateway, world>>

\* The watcher of the notice stream counts a restore.
Watch ==
    /\ notices > 0
    /\ notices' = notices - 1
    /\ epoch' = epoch + 1
    /\ UNCHANGED <<slot, gate, worker, connected, clients, link, gateway, world>>

-----------------------------------------------------------------------------
(* The outside.                                                            *)

Fault(kind) ==
    /\ kind \in Faults
    /\ faults < MaxFaults
    /\ faults' = faults + 1

Waiting == {w \in Workers : worker[w].request = "open" /\ Healthy(w)}
Mark(W, request) ==
    worker' = [w \in Workers |-> IF w \in W
                THEN [worker[w] EXCEPT !.request = request] ELSE worker[w]]

\* TWS answers a request it still has.
Complete(w) ==
    /\ w \in Waiting
    /\ link
    /\ Mark({w}, "done")
    /\ UNCHANGED <<clientVars, outside, world>>

\* The link drops, silently taking some of the requests with it.
Blip ==
    /\ link
    /\ Fault("blip")
    /\ link' = FALSE
    /\ \E W \in SUBSET Waiting : Mark(W, "lost")
    /\ UNCHANGED <<clientVars, connected, clients, gateway, notices, cancel>>
\* It comes back, and TWS tells the client that is connected then.
Restore ==
    /\ ~link
    /\ link' = TRUE
    /\ notices' = IF connected = {} THEN notices ELSE notices + 1
    /\ UNCHANGED <<clientVars, worker, connected, clients, gateway, world>>

\* A session elsewhere wedges a request: no error and no notice.
Wedge(w) ==
    /\ w \in Waiting
    /\ Fault("wedge")
    /\ Mark({w}, "wedged")
    /\ UNCHANGED <<clientVars, outside, cancel>>
\* Or TWS rejects one, with 10187 or for good.
Reject(w) ==
    /\ w \in Waiting
    /\ At(w, "wait")
    /\ \E why \in {"competing", "refused"} : Fault(why) /\ Fail(w, why)
    /\ UNCHANGED <<clientVars, outside, cancel>>

\* A rejected request for the head fails the symbol, whatever the reason.
RejectHead(w) ==
    /\ w \in Waiting
    /\ At(w, "headwait")
    /\ \E why \in {"competing", "refused"} : Fault(why)
    /\ Leave(w, "error")
    /\ UNCHANGED <<clientVars, outside, cancel>>

\* ibapi re-establishes the socket by itself: every request on it is told so.
Reset ==
    /\ connected # {}
    /\ Fault("reset")
    /\ Mark({w \in Workers : /\ Healthy(w)
                             /\ worker[w].request \notin {"none", "done"}}, "reset")
    /\ UNCHANGED <<clientVars, outside, cancel>>

\* The socket dies for good, or all of TWS goes away for a while.
Loss ==
    /\ connected # {}
    /\ \/ Fault("loss") /\ UNCHANGED gateway
       \/ Fault("outage") /\ gateway' = FALSE
    /\ connected' = {}
    /\ notices' \in 0..notices
    /\ UNCHANGED <<clientVars, worker, clients, link, cancel>>
GatewayUp ==
    /\ ~gateway
    /\ gateway' = TRUE
    /\ UNCHANGED <<clientVars, worker, connected, clients, link, notices, world>>

Cancel ==
    /\ ~cancel
    /\ cancel' = TRUE
    /\ UNCHANGED <<clientVars, worker, outside, faults>>

\* A second passes.
Tick ==
    /\ \E w \in Workers : worker[w].left > 0
    /\ worker' = [w \in Workers |-> IF worker[w].left > 0
                    THEN [worker[w] EXCEPT !.left = @ - 1] ELSE worker[w]]
    /\ UNCHANGED <<clientVars, outside, world>>

-----------------------------------------------------------------------------
Step(w) ==
    \/ AskHead(w) \/ HeadFails(w) \/ HeadArrives(w)
    \/ NextRequest(w)
    \/ Snapshot(w) \/ LoadEpoch(w) \/ Issue(w)
    \/ Answered(w) \/ ReadError(w) \/ Silent(w)
    \/ Recover(w) \/ EnterGate(w) \/ Dial(w) \/ DialFails(w) \/ Replace(w)

Outside ==
    \/ \E w \in Workers :
        Progress(w) \/ Complete(w) \/ Wedge(w) \/ Reject(w) \/ RejectHead(w)
    \/ Blip \/ Restore \/ Reset \/ Loss \/ GatewayUp
    \/ Tick

\* The process is over when every worker has ended.
Over == (\A w \in Workers : worker[w].pc \in Ended) /\ UNCHANGED vars

Next == (\E w \in Workers : Step(w)) \/ Watch \/ Cancel \/ Outside \/ Over

Spec == Init /\ [][Next]_vars

\* Threads run and the clock ticks, and an answer that is there is read in the
\* end.
ThreadsRun ==
    /\ \A w \in Workers : WF_vars(Step(w)) /\ SF_vars(Answered(w))
    /\ WF_vars(Watch)
    /\ WF_vars(Tick)
\* A request TWS is asked again and again, with a link, is answered in the end;
\* and whatever went down comes back.
TwsAnswers == \A w \in Workers : SF_vars(Complete(w))
TwsRecovers == WF_vars(Restore) /\ WF_vars(GatewayUp) /\ TwsAnswers

FairSpec == Spec /\ ThreadsRun
AnsweringSpec == FairSpec /\ TwsAnswers
RecoveringSpec == FairSpec /\ TwsRecovers

-----------------------------------------------------------------------------
(* Properties.                                                             *)

\* A worker that is about to connect never finds the shared client alive, so a
\* reconnect never collides with its own client id (classify_recovery's reason
\* to retry a stalled request in place; replace_if_generation's gate).
NoSelfCollision ==
    \A w \in Workers : At(w, "dial") => connected = {}

\* A connected client is the one in the slot, or is on its way there: workers
\* that lose the same socket together share one replacement and leak none.
OneLiveClient ==
    \A c \in connected :
        \/ c = slot.client
        \/ \E w \in Workers : gate = w /\ At(w, "replace") /\ worker[w].client = c

\* A request that a blip dropped can be told from a slow one once the restore
\* has been noticed: its start_epoch is older than the counter.
OrphanShows ==
    link /\ notices = 0 =>
        \A w \in Workers :
            At(w, "wait") /\ Healthy(w) /\ worker[w].request = "lost"
                => worker[w].start < epoch

\* With unlimited retries no worker gives a symbol up over a lost socket, a
\* reset, a dropped or wedged request or a competing session.
NeverAbandoned == \A w \in Workers : ~At(w, "error")

\* Every request is answered or, under Ctrl+C, stopped, whatever happens to
\* the socket and the link meanwhile.
EveryRequestEnds ==
    \A w \in Workers : At(w, "pace") ~> worker[w].pc \in Ended \cup {"between"}

\* Ctrl+C ends every worker, also one whose request will never be answered.
CancelStops ==
    \A w \in Workers : cancel ~> worker[w].pc \in Ended
=============================================================================
