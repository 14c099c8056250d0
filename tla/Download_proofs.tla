--------------------------- MODULE Download_proofs --------------------------
(***************************************************************************)
(* Proofs about Download, for every market, calendar, cadence and bound:   *)
(* what holds of every download; that a settled one implements TickArchive *)
(* (its committed file is exact at every moment and only grows); that one  *)
(* which follows a market still printing passes no printed trade.          *)
(***************************************************************************)
EXTENDS Download, SequenceTheorems, TLAPS

\* A second has at least one instant.
LEMMA SubType == Sub \in Nat /\ Sub > 0
  BY MarketAssumption

\* Every trade of the market has an instant in Nat.
LEMMA MarketType ==
    /\ \A m \in Trades : Market[m] \in Nat
    /\ \A m, n \in Trades : m <= n => Market[m] <= Market[n]
    /\ Trades \subseteq Nat
  BY MarketAssumption DEF Trades

\* A trade prints at some instant.
LEMMA PrintType == \A m \in Trades : PrintTime[m] \in Nat
  BY DownloadAssumption

\* The ranges of the run's constants: clock, start, end and bounds.
LEMMA BoundTypes ==
    /\ FirstNow \in Nat /\ LastNow \in Nat /\ FirstNow <= LastNow
    /\ MaxRuns \in Nat /\ Horizon \in Nat
    /\ \A r \in 0..MaxRuns : r < MaxRuns => r + 1 \in 0..MaxRuns
    /\ \A t \in FirstNow..LastNow :
        /\ t \in Nat
        /\ t < LastNow => t + 1 \in FirstNow..LastNow
<1>1. /\ FirstNow \in Nat /\ LastNow \in Nat /\ FirstNow <= LastNow
      /\ MaxRuns \in Nat /\ Horizon \in Nat
  BY MarketAssumption, DownloadAssumption
<1>2. QED
  BY <1>1

\* Rounding to seconds: an instant lies in the second it is divided to.
LEMMA SecondBounds ==
    ASSUME NEW t \in Nat
    PROVE  /\ Second(t) \in Nat
           /\ Sub * Second(t) <= t
           /\ t < Sub * (Second(t) + 1)
           /\ Sub * (Second(t) + 1) \in Nat
<1>1. t \div Sub \in Nat
  BY SubType
<1>2. t = Sub * (t \div Sub) + (t % Sub) /\ t % Sub \in 0..(Sub - 1)
  BY SubType
<1>3. \A q \in Nat : Sub * (q + 1) = Sub * q + Sub /\ Sub * q \in Nat
  BY SubType
<1>4. QED
  BY <1>1, <1>2, <1>3, SubType DEF Second

\* A later second is a later instant.
LEMMA SecondAfterBound ==
    ASSUME NEW m \in Trades
    PROVE  /\ SecondAfter(m) \in Nat
           /\ Market[m] < SecondAfter(m)
  BY MarketType, SecondBounds DEF SecondAfter

\* next_day_start returns an instant, later than the cursor's own.
LEMMA NextDayStartBound ==
    ASSUME NEW c \in Nat, Second(c) <= Horizon
    PROVE  /\ NextDayStart(c) \in Nat
           /\ c < NextDayStart(c)
<1> DEFINE s == Second(c)
<1>1. s \in Nat /\ c < Sub * (s + 1)
  BY SecondBounds
<1>2. NextMidnight[s] \in Nat /\ s + 1 <= NextMidnight[s]
  BY <1>1, MarketAssumption
<1>3. \A a, b \in Nat : a <= b => Sub * a <= Sub * b /\ Sub * a \in Nat
  BY SubType
<1>4. Sub * (s + 1) <= Sub * NextMidnight[s]
  BY <1>1, <1>2, <1>3
<1>5. Sub * (s + 1) \in Nat /\ Sub * NextMidnight[s] \in Nat
  BY <1>1, <1>2, <1>3
<1> HIDE DEF s
<1>6. QED
  BY <1>1, <1>4, <1>5 DEF NextDayStart, s
\* Rounding keeps order.
LEMMA SecondMonotone ==
    ASSUME NEW t \in Nat, NEW u \in Nat, t <= u
    PROVE  Second(t) <= Second(u)
<1> SUFFICES ASSUME Second(u) + 1 <= Second(t) PROVE FALSE
  BY SecondBounds
<1>1. \A a, b \in Nat : a <= b => Sub * a <= Sub * b
  BY SubType
<1>2. Sub * (Second(u) + 1) <= Sub * Second(t)
  BY <1>1, SecondBounds
<1>3. Sub * Second(t) \in Nat
  BY SubType, SecondBounds
<1>4. QED
  BY <1>2, <1>3, SecondBounds

-----------------------------------------------------------------------------
(* Batches.                                                                *)

\* A run of consecutive trades, and the ticks of it that lie before the end.
LEMMA RunProperties ==
    ASSUME NEW i \in Trades, NEW j \in Trades, i <= j
    PROVE  /\ Run(i, j) \in Seq(Trades)
           /\ Len(Run(i, j)) = j - i + 1
           /\ \A k \in 1..(j - i + 1) : Run(i, j)[k] = i + k - 1
<1>1. \A k \in 1..(j - i + 1) : i + k - 1 \in Trades
  BY MarketAssumption DEF Trades
<1>2. Run(i, j) \in [1..(j - i + 1) -> Trades]
  BY <1>1 DEF Run
<1>3. j - i + 1 \in Nat
  BY MarketAssumption DEF Trades
<1>4. QED
  BY <1>2, <1>3, IsASeq DEF Run

\* Every reply is a non-empty sequence of trades the market has printed.
LEMMA ReplyType ==
    ASSUME NEW batch \in Replies
    PROVE  batch \in Seq(Trades) /\ batch # <<>>
<1> DEFINE forward == {Run(i, j) : i, j \in Printed} \ {<<>>}
<1>1. \A b \in forward : b \in Seq(Trades) /\ b # <<>>
  <2>1. TAKE b \in forward
  <2>2. PICK i \in Printed, j \in Printed : b = Run(i, j)
    OBVIOUS
  <2>3. i \in Trades /\ j \in Trades /\ i \in Nat /\ j \in Nat
    BY MarketType DEF Printed
  <2>4. CASE i <= j
    BY <2>2, <2>3, <2>4, RunProperties
  <2>5. CASE ~(i <= j)
    <3>1. 1..(j - i + 1) = {}
      BY <2>3, <2>5
    <3>2. Run(i, j) = <<>>
      BY <3>1 DEF Run
    <3>3. QED
      BY <2>2, <3>2
  <2>6. QED
    BY <2>4, <2>5
<1>2. \A b \in forward : Reverse(b) \in Seq(Trades) /\ Reverse(b) # <<>>
  <2>1. TAKE b \in forward
  <2>2. b \in Seq(Trades) /\ b # <<>> /\ Len(b) \in Nat \ {0}
    BY <1>1, EmptySeq
  <2>3. Reverse(b) \in [1..Len(b) -> Trades]
    <3>1. \A k \in 1..Len(b) : b[(Len(b) - k) + 1] \in Trades
      BY <2>2
    <3>2. QED
      BY <3>1 DEF Reverse
  <2>4. Reverse(b) \in Seq(Trades) /\ Len(Reverse(b)) = Len(b)
    BY <2>2, <2>3, IsASeq DEF Reverse
  <2>5. QED
    BY <2>2, <2>4, EmptySeq
<1>3. batch \in forward \/ \E b \in forward : batch = Reverse(b)
  BY DEF Replies, Batches
<1> HIDE DEF forward
<1>4. QED
  BY <1>1, <1>2, <1>3

\* A reply that passes validate_provider_batch is one the contract allows: a
\* run of consecutive trades from the cursor on.
LEMMA ValidReply ==
    ASSUME TypeOK, NEW batch \in Replies, ValidBatch(batch)
    PROVE  \E i, j \in Pending(cursor) :
              batch = Run(i, j) /\ i <= j /\ Answer(i, j)
<1>1. TickReply(batch)
  <2>1. ~Misbehaved(batch)
    <3>1. batch \in Seq(Trades)
      BY ReplyType
    <3>2. \A k \in 1..Len(batch) :
            /\ Market[batch[k]] \in Nat
            /\ k > 1 => Market[batch[k - 1]] \in Nat
      <4>1. \A k \in 1..Len(batch) : batch[k] \in Trades
        BY <3>1, ElementOfSeq
      <4>2. \A k \in 1..Len(batch) : k > 1 => k - 1 \in 1..Len(batch)
        BY <3>1, LenProperties
      <4>3. QED
        BY <4>1, <4>2, MarketType
    <3>3. cursor \in Nat
      BY DEF TypeOK
    <3> HIDE DEF ValidBatch
    <3>4. \A k \in 1..Len(batch) :
            /\ ~(Market[batch[k]] < cursor)
            /\ k > 1 => ~(Market[batch[k]] < Market[batch[k - 1]])
      BY <3>2, <3>3 DEF ValidBatch
    <3>5. QED
      BY <3>4 DEF Misbehaved
  <2>2. QED
    BY <2>1 DEF Replies
<1>2. QED
  BY <1>1 DEF TickReply, Answer, IbkrAnswer, DatabentoAnswer, InWindow

\* What AppendBatch appends: the run of trades from some pending i to some q,
\* q the last of the reply before the end, with the cursor following q.
LEMMA AppendedRun ==
    ASSUME TypeOK, NEW batch \in Replies, AppendBatch(batch)
    PROVE  \E i, j \in Pending(cursor) : \E q \in i..j :
              /\ Answer(i, j)
              /\ buffered' = buffered \o Run(i, q)
              /\ cursor' = SecondAfter(q)
              /\ Market[q] < end
              /\ q < j => Market[q + 1] >= end
<1>1. PICK i \in Pending(cursor), j \in Pending(cursor) :
        batch = Run(i, j) /\ i <= j /\ Answer(i, j)
  BY ValidReply DEF AppendBatch
<1>2. i \in Trades /\ j \in Trades /\ i \in Nat /\ j \in Nat
  BY MarketType DEF Pending, Printed
<1>3. PICK n \in 1..Len(batch) :
        /\ Retained(batch, n)
        /\ buffered' = buffered \o SubSeq(batch, 1, n)
        /\ cursor' = SecondAfter(batch[n])
  BY DEF AppendBatch
<1>4. Len(batch) = j - i + 1 /\ \A k \in 1..(j - i + 1) : batch[k] = i + k - 1
  BY <1>1, <1>2, RunProperties
<1> DEFINE q == i + n - 1
<1>5. q \in i..j /\ q \in Trades /\ batch[n] = q
  BY <1>2, <1>3, <1>4 DEF Trades
<1>6. SubSeq(batch, 1, n) = Run(i, q)
  <2>1. batch \in Seq(Trades)
    BY <1>1, <1>2, RunProperties
  <2>2. SubSeq(batch, 1, n) = [k \in 1..n |-> batch[1 + k - 1]]
    BY <1>2, <1>3, <1>4, <2>1
  <2>3. \A k \in 1..n : batch[1 + k - 1] = i + k - 1
    BY <1>2, <1>3, <1>4
  <2>4. 1..n = 1..(q - i + 1)
    BY <1>2, <1>3, <1>4
  <2>5. QED
    BY <2>2, <2>3, <2>4 DEF Run
<1>7. Market[q] < end
  BY <1>3, <1>5 DEF Retained
<1>8. q < j => Market[q + 1] >= end
  <2> SUFFICES ASSUME q < j PROVE Market[q + 1] >= end
    OBVIOUS
  <2>1. n + 1 \in 1..Len(batch) /\ batch[n + 1] = q + 1
    BY <1>2, <1>3, <1>4
  <2>2. ~(Market[q + 1] < end)
    BY <1>2, <1>3, <1>4, <2>1 DEF Retained
  <2>3. Market[q + 1] \in Nat /\ end \in Nat
    BY <1>2, <1>5, MarketType DEF TypeOK, Trades
  <2>4. QED
    BY <2>2, <2>3
<1> HIDE DEF q
<1>9. QED
  BY <1>1, <1>3, <1>5, <1>6, <1>7, <1>8

-----------------------------------------------------------------------------
(* Types.                                                                  *)

\* The first process starts in a state of the right type.
LEMMA InitTypeOK == Init => TypeOK
<1> SUFFICES ASSUME Init PROVE TypeOK
  OBVIOUS
<1>1. now \in FirstNow..LastNow /\ runs \in 0..MaxRuns
  BY BoundTypes DEF Init
<1>2. <<>> \in Seq(Trades)
  BY EmptySeq
<1>3. QED
  BY <1>1, <1>2 DEF Init, TypeOK, PC, Idle

\* Every step keeps the types, given what LoopInv says of cursor and end.
LEMMA NextTypeOK == TypeOK /\ LoopInv /\ [Next]_vars => TypeOK'
<1> SUFFICES ASSUME TypeOK, LoopInv, [Next]_vars PROVE TypeOK'
  OBVIOUS
<1> USE DEF TypeOK, fileVars, loopVars, PC, Idle
<1>1. CASE OpenStore
  BY <1>1 DEF OpenStore, Goto
<1>2. CASE OpenFails
  BY <1>2 DEF OpenFails, Return
<1>3. ASSUME NEW c \in Nat, ResumeAt(c) PROVE TypeOK'
  BY <1>3, DownloadAssumption DEF ResumeAt, Goto
<1>4. CASE ResumeFromFile
  <2>1. PICK m \in LastTicks : ResumeAt(SecondAfter(m))
    BY <1>4 DEF ResumeFromFile
  <2>2. m \in Trades
    <3>1. ~FileIsEmpty
      BY <1>4 DEF ResumeFromFile
    <3>2. QED
      BY <2>1, <3>1, EmptySeq DEF LastTicks, FileIsEmpty
  <2>3. QED
    BY <1>3, <2>1, <2>2, SecondAfterBound
<1>5. CASE ResumeFromStart
  BY <1>3, <1>5, MarketAssumption DEF ResumeFromStart, None
<1>6. CASE ResumeFromHead
  BY <1>3, <1>6, DownloadAssumption DEF ResumeFromHead
<1>7. CASE HeadFails
  BY <1>7 DEF HeadFails, Return
<1>8. ResolvedEnd \in Nat
  BY MarketAssumption, DownloadAssumption DEF ResolvedEnd, None
<1>9. CASE LeaveLoop
  BY <1>8, <1>9 DEF LeaveLoop, Stop
<1>10. CASE StartRequest
  BY <1>8, <1>10 DEF StartRequest, Goto
<1>11. CASE Fetch
  <2>1. ASSUME NEW batch \in Replies, AppendBatch(batch) PROVE TypeOK'
    <3>1. \E i, q \in Trades :
            i <= q /\ buffered' = buffered \o Run(i, q) /\ cursor' = SecondAfter(q)
      <4>1. PICK i \in Pending(cursor), j \in Pending(cursor) : \E q \in i..j :
              buffered' = buffered \o Run(i, q) /\ cursor' = SecondAfter(q)
        BY <2>1, AppendedRun
      <4>2. \A q \in i..j : q \in Trades /\ i <= q
        BY MarketAssumption DEF Pending, Printed, Trades
      <4>3. i \in Trades
        BY DEF Pending, Printed
      <4>4. QED
        BY <4>1, <4>2, <4>3
    <3>2. PICK i \in Trades, q \in Trades :
            i <= q /\ buffered' = buffered \o Run(i, q) /\ cursor' = SecondAfter(q)
      BY <3>1
    <3>3. buffered' \in Seq(Trades) /\ cursor' \in Nat
      BY <3>2, RunProperties, ConcatProperties, SecondAfterBound
    <3>4. QED
      BY <2>1, <3>3 DEF AppendBatch, Goto
  <2>2. ASSUME NEW batch \in Replies, ReachEnd(batch) PROVE TypeOK'
    BY <2>2 DEF ReachEnd, Stop
  <2>3. ASSUME NEW batch \in Replies, RejectBatch(batch) PROVE TypeOK'
    BY <2>3 DEF RejectBatch, Stop
  <2>4. CASE SkipEmptyDay
    <3>1. Second(cursor) <= Horizon
      <4>1. cursor <= end /\ Second(end) <= Horizon
        BY <2>4 DEF SkipEmptyDay, LoopInv
      <4>2. Second(cursor) <= Second(end)
        BY <4>1, SecondMonotone
      <4>3. QED
        BY <4>1, <4>2, SecondBounds, BoundTypes
    <3>2. QED
      BY <2>4, <3>1, NextDayStartBound DEF SkipEmptyDay, Goto
  <2>5. CASE FetchFails
    BY <2>5 DEF FetchFails, Stop
  <2>6. QED
    BY <1>11, <2>1, <2>2, <2>3, <2>4, <2>5 DEF Fetch
<1>12. CASE CommitBatch
  <2>1. disk \o buffered \in Seq(Trades) /\ <<>> \in Seq(Trades) /\ now \in Nat
    BY ConcatProperties, EmptySeq, BoundTypes
  <2>2. /\ disk' \in Seq(Trades)
        /\ buffered' \in Seq(Trades)
        /\ lastCommit' \in Nat
    BY <1>12, <2>1 DEF CommitBatch
  <2>3. QED
    BY <1>12, <2>2 DEF CommitBatch, Goto
<1>13. CASE CommitFails
  BY <1>13 DEF CommitFails, Stop
<1>14. CASE FinishWriter
  BY <1>14, ConcatProperties DEF FinishWriter, Return
<1>15. CASE FinishFails
  BY <1>15 DEF FinishFails, Return
<1>16. CASE Cancel
  BY <1>16 DEF Cancel
<1>17. CASE Crash
  BY <1>17, BoundTypes, EmptySeq DEF Crash
<1>18. CASE RunAgain
  BY <1>18, BoundTypes DEF RunAgain
<1>19. CASE Advance
  BY <1>19, BoundTypes DEF Advance
<1>20. CASE UNCHANGED vars
  BY <1>20 DEF vars
<1>21. QED
  BY <1>1, <1>2, <1>4, <1>5, <1>6, <1>7, <1>9, <1>10, <1>11, <1>12, <1>13,
     <1>14, <1>15, <1>16, <1>17, <1>18, <1>19, <1>20 DEF Next, Worker

-----------------------------------------------------------------------------
(* The loop invariant.                                                     *)

\* Nothing is buffered or torn before the first process.
LEMMA InitLoopInv == Init => LoopInv
<1> SUFFICES ASSUME Init PROVE LoopInv
  OBVIOUS
<1>1. QED
  BY DEF Init, LoopInv, Idle, Looping

\* What is stored does not change when a commit moves it to the disk.
LEMMA CommitKeepsStored ==
    ASSUME TypeOK, disk' = disk \o buffered, buffered' = <<>>
    PROVE  Stored' = Stored /\ disk' = Stored
<1>1. disk \o buffered \in Seq(Trades)
  BY ConcatProperties DEF TypeOK
<1>2. QED
  BY <1>1, ConcatEmptySeq DEF Stored

\* Committed and buffered ticks together are a sequence of trades.
LEMMA StoredType == TypeOK => Stored \in Seq(Trades)
  BY ConcatProperties DEF TypeOK, Stored

\* Appending a run to the buffer appends it to what is stored.
LEMMA AppendStored ==
    ASSUME TypeOK, NEW i \in Trades, NEW q \in Trades, i <= q,
           buffered' = buffered \o Run(i, q), disk' = disk
    PROVE  /\ Stored' = Stored \o Run(i, q)
           /\ Stored' \in Seq(Trades)
           /\ Len(Stored') = Len(Stored) + (q - i + 1)
           /\ \A k \in 1..Len(Stored) : Stored'[k] = Stored[k]
           /\ \A k \in (Len(Stored) + 1)..Len(Stored') :
                Stored'[k] = i + (k - Len(Stored)) - 1
<1>1. Run(i, q) \in Seq(Trades) /\ Len(Run(i, q)) = q - i + 1
  BY RunProperties
<1>2. Stored' = Stored \o Run(i, q)
  <2>1. Stored' = disk \o (buffered \o Run(i, q))
    BY DEF Stored
  <2>2. (disk \o buffered) \o Run(i, q) = disk \o (buffered \o Run(i, q))
    BY <1>1, ConcatAssociative DEF TypeOK
  <2>3. QED
    BY <2>1, <2>2 DEF Stored
<1>3. Stored \in Seq(Trades) /\ Len(Stored) \in Nat
  BY StoredType, LenProperties
<1>4. i \in Nat /\ q \in Nat
  BY MarketType
<1>5. /\ Stored' \in Seq(Trades)
      /\ Len(Stored') = Len(Stored) + (q - i + 1)
      /\ \A k \in 1..(Len(Stored) + (q - i + 1)) :
            Stored'[k] = IF k <= Len(Stored) THEN Stored[k]
                                             ELSE Run(i, q)[k - Len(Stored)]
  <2> DEFINE R == Run(i, q)
  <2>1. /\ Stored \o R \in Seq(Trades)
        /\ Len(Stored \o R) = Len(Stored) + Len(R)
        /\ \A k \in 1..(Len(Stored) + Len(R)) :
              (Stored \o R)[k] = IF k <= Len(Stored) THEN Stored[k]
                                                     ELSE R[k - Len(Stored)]
    <3>1. R \in Seq(Trades)
      BY <1>1
    <3> HIDE DEF R
    <3>2. QED
      BY <1>3, <3>1, ConcatProperties
  <2>2. Len(R) = q - i + 1
    BY <1>1
  <2> HIDE DEF R
  <2>3. QED
    BY <1>2, <2>1, <2>2 DEF R
<1> DEFINE L == Len(Stored)
           N == q - i + 1
<1>6. L \in Nat /\ N \in Nat
  BY <1>3, <1>4
<1> HIDE DEF L, N
<1>7. \A k \in 1..L : k \in 1..(L + N) /\ k <= L
  BY <1>6
<1>8. \A k \in (L + 1)..(L + N) :
        /\ k \in 1..(L + N) /\ ~(k <= L)
        /\ k - L \in 1..N
  BY <1>6
<1>9. \A k \in 1..N : Run(i, q)[k] = i + k - 1
  BY RunProperties DEF N
<1>10. \A k \in 1..L : Stored'[k] = Stored[k]
  BY <1>5, <1>7 DEF L, N
<1>11. \A k \in (L + 1)..(L + N) : Stored'[k] = i + (k - L) - 1
  <2> SUFFICES ASSUME NEW k \in (L + 1)..(L + N)
               PROVE  Stored'[k] = i + (k - L) - 1
    OBVIOUS
  <2>1. Stored'[k] = Run(i, q)[k - L]
    BY <1>5, <1>8 DEF L, N
  <2>2. QED
    BY <1>8, <1>9, <2>1
<1>12. QED
  BY <1>2, <1>5, <1>10, <1>11 DEF L, N

\* Where a request is made: inside the calendar.
LEMMA ResolvedEndBound ==
    TypeOK => ResolvedEnd \in Nat /\ Second(ResolvedEnd) <= Horizon
<1> SUFFICES ASSUME TypeOK
             PROVE  ResolvedEnd \in Nat /\ Second(ResolvedEnd) <= Horizon
  OBVIOUS
<1>1. CASE End = None
  <2>1. now \in Nat /\ now <= LastNow
    BY BoundTypes DEF TypeOK
  <2>2. Second(now) <= Second(LastNow)
    BY <2>1, SecondMonotone, BoundTypes
  <2>3. Second(LastNow) <= Horizon
    BY DownloadAssumption
  <2>4. Second(now) \in Nat /\ Second(LastNow) \in Nat
    BY <2>1, SecondBounds, BoundTypes
  <2>5. Second(now) <= Horizon
    BY <2>2, <2>3, <2>4, BoundTypes
  <2>6. QED
    BY <1>1, <2>1, <2>5 DEF ResolvedEnd
<1>2. CASE End # None
  <2>1. End \in Nat /\ Second(End) <= Horizon
    BY <1>2, MarketAssumption
  <2>2. QED
    BY <1>2, <2>1 DEF ResolvedEnd
<1>3. QED
  BY <1>1, <1>2

\* What is on disk is the beginning of what is stored, and all of it once the
\* buffer is gone.
LEMMA DiskIsPrefix ==
    ASSUME TypeOK
    PROVE  /\ Len(disk) \in Nat /\ Len(Stored) \in Nat
           /\ Len(disk) <= Len(Stored)
           /\ \A k \in 1..Len(disk) : Stored[k] = disk[k] /\ disk[k] \in Trades
<1>1. /\ Len(disk) \in Nat /\ Len(buffered) \in Nat
      /\ disk \in Seq(Trades) /\ buffered \in Seq(Trades)
  BY LenProperties DEF TypeOK
<1>2. /\ Len(Stored) = Len(disk) + Len(buffered)
      /\ \A k \in 1..(Len(disk) + Len(buffered)) :
            Stored[k] = IF k <= Len(disk) THEN disk[k]
                                          ELSE buffered[k - Len(disk)]
  BY <1>1, ConcatProperties DEF Stored
<1>3. \A k \in 1..Len(disk) :
        k \in 1..(Len(disk) + Len(buffered)) /\ k <= Len(disk)
  BY <1>1
<1>4. \A k \in 1..Len(disk) : disk[k] \in Trades
  BY <1>1, ElementOfSeq
<1>5. QED
  BY <1>1, <1>2, <1>3, <1>4

\* With nothing buffered, what is stored is what is committed.
LEMMA DropBuffer ==
    ASSUME TypeOK
    PROVE  /\ buffered = <<>> => Stored = disk
           /\ disk' = disk /\ buffered' = <<>> => Stored' = disk
  BY ConcatEmptySeq DEF TypeOK, Stored

\* Dropping the buffer keeps the order of what remains.
LEMMA OrderOfPrefix ==
    ASSUME TypeOK, InOrder
    PROVE  \A j, k \in 1..Len(disk) : j < k => disk[j] < disk[k]
<1>1. \A k \in 1..Len(disk) : k \in 1..Len(Stored) /\ Stored[k] = disk[k]
  BY DiskIsPrefix
<1>2. QED
  BY <1>1 DEF InOrder

\* A resumed file lies before the cursor it is resumed from.
LEMMA ResumeCovers ==
    ASSUME TypeOK, LoopInv, InOrder, ResumeFromFile
    PROVE  \A k \in 1..Len(Stored') : Market[Stored'[k]] < cursor'
<1>1. pc = "opened"
  BY DEF ResumeFromFile, ResumeAt
<1>2. ~torn /\ buffered = <<>> /\ disk # <<>>
  BY <1>1 DEF LoopInv, Idle, ResumeFromFile, FileIsEmpty
<1>3. PICK m \in LastTicks : ResumeAt(SecondAfter(m))
  BY DEF ResumeFromFile
<1>4. m = disk[Len(disk)] /\ Len(disk) \in 1..Len(disk) /\ m \in Trades
  <2>1. m = disk[Len(disk)]
    BY <1>2, <1>3 DEF LastTicks
  <2>2. Len(disk) \in Nat \ {0}
    BY <1>2, EmptySeq DEF TypeOK
  <2>3. Len(disk) \in 1..Len(disk)
    BY <2>2
  <2>4. QED
    BY <2>1, <2>3, DiskIsPrefix
<1>5. Stored' = disk
  BY <1>2, <1>3, DropBuffer DEF ResumeAt, fileVars
<1>6. ASSUME NEW k \in 1..Len(disk) PROVE Market[disk[k]] < SecondAfter(m)
  <2>1. disk[k] \in Trades /\ disk[k] \in Nat /\ m \in Nat
    BY <1>4, DiskIsPrefix, MarketType
  <2>2. disk[k] <= m
    <3>1. CASE k = Len(disk)
      BY <1>4, <2>1, <3>1
    <3>2. CASE k # Len(disk)
      <4>1. k < Len(disk)
        BY <3>2, DiskIsPrefix
      <4>2. disk[k] < disk[Len(disk)]
        BY <1>4, <4>1, OrderOfPrefix
      <4>3. QED
        BY <1>4, <2>1, <4>2
    <3>3. QED
      BY <3>1, <3>2
  <2>3. Market[disk[k]] <= Market[m]
    BY <1>4, <2>1, <2>2, MarketType
  <2>4. Market[disk[k]] \in Nat /\ Market[m] \in Nat
    BY <1>4, <2>1, MarketType
  <2>5. Market[m] < SecondAfter(m) /\ SecondAfter(m) \in Nat
    BY <1>4, SecondAfterBound
  <2>6. QED
    BY <2>3, <2>4, <2>5
<1>7. cursor' = SecondAfter(m)
  BY <1>3 DEF ResumeAt
<1>8. QED
  BY <1>5, <1>6, <1>7

\* A batch from the cursor repeats nothing and is covered by the new cursor.
LEMMA AppendOrder ==
    ASSUME TypeOK, LoopInv, InOrder, NEW batch \in Replies, AppendBatch(batch)
    PROVE  /\ InOrder'
           /\ \A k \in 1..Len(Stored') : Market[Stored'[k]] < cursor'
<1>1. PICK i \in Pending(cursor), j \in Pending(cursor) : \E q \in i..j :
        buffered' = buffered \o Run(i, q) /\ cursor' = SecondAfter(q)
  BY AppendedRun
<1>2. PICK q \in i..j :
        buffered' = buffered \o Run(i, q) /\ cursor' = SecondAfter(q)
  BY <1>1
<1>3. /\ i \in Trades /\ q \in Trades /\ i <= q
      /\ i \in Nat /\ q \in Nat /\ Market[i] >= cursor
  BY MarketType DEF Pending, Printed, Trades
<1>4. disk' = disk
  BY DEF AppendBatch, fileVars
<1> DEFINE L == Len(Stored)
           M == Len(Stored')
<1>5. /\ L \in Nat /\ M = L + (q - i + 1)
      /\ \A k \in 1..L : Stored'[k] = Stored[k]
      /\ \A k \in (L + 1)..M : Stored'[k] = i + (k - L) - 1
  BY <1>2, <1>3, <1>4, AppendStored, DiskIsPrefix
<1>6. \A k \in 1..L :
        /\ Stored[k] \in Trades /\ Stored[k] \in Nat
        /\ Market[Stored[k]] < cursor
  <2>1. pc = "fetch"
    BY DEF AppendBatch
  <2>2. \A k \in 1..L : Stored[k] \in Trades
    BY StoredType, ElementOfSeq
  <2>3. QED
    BY <2>1, <2>2, MarketType DEF LoopInv, Looping
<1>7. \A k \in 1..L : Stored[k] < i
  <2> SUFFICES ASSUME NEW k \in 1..L, i <= Stored[k] PROVE FALSE
    BY <1>3, <1>6
  <2>1. Market[i] <= Market[Stored[k]]
    BY <1>3, <1>6, MarketType
  <2>2. Market[i] \in Nat /\ Market[Stored[k]] \in Nat /\ cursor \in Nat
    BY <1>3, <1>6, MarketType DEF TypeOK
  <2>3. QED
    BY <1>3, <1>6, <2>1, <2>2
<1> HIDE DEF L, M
<1>8. ASSUME NEW a \in 1..M, NEW b \in 1..M, a < b
      PROVE  Stored'[a] < Stored'[b]
  <2>1. CASE b <= L
    <3>1. a \in 1..L /\ b \in 1..L
      BY <1>5, <2>1, <1>8
    <3>2. QED
      BY <1>5, <1>8, <3>1 DEF InOrder, L
  <2>2. CASE a <= L /\ ~(b <= L)
    <3>1. a \in 1..L /\ b \in (L + 1)..M
      BY <1>3, <1>5, <2>2
    <3>2. QED
      BY <1>3, <1>5, <1>6, <1>7, <3>1
  <2>3. CASE ~(a <= L)
    <3>1. a \in (L + 1)..M /\ b \in (L + 1)..M
      BY <1>3, <1>5, <1>8, <2>3
    <3>2. QED
      BY <1>3, <1>5, <1>8, <3>1
  <2>4. QED
    BY <2>1, <2>2, <2>3
<1>9. ASSUME NEW k \in 1..M PROVE Stored'[k] \in Trades /\ Stored'[k] <= q
  <2>1. CASE k <= L
    <3>1. k \in 1..L
      BY <1>5, <2>1
    <3>2. Stored'[k] = Stored[k]
      BY <1>5, <3>1
    <3>3. Stored[k] \in Trades /\ Stored[k] \in Nat /\ Stored[k] < i
      BY <1>6, <1>7, <3>1
    <3>4. Stored[k] <= q
      BY <1>3, <3>3
    <3>5. QED
      BY <3>2, <3>3, <3>4
  <2>2. CASE ~(k <= L)
    <3>1. k \in (L + 1)..M
      BY <1>3, <1>5, <2>2
    <3>2. Stored'[k] = i + (k - L) - 1 /\ k - L \in 1..(q - i + 1)
      BY <1>3, <1>5, <3>1
    <3>3. Stored'[k] \in i..q
      BY <1>3, <3>2
    <3>4. i..q \subseteq Trades
      <4>1. Len(Market) \in Nat
        BY MarketAssumption
      <4>2. i \in 1..Len(Market) /\ q \in 1..Len(Market)
        BY <1>3 DEF Trades
      <4>3. QED
        BY <4>1, <4>2 DEF Trades
    <3>5. Stored'[k] \in Trades /\ Stored'[k] <= q
      <4>1. q \in Nat /\ i \in Nat
        BY <1>3
      <4>2. QED
        BY <3>3, <3>4, <4>1
    <3>6. QED
      BY <3>5
  <2>3. QED
    BY <2>1, <2>2
<1>10. ASSUME NEW k \in 1..M PROVE Market[Stored'[k]] < cursor'
  <2>1. Market[Stored'[k]] <= Market[q]
    BY <1>3, <1>9, MarketType
  <2>2. Market[q] < SecondAfter(q) /\ SecondAfter(q) \in Nat
    BY <1>3, SecondAfterBound
  <2>3. Market[Stored'[k]] \in Nat /\ Market[q] \in Nat
    BY <1>3, <1>9, MarketType
  <2>4. QED
    BY <1>2, <2>1, <2>2, <2>3
<1>11. QED
  BY <1>8, <1>10 DEF InOrder, M

\* Steps that leave the file and the buffer alone.
LEMMA SameStored ==
    ASSUME disk' = disk, buffered' = buffered
    PROVE  Stored' = Stored /\ (InOrder => InOrder')
<1>1. Stored' = Stored
  BY DEF Stored
<1>2. QED
  BY <1>1 DEF InOrder

\* Steps that make the buffer durable.
LEMMA CommittedStored ==
    ASSUME TypeOK, disk' = disk \o buffered, buffered' = <<>>
    PROVE  Stored' = Stored /\ (InOrder => InOrder')
<1>1. Stored' = Stored
  BY CommitKeepsStored
<1>2. QED
  BY <1>1 DEF InOrder

\* Steps that lose the buffer.
LEMMA LostBuffer ==
    ASSUME TypeOK, disk' = disk, buffered' = <<>>
    PROVE  InOrder => InOrder'
<1>1. Stored' = disk
  BY DropBuffer
<1>2. QED
  BY <1>1, OrderOfPrefix DEF InOrder

\* Every step keeps what is stored before the cursor (the batch loop, download_symbol_batches).
LEMMA NextLoopInv ==
    ASSUME TypeOK, LoopInv, InOrder, [Next]_vars
    PROVE  LoopInv' /\ InOrder'
<1> USE DEF LoopInv, Idle, Looping, fileVars, loopVars
<1>1. CASE OpenStore
  BY <1>1, SameStored DEF OpenStore, Goto
<1>2. CASE OpenFails
  BY <1>2, SameStored DEF OpenFails, Return
<1>3. ASSUME NEW c, ResumeAt(c), \A k \in 1..Len(Stored') : Market[Stored'[k]] < cursor'
      PROVE  LoopInv' /\ InOrder'
  BY <1>3, SameStored DEF ResumeAt, Goto
<1>4. CASE ResumeFromFile
  BY <1>3, <1>4, ResumeCovers DEF ResumeFromFile
<1>5. ASSUME NEW c, ResumeAt(c), FileIsEmpty
      PROVE  LoopInv' /\ InOrder'
  <2>1. Stored' = <<>>
    <3>1. pc = "opened" /\ disk = <<>> /\ buffered = <<>>
      BY <1>5 DEF ResumeAt, FileIsEmpty
    <3>2. disk' = <<>> /\ buffered' = <<>>
      BY <1>5, <3>1 DEF ResumeAt
    <3>3. QED
      BY <3>1, <3>2, DropBuffer
  <2>2. Len(Stored') = 0
    BY <2>1
  <2>3. QED
    BY <1>3, <1>5, <2>2
<1>6. CASE ResumeFromStart
  BY <1>5, <1>6 DEF ResumeFromStart
<1>7. CASE ResumeFromHead
  BY <1>5, <1>7 DEF ResumeFromHead
<1>8. CASE HeadFails
  BY <1>8, SameStored DEF HeadFails, Return
<1>9. CASE LeaveLoop
  BY <1>9, SameStored DEF LeaveLoop, Stop
<1>10. CASE StartRequest
  BY <1>10, SameStored, ResolvedEndBound DEF StartRequest, Goto
<1>11. ASSUME NEW batch \in Replies, AppendBatch(batch)
       PROVE  LoopInv' /\ InOrder'
  BY <1>11, AppendOrder DEF AppendBatch, Goto
<1>12. ASSUME NEW batch \in Replies, ReachEnd(batch)
       PROVE  LoopInv' /\ InOrder'
  BY <1>12, SameStored DEF ReachEnd, Stop
<1>13. ASSUME NEW batch \in Replies, RejectBatch(batch)
       PROVE  LoopInv' /\ InOrder'
  BY <1>13, SameStored DEF RejectBatch, Stop
<1>14. CASE SkipEmptyDay
  <2>1. cursor < cursor' /\ cursor \in Nat /\ cursor' \in Nat
    <3>1. Second(cursor) <= Second(end)
      BY <1>14, SecondMonotone DEF SkipEmptyDay, TypeOK
    <3>2. Second(end) <= Horizon
      BY <1>14 DEF SkipEmptyDay
    <3>3. Second(cursor) <= Horizon
      BY <3>1, <3>2, SecondBounds, BoundTypes DEF TypeOK
    <3>4. QED
      BY <1>14, <3>3, NextDayStartBound DEF SkipEmptyDay, TypeOK
  <2>2. Stored' = Stored /\ InOrder' /\ pc = "fetch"
    BY <1>14, SameStored DEF SkipEmptyDay
  <2>3. \A k \in 1..Len(Stored) : Market[Stored[k]] \in Nat
    BY StoredType, ElementOfSeq, MarketType
  <2>4. \A k \in 1..Len(Stored') : Market[Stored'[k]] < cursor'
    BY <2>1, <2>2, <2>3
  <2>5. QED
    BY <1>14, <2>2, <2>4 DEF SkipEmptyDay, Goto
<1>15. CASE FetchFails
  BY <1>15, SameStored DEF FetchFails, Stop
<1>16. CASE CommitBatch
  <2>1. Stored' = Stored /\ InOrder'
    BY <1>16, SameStored, CommittedStored DEF CommitBatch
  <2>2. QED
    BY <1>16, <2>1 DEF CommitBatch, Goto
<1>17. CASE CommitFails
  BY <1>17, SameStored DEF CommitFails, Stop
<1>18. CASE FinishWriter
  BY <1>18, CommittedStored DEF FinishWriter, Return
<1>19. CASE FinishFails
  BY <1>19, LostBuffer DEF FinishFails, Return
<1>20. CASE Cancel
  BY <1>20, SameStored DEF Cancel
<1>21. CASE Crash
  BY <1>21, LostBuffer DEF Crash
<1>22. CASE RunAgain
  BY <1>22, SameStored DEF RunAgain
<1>23. CASE Advance
  BY <1>23, SameStored DEF Advance
<1>24. CASE UNCHANGED vars
  BY <1>24, SameStored DEF vars
<1>25. QED
  BY <1>1, <1>2, <1>4, <1>6, <1>7, <1>8, <1>9, <1>10, <1>11, <1>12, <1>13,
     <1>14, <1>15, <1>16, <1>17, <1>18, <1>19, <1>20, <1>21, <1>22, <1>23,
     <1>24 DEF Next, Worker, Fetch

\* An absent file is in order.
LEMMA InitInOrder == Init => InOrder
<1> SUFFICES ASSUME Init PROVE InOrder
  OBVIOUS
<1>1. TypeOK /\ disk = <<>> /\ buffered = <<>>
  BY InitTypeOK DEF Init
<1>2. Stored = <<>>
  BY <1>1, DropBuffer
<1>3. QED
  BY <1>2 DEF InOrder

\* In every reachable state the file and the writer's buffer are in print order
\* without a repeated trade, and all of it lies before the cursor: the inductive
\* invariant behind validate_provider_batch and the cursor arithmetic.
THEOREM OrderInvariant == Spec => [](TypeOK /\ LoopInv /\ InOrder)
<1>1. Init => TypeOK /\ LoopInv /\ InOrder
  BY InitTypeOK, InitLoopInv, InitInOrder
<1>2. TypeOK /\ LoopInv /\ InOrder /\ [Next]_vars
        => TypeOK' /\ LoopInv' /\ InOrder'
  BY NextTypeOK, NextLoopInv
<1>3. QED
  BY <1>1, <1>2, PTL DEF Spec

\* Every variable of the download keeps to its type.
THEOREM TypeCorrect == Spec => []TypeOK
  BY OrderInvariant, PTL

\* Whatever the market, the provider's batches, the crashes and the cadence of
\* commits: the file is in print order and no trade is in it twice.
THEOREM NoTradeTwice == Spec => []InOrder
  BY OrderInvariant, PTL

\* Every step keeps what commit_interval_seconds = 0 promises: a batch that is
\* appended is committed before the loop goes on.
LEMMA NextNothingAtRisk ==
    TypeOK /\ LoopInv /\ NothingAtRiskWhileWaiting /\ [Next]_vars
        => NothingAtRiskWhileWaiting'
<1> SUFFICES ASSUME LoopInv, NothingAtRiskWhileWaiting, [Next]_vars,
                    CommitInterval = 0, pc' \in {"loop", "fetch"}
             PROVE  buffered' = <<>>
  BY DEF NothingAtRiskWhileWaiting
<1> USE DEF NothingAtRiskWhileWaiting, Goto, Stop, Return
<1>1. CASE OpenStore \/ OpenFails \/ HeadFails
  BY <1>1 DEF OpenStore, OpenFails, HeadFails
<1>2. CASE ResumeFromFile \/ ResumeFromStart \/ ResumeFromHead
  BY <1>2 DEF ResumeFromFile, ResumeFromStart, ResumeFromHead, ResumeAt, LoopInv
<1>3. CASE LeaveLoop \/ StartRequest
  BY <1>3 DEF LeaveLoop, StartRequest
<1>4. CASE Fetch
  BY <1>4 DEF Fetch, AppendBatch, ReachEnd, RejectBatch, SkipEmptyDay, FetchFails
<1>5. CASE CommitBatch \/ CommitFails
  BY <1>5 DEF CommitBatch, CommitFails, CommitDue
<1>6. CASE FinishWriter \/ FinishFails
  BY <1>6 DEF FinishWriter, FinishFails
<1>7. CASE Cancel \/ Crash \/ RunAgain \/ Advance
  BY <1>7 DEF Cancel, Crash, RunAgain, Advance
<1>8. CASE UNCHANGED vars
  BY <1>8 DEF vars
<1>9. QED
  BY <1>1, <1>2, <1>3, <1>4, <1>5, <1>6, <1>7, <1>8 DEF Next, Worker

\* With commit_interval_seconds = 0 no appended tick waits for a later commit
\* while the worker waits for the provider, whatever happened before.
THEOREM NothingAtRisk == Spec => []NothingAtRiskWhileWaiting
<1>1. Init => NothingAtRiskWhileWaiting
  BY DEF Init, NothingAtRiskWhileWaiting
<1>2. TypeOK /\ LoopInv /\ NothingAtRiskWhileWaiting /\ [Next]_vars
        => NothingAtRiskWhileWaiting'
  BY NextNothingAtRisk
<1>3. QED
  BY <1>1, <1>2, OrderInvariant, PTL DEF Spec

-----------------------------------------------------------------------------
(***************************************************************************)
(* A download of a finished range keeps the promise of TickArchive.        *)
(***************************************************************************)

-----------------------------------------------------------------------------
(* Whole seconds.                                                          *)

\* Multiples of a second: order and sums.
LEMMA TimesSub == \A a, b \in Nat :
    /\ Sub * a \in Nat
    /\ a <= b => Sub * a <= Sub * b
    /\ Sub * (a + b) = Sub * a + Sub * b
    /\ Sub * (a + 1) = Sub * a + Sub
  BY SubType

\* The s-th second starts at the instant Sub * s.
LEMMA SecondOfMultiple ==
    ASSUME NEW s \in Nat
    PROVE  Second(Sub * s) = s /\ (Sub * s) % Sub = 0
<1> DEFINE t == Sub * s
           x == Second(t)
<1>1. t \in Nat
  BY TimesSub
<1>2. x \in Nat /\ Sub * x <= t /\ t < Sub * (x + 1)
  BY <1>1, SecondBounds
<1>3. s <= x
  <2> SUFFICES ASSUME x + 1 <= s PROVE FALSE
    BY <1>2
  <2>1. Sub * (x + 1) <= t
    BY <1>2, TimesSub
  <2>2. Sub * (x + 1) \in Nat
    BY <1>2, TimesSub
  <2>3. QED
    BY <1>1, <1>2, <2>1, <2>2
<1>4. x <= s
  <2> SUFFICES ASSUME s + 1 <= x PROVE FALSE
    BY <1>2
  <2>1. Sub * (s + 1) <= Sub * x /\ Sub * (s + 1) = t + Sub
    BY <1>2, TimesSub
  <2>2. Sub * x \in Nat
    BY <1>2, TimesSub
  <2>3. QED
    BY <1>1, <1>2, <2>1, <2>2, SubType
<1>5. x = s
  BY <1>2, <1>3, <1>4
<1>6. t = Sub * (t \div Sub) + (t % Sub) /\ t % Sub \in 0..(Sub - 1)
  BY <1>1, SubType
<1>7. t \div Sub = s
  BY <1>5 DEF Second
<1>8. t = t + (t % Sub)
  BY <1>6, <1>7
<1>9. t % Sub = 0
  BY <1>1, <1>6, <1>8, SubType
<1>10. QED
  BY <1>5, <1>9

\* A whole instant is the start of its second.
LEMMA WholeSecond ==
    ASSUME NEW t \in Nat, t % Sub = 0
    PROVE  t = Sub * Second(t)
<1>1. t = Sub * (t \div Sub) + (t % Sub) /\ t \div Sub \in Nat
  BY SubType
<1>2. Sub * (t \div Sub) \in Nat
  BY <1>1, TimesSub
<1>3. QED
  BY <1>1, <1>2 DEF Second

\* The sum of two whole instants is whole.
LEMMA WholeSum ==
    ASSUME NEW t \in Nat, NEW u \in Nat, t % Sub = 0, u % Sub = 0
    PROVE  \E s \in Nat : t + u = Sub * s
<1>1. t = Sub * Second(t) /\ u = Sub * Second(u)
  BY WholeSecond
<1>2. Second(t) \in Nat /\ Second(u) \in Nat
  BY SecondBounds
<1>3. Sub * (Second(t) + Second(u)) = Sub * Second(t) + Sub * Second(u)
  BY <1>2, TimesSub
<1>4. t + u = Sub * (Second(t) + Second(u))
  BY <1>1, <1>3
<1>5. Second(t) + Second(u) \in Nat
  BY <1>2
<1>6. QED
  BY <1>4, <1>5

\* Instants on the two sides of a whole second are in different seconds.
LEMMA SecondSplits ==
    ASSUME NEW s \in Nat, NEW t \in Nat, NEW u \in Nat, t < Sub * s, Sub * s <= u
    PROVE  Second(t) < Second(u)
<1>1. s <= Second(u)
  <2>1. Second(Sub * s) <= Second(u)
    BY SecondMonotone, TimesSub
  <2>2. QED
    BY <2>1, SecondOfMultiple
<1>2. Second(t) < s
  <2> SUFFICES ASSUME s <= Second(t) PROVE FALSE
    BY SecondBounds
  <2>1. Sub * s <= Sub * Second(t)
    BY TimesSub, SecondBounds
  <2>2. Sub * s \in Nat /\ Sub * Second(t) \in Nat /\ Sub * Second(t) <= t
    BY TimesSub, SecondBounds
  <2>3. QED
    BY <2>1, <2>2
<1>3. QED
  BY <1>1, <1>2, SecondBounds

-----------------------------------------------------------------------------
(* One batch of a settled download.                                        *)

\* Every wanted trade from the cursor on is visible to the request.
LEMMA WantedIsPending ==
    ASSUME TypeOK, Settled
    PROVE  /\ \A m \in Wanted : Market[m] >= cursor => m \in Pending(cursor)
           /\ \A m \in Wanted : /\ m \in Trades /\ m \in Nat
                                /\ Market[m] \in Nat /\ Market[m] < End
                                /\ Market[m] >= Origin
<1>1. now \in Nat /\ FirstNow \in Nat /\ FirstNow <= now
  BY BoundTypes DEF TypeOK
<1>2. \A m \in Wanted : /\ m \in Trades /\ m \in Nat
                        /\ Market[m] \in Nat /\ Market[m] < End
                        /\ Market[m] >= Origin
  <2>1. End # None
    BY DEF Settled
  <2>2. \A m \in Wanted : m \in Trades /\ Market[m] < End /\ Market[m] >= Origin
    BY <2>1 DEF Wanted
  <2>3. QED
    BY <2>2, MarketType
<1>3. ASSUME NEW m \in Wanted, Market[m] >= cursor PROVE m \in Pending(cursor)
  <2>1. m \in Trades /\ PrintTime[m] \in Nat
    BY <1>2, PrintType
  <2>2. PrintTime[m] < now
    BY <1>1, <2>1 DEF Settled
  <2>3. QED
    BY <1>3, <2>1, <2>2 DEF Pending, Printed
<1>4. QED
  BY <1>2, <1>3

\* The answer starts at the first wanted trade from the cursor on.
LEMMA AnswerStarts ==
    ASSUME TypeOK, SettledInv, Settled, pc = "fetch",
           NEW i \in Pending(cursor), NEW j \in Pending(cursor), i <= j,
           Answer(i, j),
           NEW m \in Wanted, Market[m] >= cursor
    PROVE  i <= m
<1>1. m \in Pending(cursor) /\ m \in Nat /\ Market[m] \in Nat /\ Market[m] < End
  BY WantedIsPending
<1>2. end = End /\ cursor \in Nat /\ end \in Nat /\ i \in Trades /\ i \in Nat
  BY MarketType DEF SettledInv, TypeOK, Pending, Printed
<1>3. CASE Provider = "ibkr"
  BY <1>1, <1>3 DEF Answer, IbkrAnswer
<1>4. CASE Provider # "ibkr"
  <2>1. DatabentoAnswer(i, j)
    BY <1>4 DEF Answer
  <2>2. CASE m \in InWindow
    BY <2>1, <2>2 DEF DatabentoAnswer
  <2>3. CASE m \notin InWindow
    <3>1. cursor + Window <= Market[m] /\ cursor + Window \in Nat
      BY <1>1, <1>2, <2>3, DownloadAssumption DEF InWindow
    <3>2. Market[i] < cursor + Window /\ Market[i] \in Nat
      BY <1>2, <2>1, MarketType DEF DatabentoAnswer, InWindow
    <3>3. ~(m <= i)
      BY <1>1, <1>2, <3>1, <3>2, MarketType DEF Pending, Printed
    <3>4. QED
      BY <1>1, <1>2, <3>3
  <2>4. QED
    BY <2>2, <2>3
<1>5. QED
  BY <1>3, <1>4

\* Its last retained trade is the last wanted one of its second.
LEMMA AnswerIsWhole ==
    ASSUME TypeOK, LoopInv, SettledInv, Settled, pc = "fetch",
           NEW i \in Pending(cursor), NEW j \in Pending(cursor), i <= j,
           Answer(i, j),
           NEW q \in i..j, Market[q] < end, q < j => Market[q + 1] >= end
    PROVE  \A m \in Wanted : Second(Market[m]) = Second(Market[q]) => m <= q
<1>1. end = End /\ cursor \in Nat /\ end \in Nat
  BY DEF SettledInv, TypeOK
<1>2. /\ i \in Trades /\ j \in Trades /\ q \in Trades
      /\ i \in Nat /\ j \in Nat /\ q \in Nat /\ i <= q /\ q <= j
      /\ Market[i] \in Nat /\ Market[j] \in Nat /\ Market[q] \in Nat
      /\ Market[i] >= cursor /\ Market[q] >= Market[i]
  <2>1. i \in Trades /\ j \in Trades /\ Market[i] >= cursor
    BY DEF Pending, Printed
  <2>2. q \in Trades
    BY <2>1, MarketAssumption DEF Trades
  <2>3. i \in Nat /\ j \in Nat /\ q \in Nat /\ i <= q /\ q <= j
    BY <2>1, <2>2, MarketType
  <2>4. QED
    BY <2>1, <2>2, <2>3, MarketType
<1>3. ASSUME NEW m \in Wanted, Second(Market[m]) = Second(Market[q]), q < m
      PROVE  FALSE
  <2>1. m \in Trades /\ m \in Nat /\ Market[m] \in Nat /\ Market[m] < End
    BY WantedIsPending
  <2>2. Market[m] >= Market[q] /\ Market[m] >= cursor
    BY <1>1, <1>2, <1>3, <2>1, MarketType
  <2>3. m \in Pending(cursor)
    BY <2>2, WantedIsPending
  <2>4. CASE q < j
    <3>1. q + 1 \in Trades /\ q + 1 <= m
      BY <1>2, <1>3, <2>1, <2>4, MarketAssumption DEF Trades
    <3>2. Market[q + 1] <= Market[m] /\ Market[q + 1] \in Nat
      BY <2>1, <3>1, MarketType
    <3>3. QED
      BY <1>1, <2>1, <2>4, <3>2
  <2>5. CASE ~(q < j)
    <3>1. q = j
      BY <1>2, <2>5
    <3>2. CASE Provider = "ibkr"
      <4>1. m <= j
        BY <1>3, <2>3, <3>1, <3>2 DEF Answer, IbkrAnswer
      <4>2. QED
        BY <1>2, <1>3, <2>1, <3>1, <4>1
    <3>3. CASE Provider # "ibkr"
      <4>1. DatabentoAnswer(i, j) /\ Provider = "databento"
        BY <3>3, DownloadAssumption DEF Answer
      <4>2. m \notin InWindow
        <5>1. ~(m <= j)
          BY <1>2, <1>3, <2>1, <3>1
        <5>2. QED
          BY <4>1, <5>1 DEF DatabentoAnswer
      <4>3. cursor + Window <= Market[m] /\ Window \in Nat
        BY <1>1, <2>1, <2>3, <4>2, DownloadAssumption DEF InWindow
      <4>4. Market[q] < cursor + Window
        BY <3>1, <4>1 DEF DatabentoAnswer, InWindow
      <4>5. cursor % Sub = 0 /\ Window % Sub = 0
        BY <4>1 DEF SettledInv, Looping, Settled, WindowCoversDay
      <4>6. PICK s \in Nat : cursor + Window = Sub * s
        BY <1>1, <4>3, <4>5, WholeSum
      <4>7. Second(Market[q]) < Second(Market[m])
        BY <1>2, <2>1, <4>3, <4>4, <4>6, SecondSplits
      <4>8. QED
        BY <1>2, <1>3, <2>1, <4>7, SecondBounds
    <3>4. QED
      BY <3>2, <3>3
  <2>6. QED
    BY <2>4, <2>5
<1>4. \A m \in Wanted : m \in Nat
  BY WantedIsPending
<1>5. QED
  BY <1>2, <1>3, <1>4

-----------------------------------------------------------------------------
(* What is stored stays exact.                                             *)

\* Nothing of what follows depends on which sequence is meant; both the stored
\* and the committed sequence are used.
LEMMA ExactEmpty == Exact(<<>>)
  BY DEF Exact, Contiguous, StartsAtOrigin, EndsAtSecond

\* The first instant asked for is an instant.
LEMMA OriginType == Origin \in Nat
  BY MarketAssumption DEF Origin, None

\* The next trade after one that is not the last.
LEMMA NextTrade ==
    \A a, b \in Trades : a < b => a + 1 \in Trades /\ a + 1 <= b
<1>1. Len(Market) \in Nat
  BY MarketAssumption, LenProperties
<1>2. QED
  BY <1>1 DEF Trades

\* The trades of a run that ends at q are wanted when its ends are.
LEMMA RunIsWanted ==
    ASSUME TypeOK, Settled, NEW i \in Trades, NEW q \in Trades,
           Market[i] >= Origin, Market[q] < End,
           NEW m \in i..q
    PROVE  m \in Wanted
<1>1. m \in Trades /\ i \in Nat /\ q \in Nat /\ i <= m /\ m <= q /\ m \in Nat
  BY MarketAssumption DEF Trades
<1>2. Market[i] <= Market[m] /\ Market[m] <= Market[q]
  BY <1>1, MarketType
<1>3. /\ Market[i] \in Nat /\ Market[m] \in Nat /\ Market[q] \in Nat
      /\ Origin \in Nat /\ End \in Nat
  BY <1>1, MarketType, OriginType, MarketAssumption DEF Settled
<1>4. Market[m] >= Origin /\ Market[m] < End
  BY <1>2, <1>3
<1>5. QED
  BY <1>1, <1>4 DEF Wanted

\* What comes before the second after q is, up to q's own second, before q.
LEMMA BeforeSecondAfter ==
    ASSUME NEW q \in Trades, NEW m \in Trades, Market[m] < SecondAfter(q),
           Second(Market[m]) = Second(Market[q]) => m <= q
    PROVE  m <= q
<1> SUFFICES ASSUME q < m PROVE FALSE
  BY MarketType
<1>1. /\ Market[q] <= Market[m] /\ Market[m] \in Nat /\ Market[q] \in Nat
      /\ m \in Nat /\ q \in Nat
  BY MarketType
<1>2. Second(Market[q]) <= Second(Market[m])
  BY <1>1, SecondMonotone
<1>3. Second(Market[q]) \in Nat /\ Second(Market[m]) \in Nat
  BY <1>1, SecondBounds
<1>4. Second(Market[m]) <= Second(Market[q])
  <2> SUFFICES ASSUME Second(Market[q]) + 1 <= Second(Market[m]) PROVE FALSE
    BY <1>3
  <2>1. SecondAfter(q) <= Sub * Second(Market[m])
    BY <1>3, TimesSub DEF SecondAfter
  <2>2. Sub * Second(Market[m]) <= Market[m] /\ Sub * Second(Market[m]) \in Nat
    BY <1>1, <1>3, SecondBounds, TimesSub
  <2>3. SecondAfter(q) \in Nat
    BY SecondAfterBound
  <2>4. QED
    BY <1>1, <2>1, <2>2, <2>3
<1>5. QED
  BY <1>1, <1>2, <1>3, <1>4

\* The cursor after a batch is a whole second.
LEMMA SecondAfterIsWhole ==
    ASSUME NEW m \in Trades
    PROVE  SecondAfter(m) % Sub = 0
<1>1. Second(Market[m]) + 1 \in Nat
  BY MarketType, SecondBounds
<1>2. QED
  BY <1>1, SecondOfMultiple DEF SecondAfter

\* A batch continues the stored trades without a gap.
LEMMA AppendExact ==
    ASSUME TypeOK, LoopInv, InOrder, SettledInv, Settled,
           NEW batch \in Replies, AppendBatch(batch)
    PROVE  /\ Exact(Stored')
           /\ \A m \in Wanted : Market[m] < cursor' =>
                Stored' # <<>> /\ m <= Stored'[Len(Stored')]
           /\ cursor' >= Origin
           /\ cursor' % Sub = 0
<1>1. pc = "fetch" /\ disk' = disk
  BY DEF AppendBatch, fileVars
<1>2. PICK i \in Pending(cursor), j \in Pending(cursor) : \E q \in i..j :
        /\ Answer(i, j)
        /\ buffered' = buffered \o Run(i, q)
        /\ cursor' = SecondAfter(q)
        /\ Market[q] < end
        /\ q < j => Market[q + 1] >= end
  BY AppendedRun
<1>3. PICK q \in i..j :
        /\ Answer(i, j)
        /\ buffered' = buffered \o Run(i, q)
        /\ cursor' = SecondAfter(q)
        /\ Market[q] < end
        /\ q < j => Market[q + 1] >= end
  BY <1>2
<1>4. /\ i \in Trades /\ j \in Trades /\ q \in Trades
      /\ i \in Nat /\ j \in Nat /\ q \in Nat /\ i <= q /\ i <= j
      /\ Market[i] \in Nat /\ Market[q] \in Nat
      /\ Market[i] >= cursor /\ Market[i] <= Market[q]
  <2>1. i \in Trades /\ j \in Trades /\ Market[i] >= cursor
    BY DEF Pending, Printed
  <2>2. q \in Trades /\ i <= q /\ i <= j
    BY <2>1, MarketAssumption DEF Trades
  <2>3. QED
    BY <2>1, <2>2, MarketType
<1>5. /\ cursor \in Nat /\ cursor >= Origin /\ Origin \in Nat
      /\ end = End /\ End \in Nat
  BY <1>1, OriginType, MarketAssumption DEF TypeOK, SettledInv, Looping, Settled
<1>6. /\ \A m \in Wanted : Market[m] >= cursor => i <= m
      /\ \A m \in Wanted : Second(Market[m]) = Second(Market[q]) => m <= q
  BY <1>1, <1>3, <1>4, AnswerStarts, AnswerIsWhole
<1>7. \A m \in i..q : m \in Wanted
  BY <1>3, <1>4, <1>5, RunIsWanted
<1>8. \A m \in Wanted : m \in Trades /\ m \in Nat /\ Market[m] \in Nat
  BY WantedIsPending
<1> DEFINE L == Len(Stored)
           M == Len(Stored')
<1>9. /\ L \in Nat /\ M = L + (q - i + 1) /\ M \in Nat /\ M > L
      /\ \A k \in 1..L : Stored'[k] = Stored[k]
      /\ \A k \in (L + 1)..M : Stored'[k] = i + (k - L) - 1
      /\ Stored' \in Seq(Trades)
  <2>1. /\ L \in Nat /\ M = L + (q - i + 1)
        /\ \A k \in 1..L : Stored'[k] = Stored[k]
        /\ \A k \in (L + 1)..M : Stored'[k] = i + (k - L) - 1
        /\ Stored' \in Seq(Trades)
    BY <1>1, <1>3, <1>4, AppendStored, DiskIsPrefix
  <2>2. QED
    BY <1>4, <2>1
<1>10. Exact(Stored)
  BY DEF SettledInv
<1> DEFINE Shape ==
        /\ \A k \in 1..M : Stored'[k] \in Wanted
        /\ \A k \in 1..M : Stored'[k] = Stored'[1] + k - 1
        /\ \A m \in Wanted : Stored'[1] <= m
<1>11. \A k \in 1..L : Stored[k] \in Wanted /\ Stored[k] \in Nat
  BY <1>8, <1>10 DEF Exact
<1>12. Stored'[M] = q /\ M \in 1..M /\ Stored' # <<>>
  <2>1. M \in (L + 1)..M /\ M \in 1..M /\ M # 0
    BY <1>9
  <2>2. Stored'[M] = q
    BY <1>4, <1>9, <2>1
  <2>3. Stored' # <<>>
    BY <2>1
  <2>4. QED
    BY <2>1, <2>2, <2>3
<1>13. \A m \in Wanted : Market[m] < cursor =>
          L \in 1..L /\ m <= Stored[L]
  <2>1. NothingMissedBefore(cursor)
    BY <1>1 DEF SettledInv, Looping
  <2>2. Stored # <<>> => L \in 1..L
    BY StoredType, EmptySeq
  <2>3. QED
    BY <2>1, <2>2 DEF NothingMissedBefore
<1> HIDE DEF L, M
<1>14. ASSUME L = 0 PROVE Shape
  <2>1. \A k \in 1..M : Stored'[k] = i + k - 1
    BY <1>4, <1>9, <1>14
  <2>2. Stored'[1] = i
    BY <1>4, <1>9, <1>14, <2>1
  <2>3. \A k \in 1..M : Stored'[k] = Stored'[1] + k - 1
    BY <2>1, <2>2
  <2>4. \A m \in Wanted : Stored'[1] <= m
    <3> SUFFICES ASSUME NEW m \in Wanted PROVE i <= m
      BY <2>2
    <3>1. ~(Market[m] < cursor)
      BY <1>13, <1>14
    <3>2. QED
      BY <1>5, <1>6, <1>8, <3>1
  <2>5. \A k \in 1..M : Stored'[k] \in Wanted
    <3>1. \A k \in 1..M : i + k - 1 \in i..q
      BY <1>4, <1>9, <1>14
    <3>2. QED
      BY <1>7, <2>1, <3>1
  <2>6. QED
    BY <2>3, <2>4, <2>5
<1>15. ASSUME L # 0 PROVE Shape
  <2>1. L \in 1..L /\ 1 \in 1..L
    BY <1>9, <1>15
  <2> DEFINE last == Stored[L]
  <2>2. last \in Wanted /\ last \in Trades /\ last \in Nat /\ last = Stored[1] + L - 1
    BY <1>8, <1>10, <1>11, <2>1 DEF Exact, Contiguous, L
  <2>3. Market[last] < cursor /\ Market[last] >= Origin /\ Market[last] \in Nat
    BY <1>1, <2>1, <2>2, WantedIsPending DEF LoopInv, Looping, L
  <2> HIDE DEF last
  <2>4. last < i
    <3> SUFFICES ASSUME i <= last PROVE FALSE
      BY <1>4, <2>2
    <3>1. Market[i] <= Market[last]
      BY <1>4, <2>2, MarketType
    <3>2. QED
      BY <1>4, <1>5, <2>3, <3>1
  <2>5. i = last + 1
    <3> SUFFICES ASSUME last + 1 < i PROVE FALSE
      BY <1>4, <2>2, <2>4
    <3> DEFINE n == last + 1
    <3>1. n \in Trades /\ n \in Nat /\ last <= n /\ n <= i /\ n < i
      BY <1>4, <2>2, NextTrade
    <3> HIDE DEF n
    <3>2. /\ Market[last] <= Market[n] /\ Market[n] <= Market[i]
          /\ Market[n] \in Nat
      BY <1>4, <2>2, <3>1, MarketType
    <3>3. Market[n] >= Origin /\ Market[n] < End
      BY <1>3, <1>4, <1>5, <2>3, <3>2
    <3>4. n \in Wanted
      BY <3>1, <3>3 DEF Wanted
    <3>5. ~(Market[n] < cursor)
      <4> SUFFICES ASSUME Market[n] < cursor PROVE FALSE
        OBVIOUS
      <4>1. n <= last
        BY <1>13, <3>4 DEF last
      <4>2. QED
        BY <2>2, <3>1, <4>1 DEF n
    <3>6. i <= n
      BY <1>5, <1>6, <3>2, <3>4, <3>5
    <3>7. QED
      BY <1>4, <3>1, <3>6
  <2>6. Stored'[1] = Stored[1] /\ Stored[1] \in Nat /\ Stored[1] \in Wanted
    BY <1>9, <1>11, <2>1
  <2>7. \A k \in 1..M : Stored'[k] = Stored'[1] + k - 1
    <3> SUFFICES ASSUME NEW k \in 1..M PROVE Stored'[k] = Stored[1] + k - 1
      BY <2>6
    <3>1. CASE k <= L
      <4>1. k \in 1..L
        BY <1>9, <3>1
      <4>2. QED
        BY <1>9, <1>10, <4>1 DEF Exact, Contiguous, L
    <3>2. CASE ~(k <= L)
      <4>1. k \in (L + 1)..M
        BY <1>9, <3>2
      <4>2. Stored'[k] = i + (k - L) - 1
        BY <1>9, <4>1
      <4>3. L \in Nat /\ k \in Int
        BY <1>9
      <4>4. i = Stored[1] + L
        BY <2>2, <2>5, <2>6, <4>3
      <4>5. QED
        BY <2>6, <4>2, <4>3, <4>4
    <3>3. QED
      BY <3>1, <3>2
  <2>8. \A m \in Wanted : Stored'[1] <= m
    <3>1. Stored # <<>>
      BY <1>15 DEF L
    <3>2. QED
      BY <1>10, <2>6, <3>1 DEF Exact, StartsAtOrigin
  <2>9. \A k \in 1..M : Stored'[k] \in Wanted
    <3> SUFFICES ASSUME NEW k \in 1..M PROVE Stored'[k] \in Wanted
      OBVIOUS
    <3>1. CASE k <= L
      <4>1. k \in 1..L
        BY <1>9, <3>1
      <4>2. QED
        BY <1>9, <1>11, <4>1
    <3>2. CASE ~(k <= L)
      <4>1. k \in (L + 1)..M
        BY <1>9, <3>2
      <4>2. Stored'[k] \in i..q
        BY <1>4, <1>9, <4>1
      <4>3. QED
        BY <1>7, <4>2
    <3>3. QED
      BY <3>1, <3>2
  <2>10. QED
    BY <2>7, <2>8, <2>9
<1>16. Exact(Stored')
  <2>1. Shape
    BY <1>14, <1>15
  <2>2. \A m \in Wanted :
          Second(Market[m]) = Second(Market[Stored'[M]]) => m <= Stored'[M]
    BY <1>6, <1>12
  <2>3. QED
    BY <2>1, <2>2 DEF Exact, Contiguous, StartsAtOrigin, EndsAtSecond, M
<1>17. \A m \in Wanted : Market[m] < cursor' => m <= q
  BY <1>3, <1>4, <1>6, <1>8, BeforeSecondAfter
<1>18. cursor' >= Origin
  BY <1>3, <1>4, <1>5, SecondAfterBound
<1>19. cursor' % Sub = 0
  BY <1>3, <1>4, SecondAfterIsWhole
<1>20. QED
  BY <1>12, <1>16, <1>17, <1>18, <1>19 DEF M

\* Resuming from the file starts where its last second ended.
LEMMA ResumeExact ==
    ASSUME TypeOK, LoopInv, InOrder, SettledInv, Settled, ResumeFromFile
    PROVE  /\ Stored' = disk /\ Stored = disk /\ disk' = disk
           /\ cursor' >= Origin /\ cursor' % Sub = 0
           /\ \A m \in Wanted : Market[m] < cursor' =>
                disk # <<>> /\ m <= disk[Len(disk)]
<1>1. pc = "opened"
  BY DEF ResumeFromFile, ResumeAt
<1>2. ~torn /\ buffered = <<>> /\ disk # <<>>
  BY <1>1 DEF LoopInv, Idle, ResumeFromFile, FileIsEmpty
<1>3. PICK m \in LastTicks : ResumeAt(SecondAfter(m))
  BY DEF ResumeFromFile
<1>4. m = disk[Len(disk)] /\ Len(disk) \in 1..Len(disk) /\ m \in Trades
  <2>1. m = disk[Len(disk)]
    BY <1>2, <1>3 DEF LastTicks
  <2>2. Len(disk) \in Nat \ {0}
    BY <1>2, EmptySeq DEF TypeOK
  <2>3. Len(disk) \in 1..Len(disk)
    BY <2>2
  <2>4. QED
    BY <2>1, <2>3, DiskIsPrefix
<1>5. Stored' = disk /\ Stored = disk /\ disk' = disk /\ cursor' = SecondAfter(m)
  BY <1>2, <1>3, DropBuffer DEF ResumeAt, fileVars
<1>6. /\ m \in Wanted
      /\ \A n \in Wanted : Second(Market[n]) = Second(Market[m]) => n <= m
  BY <1>2, <1>4 DEF SettledInv, Exact, EndsAtSecond
<1>7. \A n \in Wanted : Market[n] < SecondAfter(m) => n <= m
  BY <1>4, <1>6, WantedIsPending, BeforeSecondAfter
<1>8. Market[m] >= Origin /\ Market[m] \in Nat /\ Origin \in Nat
  BY <1>6, WantedIsPending, OriginType
<1>9. SecondAfter(m) >= Origin
  BY <1>4, <1>8, SecondAfterBound
<1>10. QED
  BY <1>2, <1>4, <1>5, <1>7, <1>9, SecondAfterIsWhole

\* An empty answer passes over no wanted trade.
LEMMA SkipExact ==
    ASSUME TypeOK, LoopInv, SettledInv, Settled, SkipEmptyDay
    PROVE  /\ cursor' >= Origin
           /\ Provider = "databento" => cursor' % Sub = 0
           /\ \A m \in Wanted : Market[m] < cursor' => Market[m] < cursor
<1>1. pc = "fetch" /\ cursor' = NextDayStart(cursor) /\ EmptyReply
  BY DEF SkipEmptyDay
<1>2. end = End /\ cursor \in Nat /\ end \in Nat /\ cursor >= Origin /\ Origin \in Nat
  BY <1>1, OriginType DEF SettledInv, TypeOK, Looping
<1>3. Second(cursor) \in 0..Horizon
  <2>1. cursor <= end /\ Second(end) <= Horizon
    BY <1>1, <1>2 DEF LoopInv
  <2>2. Second(cursor) <= Second(end)
    BY <1>2, <2>1, SecondMonotone
  <2>3. QED
    BY <1>2, <2>1, <2>2, SecondBounds, BoundTypes
<1>4. cursor < cursor' /\ cursor' \in Nat
  <2>1. Second(cursor) <= Horizon
    BY <1>3, BoundTypes
  <2>2. QED
    BY <1>1, <1>2, <2>1, NextDayStartBound
<1>5. cursor' % Sub = 0
  <2>1. NextMidnight[Second(cursor)] \in Nat
    BY <1>3, MarketAssumption
  <2>2. QED
    BY <1>1, <2>1, SecondOfMultiple DEF NextDayStart
<1>6. ASSUME NEW m \in Wanted, Market[m] < cursor', Market[m] >= cursor PROVE FALSE
  <2>1. m \in Pending(cursor) /\ Market[m] \in Nat /\ Market[m] < End
    BY <1>6, WantedIsPending
  <2>2. CASE Provider = "ibkr"
    <3>1. Market[m] >= NextDayStart(cursor)
      BY <1>1, <2>1, <2>2 DEF EmptyReply, IbkrEmptyReply
    <3>2. QED
      BY <1>1, <1>4, <1>6, <2>1, <3>1
  <2>3. CASE Provider # "ibkr"
    <3>1. InWindow = {} /\ Provider = "databento"
      BY <1>1, <2>3, DownloadAssumption DEF EmptyReply
    <3>2. Sub * NextMidnight[Second(cursor)] <= Sub * Second(cursor) + Window
      BY <1>3, <3>1 DEF Settled, WindowCoversDay
    <3>3. Sub * Second(cursor) <= cursor /\ Sub * Second(cursor) \in Nat
      BY <1>2, SecondBounds, TimesSub
    <3>4. Window \in Nat
      BY DownloadAssumption
    <3>5. cursor' <= cursor + Window
      BY <1>1, <1>2, <1>4, <3>2, <3>3, <3>4 DEF NextDayStart
    <3>6. Market[m] < cursor + Window /\ Market[m] < end
      BY <1>2, <1>4, <1>6, <2>1, <3>4, <3>5
    <3>7. m \in InWindow
      BY <2>1, <3>6 DEF InWindow
    <3>8. QED
      BY <3>1, <3>7
  <2>4. QED
    BY <2>2, <2>3
<1>7. \A m \in Wanted : Market[m] \in Nat
  BY WantedIsPending
<1>8. QED
  BY <1>2, <1>4, <1>5, <1>6, <1>7

\* A batch that lies wholly past the end ends the download with nothing missed.
LEMMA ReachEndExact ==
    ASSUME TypeOK, LoopInv, SettledInv, Settled,
           NEW batch \in Replies, ReachEnd(batch)
    PROVE  \A m \in Wanted : Market[m] < cursor
<1>1. pc = "fetch" /\ ValidBatch(batch) /\ Retained(batch, 0)
  BY DEF ReachEnd
<1>2. PICK i \in Pending(cursor), j \in Pending(cursor) :
        batch = Run(i, j) /\ i <= j /\ Answer(i, j)
  BY <1>1, ValidReply
<1>3. i \in Trades /\ j \in Trades /\ i \in Nat /\ j \in Nat /\ Market[i] \in Nat
  BY MarketType DEF Pending, Printed
<1>4. 1 \in 1..Len(batch) /\ batch[1] = i
  BY <1>2, <1>3, RunProperties
<1>5. end = End /\ end \in Nat
  BY <1>1 DEF SettledInv, TypeOK
<1>6. ~(Market[i] < end)
  BY <1>1, <1>4 DEF Retained
<1>7. ASSUME NEW m \in Wanted, ~(Market[m] < cursor) PROVE FALSE
  <2>1. m \in Trades /\ Market[m] \in Nat /\ Market[m] < End
    BY WantedIsPending
  <2>2. Market[m] >= cursor
    BY <1>7, <2>1 DEF TypeOK
  <2>3. i <= m
    BY <1>1, <1>2, <2>2, AnswerStarts
  <2>4. Market[i] <= Market[m]
    BY <1>3, <2>1, <2>3, MarketType
  <2>5. QED
    BY <1>3, <1>5, <1>6, <2>1, <2>4
<1>8. QED
  BY <1>7

-----------------------------------------------------------------------------
(* The invariant of a settled download.                                    *)

\* An absent file is exact.
LEMMA InitSettledInv == Init => SettledInv
<1> SUFFICES ASSUME Init PROVE SettledInv
  OBVIOUS
<1>1. TypeOK /\ disk = <<>> /\ buffered = <<>> /\ pc = "idle"
  BY InitTypeOK DEF Init
<1>2. Stored = <<>>
  BY <1>1, DropBuffer
<1>3. QED
  BY <1>1, <1>2, ExactEmpty DEF SettledInv, Looping

\* Every step of a settled download keeps SettledInv.
LEMMA NextSettledInv ==
    ASSUME TypeOK, LoopInv, InOrder, SettledInv, [Next]_vars
    PROVE  SettledInv'
<1> SUFFICES ASSUME Settled PROVE SettledInv'
  BY DEF SettledInv
<1>0. /\ Exact(Stored) /\ Exact(disk)
      /\ pc \in Looping => /\ cursor >= Origin
                           /\ NothingMissedBefore(cursor)
                           /\ Provider = "databento" => cursor % Sub = 0
      /\ pc = "fetch" => end = End
      /\ pc \in {"finish", "done"} /\ result = "ok" /\ ~cancel =>
            NothingMissedBefore(end)
  BY DEF SettledInv
<1>end. ResolvedEnd = End
  BY DEF ResolvedEnd, Settled
\* Steps that leave the file, the buffer and the cursor alone.
<1>same. ASSUME disk' = disk, buffered' = buffered
         PROVE  /\ Exact(Stored') /\ Exact(disk')
                /\ cursor' = cursor => (NothingMissedBefore(cursor)
                                          => NothingMissedBefore(cursor)')
                /\ end' = end => (NothingMissedBefore(end)
                                          => NothingMissedBefore(end)')
  <2>1. Stored' = Stored
    BY <1>same, SameStored
  <2>2. QED
    BY <1>0, <1>same, <2>1 DEF NothingMissedBefore
<1> USE DEF Idle, Looping, fileVars, loopVars
<1>1. CASE OpenStore
  BY <1>0, <1>1, <1>same DEF OpenStore, Goto, SettledInv
<1>2. CASE OpenFails
  BY <1>0, <1>2, <1>same DEF OpenFails, Return, SettledInv
<1>3. CASE ResumeFromFile
  <2>1. /\ Exact(Stored') /\ Exact(disk')
        /\ cursor' >= Origin /\ cursor' % Sub = 0
        /\ NothingMissedBefore(cursor)'
    BY <1>0, <1>3, ResumeExact DEF NothingMissedBefore
  <2>2. pc' = "loop"
    BY <1>3 DEF ResumeFromFile, ResumeAt, Goto
  <2>3. QED
    BY <2>1, <2>2 DEF SettledInv
<1>4. ASSUME NEW c, ResumeAt(c), c >= Origin, \A m \in Wanted : ~(Market[m] < c),
             Provider = "databento" => c % Sub = 0
      PROVE  SettledInv'
  <2>1. Exact(Stored') /\ Exact(disk')
    BY <1>4, <1>same DEF ResumeAt
  <2>2. NothingMissedBefore(cursor)'
    BY <1>4 DEF ResumeAt, NothingMissedBefore
  <2>3. pc' = "loop" /\ cursor' = c
    BY <1>4 DEF ResumeAt, Goto
  <2>4. QED
    BY <1>4, <2>1, <2>2, <2>3 DEF SettledInv
<1>5. CASE ResumeFromStart
  <2>1. ResumeAt(Start) /\ Start # None
    BY <1>5 DEF ResumeFromStart
  <2>2. Start = Origin /\ Origin \in Nat
    BY <2>1, OriginType DEF Origin
  <2>3. \A m \in Wanted : ~(Market[m] < Start)
    BY <2>2, WantedIsPending
  <2>4. Provider = "databento" => Start % Sub = 0
    BY DEF Settled, WindowCoversDay
  <2>5. QED
    BY <1>4, <2>1, <2>2, <2>3, <2>4
<1>6. CASE ResumeFromHead
  <2>1. PICK h \in 0..LastNow : (\A m \in Trades : h <= Market[m]) /\ ResumeAt(h)
    BY <1>6 DEF ResumeFromHead
  <2>2. Start = None /\ Provider # "databento"
    BY <1>6, DownloadAssumption DEF ResumeFromHead
  <2>3. h >= Origin
    BY <2>1, <2>2, BoundTypes DEF Origin
  <2>4. \A m \in Wanted : ~(Market[m] < h)
    BY <2>1, WantedIsPending, BoundTypes
  <2>5. QED
    BY <1>4, <2>1, <2>2, <2>3, <2>4
<1>7. CASE HeadFails
  BY <1>0, <1>7, <1>same DEF HeadFails, Return, SettledInv
<1>8. CASE LeaveLoop
  <2>1. /\ pc = "loop" /\ pc' = "finish" /\ end' = End /\ cancel' = cancel
        /\ Exact(Stored') /\ Exact(disk') /\ Stored' = Stored
    BY <1>8, <1>end, <1>same, SameStored DEF LeaveLoop, Stop
  <2>2. ASSUME ~cancel PROVE NothingMissedBefore(end)'
    <3>1. cursor >= End
      BY <1>8, <1>end, <2>2 DEF LeaveLoop
    <3>2. \A m \in Wanted : Market[m] < cursor
      BY <3>1, WantedIsPending, MarketAssumption DEF TypeOK, Settled
    <3>3. QED
      BY <1>0, <2>1, <3>2 DEF NothingMissedBefore
  <2>3. QED
    BY <2>1, <2>2 DEF SettledInv
<1>9. CASE StartRequest
  BY <1>0, <1>9, <1>end, <1>same DEF StartRequest, Goto, SettledInv
<1>10. ASSUME NEW batch \in Replies, AppendBatch(batch) PROVE SettledInv'
  <2>1. /\ Exact(Stored') /\ cursor' >= Origin /\ cursor' % Sub = 0
        /\ NothingMissedBefore(cursor)'
    BY <1>10, AppendExact DEF NothingMissedBefore
  <2>2. disk' = disk /\ pc' = "commit"
    BY <1>10 DEF AppendBatch, Goto
  <2>3. QED
    BY <1>0, <2>1, <2>2 DEF SettledInv
<1>11. ASSUME NEW batch \in Replies, ReachEnd(batch) PROVE SettledInv'
  <2>1. \A m \in Wanted : Market[m] < cursor
    BY <1>11, ReachEndExact
  <2>2. /\ pc = "fetch" /\ pc' = "finish" /\ Stored' = Stored
        /\ Exact(Stored') /\ Exact(disk')
    BY <1>11, <1>same, SameStored DEF ReachEnd, Stop
  <2>3. NothingMissedBefore(end)'
    BY <1>0, <2>1, <2>2 DEF NothingMissedBefore
  <2>4. QED
    BY <2>2, <2>3 DEF SettledInv
<1>12. ASSUME NEW batch \in Replies, RejectBatch(batch) PROVE SettledInv'
  BY <1>0, <1>12, <1>same DEF RejectBatch, Stop, SettledInv
<1>13. CASE SkipEmptyDay
  <2>1. /\ pc = "fetch" /\ pc' = "loop" /\ Stored' = Stored
        /\ Exact(Stored') /\ Exact(disk')
    BY <1>13, <1>same, SameStored DEF SkipEmptyDay, Goto
  <2>2. NothingMissedBefore(cursor)'
    BY <1>0, <1>13, <2>1, SkipExact DEF NothingMissedBefore
  <2>3. QED
    BY <1>13, <2>1, <2>2, SkipExact DEF SettledInv
<1>14. CASE FetchFails
  BY <1>0, <1>14, <1>same DEF FetchFails, Stop, SettledInv
<1>15. CASE CommitBatch
  <2>1. Stored' = Stored /\ (disk' = disk \/ disk' = Stored)
    BY <1>15, SameStored, CommitKeepsStored DEF CommitBatch
  <2>2. pc = "commit" /\ pc' = "loop" /\ cursor' = cursor
    BY <1>15 DEF CommitBatch, Goto
  <2>3. NothingMissedBefore(cursor)'
    BY <1>0, <2>1, <2>2 DEF NothingMissedBefore
  <2>4. QED
    BY <1>0, <2>1, <2>2, <2>3 DEF SettledInv
<1>16. CASE CommitFails
  BY <1>0, <1>16, <1>same DEF CommitFails, Stop, SettledInv
<1>17. CASE FinishWriter
  <2>1. Stored' = Stored /\ disk' = Stored
    BY <1>17, CommitKeepsStored DEF FinishWriter
  <2>2. /\ pc = "finish" /\ pc' = "done" /\ result' = result
        /\ end' = end /\ cancel' = cancel
    BY <1>17 DEF FinishWriter, Return
  <2>3. NothingMissedBefore(end) => NothingMissedBefore(end)'
    BY <2>1, <2>2 DEF NothingMissedBefore
  <2>4. QED
    BY <1>0, <2>1, <2>2, <2>3 DEF SettledInv
<1>18. CASE FinishFails
  <2>1. Stored' = disk /\ disk' = disk
    BY <1>18, DropBuffer DEF FinishFails
  <2>2. QED
    BY <1>0, <1>18, <2>1 DEF FinishFails, Return, SettledInv
<1>19. CASE Cancel
  BY <1>0, <1>19, <1>same DEF Cancel, SettledInv
<1>20. CASE Crash
  <2>1. Stored' = disk /\ disk' = disk
    BY <1>20, DropBuffer DEF Crash
  <2>2. QED
    BY <1>0, <1>20, <2>1 DEF Crash, SettledInv
<1>21. CASE RunAgain
  BY <1>0, <1>21, <1>same DEF RunAgain, SettledInv
<1>22. CASE Advance
  BY <1>0, <1>22, <1>same DEF Advance, SettledInv
<1>23. CASE UNCHANGED vars
  BY <1>0, <1>23, <1>same DEF vars, SettledInv
<1>24. QED
  BY <1>1, <1>2, <1>3, <1>5, <1>6, <1>7, <1>8, <1>9, <1>10, <1>11, <1>12,
     <1>13, <1>14, <1>15, <1>16, <1>17, <1>18, <1>19, <1>20, <1>21, <1>22,
     <1>23 DEF Next, Worker, Fetch

\* In every reachable state of a settled download what is stored and what is
\* committed are exact, and the cursor has left no wanted trade behind.
THEOREM SettledInvariant == Spec => [](TypeOK /\ LoopInv /\ InOrder /\ SettledInv)
<1>1. Init => TypeOK /\ LoopInv /\ InOrder /\ SettledInv
  BY InitTypeOK, InitLoopInv, InitInOrder, InitSettledInv
<1>2. TypeOK /\ LoopInv /\ InOrder /\ SettledInv /\ [Next]_vars
        => TypeOK' /\ LoopInv' /\ InOrder' /\ SettledInv'
  BY NextTypeOK, NextLoopInv, NextSettledInv
<1>3. QED
  BY <1>1, <1>2, PTL DEF Spec

-----------------------------------------------------------------------------
(* The refinement.                                                         *)

\* The only steps that write the file append the whole buffer to it.
LEMMA DiskSteps ==
    ASSUME [Next]_vars
    PROVE  disk' = disk \/ (disk' = disk \o buffered /\ buffered' = <<>>)
<1> USE DEF fileVars
<1>1. CASE Fetch
  BY <1>1 DEF Fetch, AppendBatch, ReachEnd, RejectBatch, SkipEmptyDay, FetchFails
<1>2. CASE OpenStore \/ OpenFails
  BY <1>2 DEF OpenStore, OpenFails
<1>3. CASE ResumeFromFile \/ ResumeFromStart \/ ResumeFromHead \/ HeadFails
  BY <1>3 DEF ResumeFromFile, ResumeFromStart, ResumeFromHead, HeadFails, ResumeAt
<1>4. CASE LeaveLoop \/ StartRequest
  BY <1>4 DEF LeaveLoop, StartRequest
<1>5. CASE CommitBatch \/ CommitFails
  BY <1>5 DEF CommitBatch, CommitFails
<1>6. CASE FinishWriter \/ FinishFails
  BY <1>6 DEF FinishWriter, FinishFails
<1>7. CASE Cancel \/ Crash \/ RunAgain \/ Advance
  BY <1>7 DEF Cancel, Crash, RunAgain, Advance
<1>8. CASE UNCHANGED vars
  BY <1>8 DEF vars
<1>9. QED
  BY <1>1, <1>2, <1>3, <1>4, <1>5, <1>6, <1>7, <1>8 DEF Next, Worker

\* The archive's notion of exactness is the one proved of the file.
LEMMA ArchiveExact == \A s : Exact(s) => Archive!Exact(s)
  BY DEF Exact, Contiguous, StartsAtOrigin, EndsAtSecond, Wanted, Origin,
         Second, Trades, None,
         Archive!Exact, Archive!Contiguous, Archive!StartsAtOrigin,
         Archive!EndsAtSecond, Archive!Wanted, Archive!Origin,
         Archive!Second, Archive!Trades, Archive!None

\* A step of the download extends the archive or leaves it alone.
LEMMA StepExtends ==
    ASSUME TypeOK, TypeOK', SettledInv, SettledInv', Settled, [Next]_vars
    PROVE  Archive!Extend \/ disk' = disk
<1> SUFFICES ASSUME disk' # disk PROVE Archive!Extend
  OBVIOUS
<1>1. disk' = disk \o buffered
  BY DiskSteps
<1>2. disk \in Seq(Trades) /\ buffered \in Seq(Trades) /\ disk' \in Seq(Trades)
  BY DEF TypeOK
<1>3. Exact(disk')
  BY DEF SettledInv
<1>4. Len(disk) <= Len(disk') /\ SubSeq(disk', 1, Len(disk)) = disk
  BY <1>1, <1>2, SubSeqOfConcat1, ConcatProperties, LenProperties
<1>5. Archive!IsPrefix(disk, disk')
  BY <1>2, <1>4 DEF Archive!IsPrefix
<1>6. disk' \in Seq(Archive!Trades)
  BY <1>2 DEF Trades, Archive!Trades
<1>7. QED
  BY <1>3, <1>5, <1>6, ArchiveExact DEF Archive!Extend

\* A download of a range that lies in the past implements the archive: after
\* any failures, cancellations and crashes the committed file holds exactly the
\* wanted trades up to the end of a second, and it only grew to get there.
THEOREM KeepsPromise == Settled => (Spec => Promise)
<1> SUFFICES ASSUME Settled PROVE Spec => Promise
  OBVIOUS
<1>1. Init => Archive!ArchiveInit
  BY DEF Init, Archive!ArchiveInit
<1>2. TypeOK /\ SettledInv /\ TypeOK' /\ SettledInv' /\ [Next]_vars
        => [Archive!Extend]_disk
  BY StepExtends
<1>3. QED
  BY <1>1, <1>2, SettledInvariant, PTL DEF Spec, Promise, Archive!ArchiveSpec

\* What is exact and missing nothing before t holds every wanted trade before t.
LEMMA NothingMissing ==
    ASSUME TypeOK, Settled, Exact(disk), NEW m \in Wanted,
           disk # <<>>, m <= disk[Len(disk)]
    PROVE  \E k \in 1..Len(disk) : disk[k] = m
<1>1. Len(disk) \in Nat /\ Len(disk) # 0
  BY EmptySeq DEF TypeOK
<1>2. m \in Nat /\ disk[1] <= m /\ disk[1] \in Nat
  <2>1. 1 \in 1..Len(disk)
    BY <1>1
  <2>2. disk[1] \in Wanted /\ disk[1] <= m
    BY <2>1 DEF Exact, StartsAtOrigin
  <2>3. QED
    BY <2>2, WantedIsPending
<1>3. \A k \in 1..Len(disk) : disk[k] = disk[1] + k - 1
  BY DEF Exact, Contiguous
<1>4. disk[Len(disk)] = disk[1] + Len(disk) - 1
  BY <1>1, <1>3
<1> DEFINE k == m - disk[1] + 1
<1>5. k \in 1..Len(disk)
  BY <1>1, <1>2, <1>4
<1>6. disk[k] = m
  BY <1>2, <1>3, <1>5
<1>7. QED
  BY <1>5, <1>6

\* A symbol that ends well, with no Ctrl+C, has all it was asked for on disk.
THEOREM SuccessIsComplete == Settled => (Spec => []CompleteOnSuccess)
<1> SUFFICES ASSUME Settled PROVE Spec => []CompleteOnSuccess
  OBVIOUS
<1>1. TypeOK /\ LoopInv /\ SettledInv => CompleteOnSuccess
  <2> SUFFICES ASSUME TypeOK, LoopInv, SettledInv,
                      pc = "done", result = "ok", ~cancel,
                      NEW m \in Wanted, Market[m] < end
               PROVE  \E k \in 1..Len(disk) : disk[k] = m
    BY DEF CompleteOnSuccess
  <2>1. NothingMissedBefore(end) /\ Exact(disk)
    BY DEF SettledInv
  <2>2. Stored = disk
    BY DropBuffer DEF LoopInv, Idle
  <2>3. disk # <<>> /\ m <= disk[Len(disk)]
    BY <2>1, <2>2 DEF NothingMissedBefore
  <2>4. QED
    BY <2>1, <2>3, NothingMissing
<1>2. QED
  BY <1>1, SettledInvariant, PTL

-----------------------------------------------------------------------------
(***************************************************************************)
(* A download that follows the market passes no printed trade.             *)
(***************************************************************************)

\* What is left out is Databento where a request covers less than a local day,
\* starts inside a second, or ends at a "now" the market has passed since.
Live == Provider = "databento" => WindowCoversDay /\ End # None

\* A configured end is the end of the request under way; and where Databento's
\* requests start on a second, they go on doing so.
LiveInv ==
    /\ pc = "fetch" /\ End # None => end = End
    /\ pc \in Looping /\ Provider = "databento" /\ WindowCoversDay => cursor % Sub = 0

\* IBKR's stamps are whole: within a second they do not differ.
LEMMA IbkrStamp ==
    ASSUME Provider = "ibkr", NEW m \in Trades
    PROVE  Market[m] = Sub * Second(Market[m])
<1>1. Market[m] = Sub * Second(PrintTime[m]) /\ Second(PrintTime[m]) \in Nat
  BY DownloadAssumption, PrintType, SecondBounds
<1>2. QED
  BY <1>1, SecondOfMultiple

\* Only the top of the loop resolves the end.
LEMMA NextEndIsKept ==
    ASSUME pc = "fetch" /\ End # None => end = End, [Next]_vars
    PROVE  pc' = "fetch" /\ End # None => end' = End
<1> USE DEF loopVars, Goto, Stop, Return
<1>1. CASE OpenStore \/ OpenFails \/ HeadFails
  BY <1>1 DEF OpenStore, OpenFails, HeadFails
<1>2. CASE ResumeFromFile \/ ResumeFromStart \/ ResumeFromHead
  BY <1>2 DEF ResumeFromFile, ResumeFromStart, ResumeFromHead, ResumeAt
<1>3. CASE LeaveLoop \/ StartRequest
  BY <1>3 DEF LeaveLoop, StartRequest, ResolvedEnd
<1>4. CASE Fetch
  BY <1>4 DEF Fetch, AppendBatch, ReachEnd, RejectBatch, SkipEmptyDay, FetchFails
<1>5. CASE CommitBatch \/ CommitFails
  BY <1>5 DEF CommitBatch, CommitFails
<1>6. CASE FinishWriter \/ FinishFails
  BY <1>6 DEF FinishWriter, FinishFails
<1>7. CASE Cancel \/ Crash \/ RunAgain \/ Advance
  BY <1>7 DEF Cancel, Crash, RunAgain, Advance
<1>8. CASE UNCHANGED vars
  BY <1>8 DEF vars
<1>9. QED
  BY <1>1, <1>2, <1>3, <1>4, <1>5, <1>6, <1>7, <1>8 DEF Next, Worker

\* The day after the cursor's starts on a second.
LEMMA NextDayIsWhole ==
    ASSUME TypeOK, LoopInv, SkipEmptyDay
    PROVE  cursor' % Sub = 0
<1>1. pc = "fetch" /\ cursor' = NextDayStart(cursor) /\ cursor \in Nat /\ end \in Nat
  BY DEF SkipEmptyDay, TypeOK
<1>2. cursor <= end /\ Second(end) <= Horizon
  BY <1>1 DEF LoopInv
<1>3. Second(cursor) \in 0..Horizon
  BY <1>1, <1>2, SecondMonotone, SecondBounds, BoundTypes
<1>4. NextMidnight[Second(cursor)] \in Nat
  BY <1>3, MarketAssumption
<1>5. QED
  BY <1>1, <1>4, SecondOfMultiple DEF NextDayStart

\* A Databento cursor starts at the start or after a stored second, and moves to
\* the second after a batch or to the next day.
LEMMA NextLiveInv ==
    ASSUME TypeOK, LoopInv, LiveInv, [Next]_vars
    PROVE  LiveInv'
<1> SUFFICES ASSUME pc' \in Looping, Provider = "databento", WindowCoversDay
             PROVE  cursor' % Sub = 0
  BY NextEndIsKept DEF LiveInv
<1> USE DEF loopVars, Goto, Stop, Return, Looping
<1>1. CASE pc \in Looping /\ cursor' = cursor
  BY <1>1 DEF LiveInv
<1>2. CASE ResumeFromFile
  <2>1. PICK m \in LastTicks : ResumeAt(SecondAfter(m))
    BY <1>2 DEF ResumeFromFile
  <2>2. m \in Trades
    BY <1>2, <2>1, EmptySeq DEF ResumeFromFile, LastTicks, FileIsEmpty, TypeOK
  <2>3. QED
    BY <2>1, <2>2, SecondAfterIsWhole DEF ResumeAt
<1>3. CASE ResumeFromStart
  BY <1>3 DEF ResumeFromStart, ResumeAt, WindowCoversDay
<1>4. CASE ResumeFromHead
  BY <1>4, DownloadAssumption DEF ResumeFromHead
<1>5. CASE Fetch
  <2>1. ASSUME NEW batch \in Replies, AppendBatch(batch) PROVE cursor' % Sub = 0
    <3>1. PICK i \in Pending(cursor), j \in Pending(cursor) : \E q \in i..j :
            cursor' = SecondAfter(q)
      BY <2>1, AppendedRun
    <3>2. \A q \in i..j : q \in Trades
      BY MarketAssumption DEF Pending, Printed, Trades
    <3>3. QED
      BY <3>1, <3>2, SecondAfterIsWhole
  <2>2. CASE SkipEmptyDay
    BY <2>2, NextDayIsWhole
  <2>3. CASE UNCHANGED cursor
    BY <1>1, <1>5, <2>3 DEF Fetch, AppendBatch, ReachEnd, RejectBatch, SkipEmptyDay, FetchFails
  <2>4. QED
    BY <1>5, <2>1, <2>2, <2>3 DEF Fetch, ReachEnd, RejectBatch, FetchFails
<1>6. CASE OpenStore \/ OpenFails \/ HeadFails
  BY <1>6 DEF OpenStore, OpenFails, HeadFails
<1>7. CASE LeaveLoop \/ StartRequest
  BY <1>1, <1>7 DEF LeaveLoop, StartRequest
<1>8. CASE CommitBatch \/ CommitFails
  BY <1>1, <1>8 DEF CommitBatch, CommitFails
<1>9. CASE FinishWriter \/ FinishFails
  BY <1>9 DEF FinishWriter, FinishFails
<1>10. CASE Cancel \/ Crash \/ RunAgain \/ Advance
  BY <1>1, <1>10 DEF Cancel, Crash, RunAgain, Advance
<1>11. CASE UNCHANGED vars
  BY <1>1, <1>11 DEF vars
<1>12. QED
  BY <1>2, <1>3, <1>4, <1>5, <1>6, <1>7, <1>8, <1>9, <1>10, <1>11 DEF Next, Worker

\* A printed trade from the cursor on that the cursor passes is in the batch: a
\* batch starts at the first of them, and ends with the last of its second or
\* at the end, which cuts no second of IBKR's and no wanted trade of Databento's.
LEMMA AppendPassesNone ==
    ASSUME TypeOK, LiveInv, Live, NEW batch \in Replies, AppendBatch(batch),
           NEW m \in Pending(cursor), m \in Wanted, Market[m] < cursor'
    PROVE  \E k \in 1..Len(buffered') : buffered'[k] = m
<1>1. PICK i \in Pending(cursor), j \in Pending(cursor) : \E q \in i..j :
        /\ Answer(i, j)
        /\ buffered' = buffered \o Run(i, q)
        /\ cursor' = SecondAfter(q)
        /\ Market[q] < end
        /\ q < j => Market[q + 1] >= end
  BY AppendedRun
<1>2. PICK q \in i..j :
        /\ Answer(i, j)
        /\ buffered' = buffered \o Run(i, q)
        /\ cursor' = SecondAfter(q)
        /\ Market[q] < end
        /\ q < j => Market[q + 1] >= end
  BY <1>1
<1>3. /\ i \in Trades /\ j \in Trades /\ q \in Trades /\ m \in Trades
      /\ i \in Nat /\ j \in Nat /\ q \in Nat /\ m \in Nat /\ i <= q /\ q <= j
      /\ Market[m] \in Nat /\ Market[q] \in Nat /\ Market[j] \in Nat
      /\ cursor \in Nat /\ end \in Nat /\ Window \in Nat
      /\ cursor <= Market[m]
  <2>1. i \in Trades /\ j \in Trades /\ m \in Trades /\ cursor <= Market[m]
    BY MarketType DEF Pending, Printed, TypeOK
  <2>2. q \in Trades /\ q \in Nat /\ i <= q /\ q <= j
    BY <2>1, MarketAssumption DEF Trades
  <2>3. QED
    BY <2>1, <2>2, MarketType, DownloadAssumption DEF TypeOK
<1>4. Provider # "ibkr" =>
        /\ \A n \in InWindow : i <= n /\ n <= j
        /\ Market[j] < cursor + Window
        /\ Market[m] < end
        /\ cursor % Sub = 0 /\ Window % Sub = 0
  <2> SUFFICES ASSUME Provider # "ibkr"
               PROVE  /\ \A n \in InWindow : i <= n /\ n <= j
                      /\ Market[j] < cursor + Window
                      /\ Market[m] < end
                      /\ cursor % Sub = 0 /\ Window % Sub = 0
    OBVIOUS
  <2>1. Provider = "databento" /\ WindowCoversDay /\ End # None /\ pc = "fetch"
    BY DownloadAssumption DEF Live, AppendBatch
  <2>2. DatabentoAnswer(i, j)
    BY <1>2 DEF Answer
  <2>3. Market[m] < end
    BY <2>1 DEF Wanted, LiveInv
  <2>4. cursor % Sub = 0 /\ Window % Sub = 0
    BY <2>1 DEF LiveInv, Looping, WindowCoversDay
  <2>5. QED
    BY <2>2, <2>3, <2>4 DEF DatabentoAnswer, InWindow
<1>5. m <= q
  <2> SUFFICES ASSUME q < m PROVE FALSE
    BY <1>3
  <2>1. Second(Market[m]) = Second(Market[q])
    <3> SUFFICES ASSUME Second(Market[m]) # Second(Market[q]) PROVE FALSE
      OBVIOUS
    <3>1. m <= q
      BY <1>2, <1>3, BeforeSecondAfter
    <3>2. QED
      BY <1>3, <3>1
  <2>2. CASE q < j
    <3>1. q + 1 \in Trades /\ q + 1 <= m
      BY <1>3, NextTrade
    <3>2. end <= Market[m]
      <4>1. Market[q + 1] <= Market[m] /\ Market[q + 1] \in Nat
        BY <1>3, <3>1, MarketType
      <4>2. QED
        BY <1>2, <1>3, <2>2, <4>1
    <3>3. CASE Provider = "ibkr"
      <4>1. Market[m] = Market[q]
        BY <1>3, <2>1, <3>3, IbkrStamp
      <4>2. QED
        BY <1>2, <1>3, <3>2, <4>1
    <3>4. CASE Provider # "ibkr"
      BY <1>3, <1>4, <3>2, <3>4
    <3>5. QED
      BY <3>3, <3>4
  <2>3. CASE q = j
    <3>1. CASE Provider = "ibkr"
      <4>1. m <= j
        BY <1>2, <2>1, <2>3, <3>1 DEF Answer, IbkrAnswer
      <4>2. QED
        BY <1>3, <2>3, <4>1
    <3>2. CASE Provider # "ibkr"
      <4>1. m \notin InWindow
        <5>1. ~(m <= j)
          BY <1>3, <2>3
        <5>2. QED
          BY <1>4, <3>2, <5>1
      <4>2. cursor + Window <= Market[m]
        BY <1>3, <1>4, <3>2, <4>1 DEF InWindow
      <4>3. PICK s \in Nat : cursor + Window = Sub * s
        BY <1>3, <1>4, <3>2, WholeSum
      <4>4. Second(Market[q]) < Second(Market[m])
        BY <1>3, <1>4, <2>3, <3>2, <4>2, <4>3, SecondSplits
      <4>5. QED
        BY <1>3, <2>1, <4>4, SecondBounds
    <3>3. QED
      BY <3>1, <3>2
  <2>4. QED
    BY <1>3, <2>2, <2>3
<1>6. i <= m
  <2>1. CASE Provider = "ibkr"
    BY <1>2, <2>1 DEF Answer, IbkrAnswer
  <2>2. CASE Provider # "ibkr"
    <3>1. Market[m] <= Market[q] /\ Market[q] <= Market[j]
      BY <1>3, <1>5, MarketType
    <3>2. m \in InWindow
      BY <1>3, <1>4, <2>2, <3>1 DEF InWindow
    <3>3. QED
      BY <1>4, <2>2, <3>2
  <2>3. QED
    BY <2>1, <2>2
<1> DEFINE r == Run(i, q)
           L == Len(buffered)
<1>7. /\ r \in Seq(Trades) /\ Len(r) = q - i + 1
      /\ \A k \in 1..(q - i + 1) : r[k] = i + k - 1
  BY <1>3, RunProperties
<1>8. buffered \in Seq(Trades) /\ L \in Nat
  BY LenProperties DEF TypeOK
<1> HIDE DEF r, L
<1>9. m - i + 1 \in 1..(q - i + 1) /\ r[m - i + 1] = m
  BY <1>3, <1>5, <1>6, <1>7
<1>10. Len(buffered \o r) = L + (q - i + 1)
       /\ (buffered \o r)[L + (m - i + 1)] = r[m - i + 1]
  <2>1. /\ Len(buffered \o r) = Len(buffered) + Len(r)
        /\ \A k \in 1..(Len(buffered) + Len(r)) :
              (buffered \o r)[k] = IF k <= Len(buffered) THEN buffered[k]
                                  ELSE r[k - Len(buffered)]
    BY <1>7, <1>8, ConcatProperties
  <2> DEFINE k == L + (m - i + 1)
  <2>2. k \in 1..(L + Len(r)) /\ k > L /\ k - L = m - i + 1
    BY <1>3, <1>7, <1>8, <1>9
  <2> HIDE DEF k
  <2>3. (buffered \o r)[k] = r[k - L]
    BY <1>8, <2>1, <2>2 DEF L
  <2>4. QED
    BY <1>7, <2>1, <2>2, <2>3 DEF L, k
<1>11. L + (m - i + 1) \in 1..(L + (q - i + 1))
  BY <1>3, <1>8, <1>9
<1>12. QED
  BY <1>2, <1>9, <1>10, <1>11 DEF r

\* And no printed trade is left on a day that is skipped.
LEMMA SkipPassesNone ==
    ASSUME TypeOK, LoopInv, LiveInv, Live, SkipEmptyDay,
           NEW m \in Pending(cursor), m \in Wanted, Market[m] < cursor'
    PROVE  FALSE
<1>1. pc = "fetch" /\ cursor' = NextDayStart(cursor) /\ EmptyReply
  BY DEF SkipEmptyDay
<1>2. cursor \in Nat /\ end \in Nat /\ m \in Trades /\ Market[m] \in Nat
      /\ cursor <= Market[m]
  BY MarketType DEF TypeOK, Pending, Printed
<1>3. Second(cursor) \in 0..Horizon
  <2>1. cursor <= end /\ Second(end) <= Horizon
    BY <1>1, <1>2 DEF LoopInv
  <2>2. Second(cursor) <= Second(end)
    BY <1>2, <2>1, SecondMonotone
  <2>3. QED
    BY <1>2, <2>1, <2>2, SecondBounds, BoundTypes
<1>4. cursor' \in Nat
  BY <1>1, <1>2, <1>3, NextDayStartBound, BoundTypes
<1>5. CASE Provider = "ibkr"
  <2>1. Market[m] >= cursor'
    BY <1>1, <1>5 DEF EmptyReply, IbkrEmptyReply
  <2>2. QED
    BY <1>2, <1>4, <2>1
<1>6. CASE Provider # "ibkr"
  <2>1. /\ InWindow = {} /\ Provider = "databento" /\ end = End /\ End # None
        /\ Window \in Nat /\ WindowCoversDay
    BY <1>1, <1>6, DownloadAssumption DEF EmptyReply, Live, LiveInv
  <2>2. Sub * NextMidnight[Second(cursor)] <= Sub * Second(cursor) + Window
    BY <1>3, <2>1 DEF WindowCoversDay
  <2>3. Sub * Second(cursor) <= cursor /\ Sub * Second(cursor) \in Nat
    BY <1>2, SecondBounds, TimesSub
  <2>4. cursor' <= cursor + Window
    BY <1>1, <1>2, <1>4, <2>1, <2>2, <2>3 DEF NextDayStart
  <2>5. Market[m] < cursor + Window
    BY <1>2, <1>4, <2>1, <2>4
  <2>6. Market[m] < end
    BY <2>1 DEF Wanted
  <2>7. QED
    BY <2>1, <2>5, <2>6 DEF InWindow
<1>7. QED
  BY <1>5, <1>6

\* Also while the market goes on printing, and whatever is cut, sent again or
\* killed, the loop never moves its cursor past a trade that could have been
\* had (download_symbol_batches: the second after the last tick of a batch, and
\* next_day_start after an empty answer).
THEOREM NothingPassed == Live => (Spec => NeverPassesPrintedTrade)
<1> SUFFICES ASSUME Live PROVE Spec => NeverPassesPrintedTrade
  OBVIOUS
<1> DEFINE Kept == pc = "fetch" =>
                     \A m \in Printed :
                         cursor <= Market[m] /\ Market[m] < cursor' /\ m \in Wanted
                             => \E k \in 1..Len(buffered') : buffered'[k] = m
<1>1. Init => LiveInv
  BY DEF Init, LiveInv, Looping
<1>2. TypeOK /\ LoopInv /\ LiveInv /\ [Next]_vars => LiveInv'
  BY NextLiveInv
<1>3. TypeOK /\ LoopInv /\ LiveInv /\ [Next]_vars => [Kept]_vars
  <2> SUFFICES ASSUME TypeOK, LoopInv, LiveInv, Next, pc = "fetch", NEW m \in Printed,
                      cursor <= Market[m], Market[m] < cursor', m \in Wanted
               PROVE  \E k \in 1..Len(buffered') : buffered'[k] = m
    OBVIOUS
  <2>1. m \in Pending(cursor) /\ Market[m] \in Nat /\ cursor \in Nat
    BY MarketType DEF Pending, Printed, TypeOK
  <2>2. cursor' # cursor
    BY <2>1
  <2>3. CASE \E batch \in Replies : AppendBatch(batch)
    BY <2>1, <2>3, AppendPassesNone
  <2>4. CASE SkipEmptyDay
    BY <2>1, <2>4, SkipPassesNone
  <2>5. (\E batch \in Replies : AppendBatch(batch)) \/ SkipEmptyDay
    <3>1. CASE Fetch
      BY <2>2, <3>1 DEF Fetch, ReachEnd, RejectBatch, FetchFails, loopVars
    <3>2. CASE Cancel \/ Crash \/ RunAgain \/ Advance
      BY <2>2, <3>2 DEF Cancel, Crash, RunAgain, Advance, loopVars
    <3>3. CASE Worker /\ ~Fetch
      BY <3>3 DEF Worker, OpenStore, OpenFails, ResumeFromFile, ResumeFromStart,
                  ResumeFromHead, ResumeAt, HeadFails, LeaveLoop, StartRequest,
                  CommitBatch, CommitFails, FinishWriter, FinishFails
    <3>4. QED
      BY <3>1, <3>2, <3>3 DEF Next
  <2>6. QED
    BY <2>3, <2>4, <2>5
<1>4. QED
  BY <1>1, <1>2, <1>3, OrderInvariant, PTL DEF Spec, NeverPassesPrintedTrade
=============================================================================
