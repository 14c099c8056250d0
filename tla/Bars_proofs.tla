---------------------------- MODULE Bars_proofs -----------------------------
(***************************************************************************)
(* Laws of the resampler and of the session filter, for rows of any        *)
(* number.  Both are recursive functions; what is said of them is said by  *)
(* induction, from the least element of a set of numbers.                  *)
(***************************************************************************)
EXTENDS Bars, SequenceTheorems, WellFoundedInduction, TLAPS

-----------------------------------------------------------------------------
(* Induction over sets.                                                    *)

LEMMA LeastElement ==
  ASSUME NEW S, S \subseteq Nat, S # {}
  PROVE  \E m \in S : \A n \in S : m <= n
<1> DEFINE R == OpToRel(<, Nat)
<1>1. PICK m \in S : \A n \in S : <<n, m>> \notin R
  <2>1. IsWellFoundedOn(R, Nat)
    BY NatLessThanWellFounded
  <2> HIDE DEF R
  <2> QED BY <2>1, WFMin
<1>2. \A n \in S : ~(n < m)
  BY <1>1 DEF OpToRel
<1> QED BY <1>2

LEMMA Induction ==
  ASSUME NEW N \in Nat, NEW S, 0 \in S,
         \A n \in 1..N : n - 1 \in S => n \in S
  PROVE  0..N \subseteq S
<1> SUFFICES ASSUME ~(0..N \subseteq S) PROVE FALSE
  OBVIOUS
<1>1. PICK m \in (0..N) \ S : \A n \in (0..N) \ S : m <= n
  <2>1. (0..N) \ S \subseteq Nat /\ (0..N) \ S # {}
    OBVIOUS
  <2> QED BY <2>1, LeastElement
<1>2. m \in 1..N /\ m - 1 \in S
  BY <1>1
<1> QED BY <1>1, <1>2

LEMMA SeqInduction ==
  ASSUME NEW S, NEW T, <<>> \in T,
         \A s \in Seq(S) : \A e \in S : s \in T => Append(s, e) \in T
  PROVE  Seq(S) \subseteq T
<1> SUFFICES ASSUME NEW s \in Seq(S) PROVE s \in T
  OBVIOUS
<1> DEFINE Reached == {n \in 0..Len(s) : SubSeq(s, 1, n) \in T}
<1>1. 0 \in Reached
  <2>1. SubSeq(s, 1, 0) = <<>>
    BY SubSeqEmpty
  <2>2. 0 \in 0..Len(s)
    OBVIOUS
  <2> QED BY <2>1, <2>2, Zenon
<1>2. ASSUME NEW n \in 1..Len(s), n - 1 \in Reached
      PROVE  n \in Reached
  <2>1. SubSeq(s, 1, n - 1) \in Seq(S) /\ s[n] \in S
    BY SubSeqProperties
  <2>2. SubSeq(s, 1, n) = Append(SubSeq(s, 1, n - 1), s[n])
    BY SubSeqRecursiveSecond, AppendIsConcat, <2>1
  <2>3. SubSeq(s, 1, n - 1) \in T
    BY <1>2
  <2>4. SubSeq(s, 1, n) \in T
    BY <2>1, <2>2, <2>3
  <2> QED BY <2>4
<1>3. 0..Len(s) \subseteq Reached
  <2>1. Len(s) \in Nat
    OBVIOUS
  <2> HIDE DEF Reached
  <2> QED BY <2>1, <1>1, <1>2, Induction
<1>4. Len(s) \in Reached
  <2>1. Len(s) \in 0..Len(s)
    OBVIOUS
  <2> HIDE DEF Reached
  <2> QED BY <2>1, <1>3
<1> QED BY <1>4, SubSeqFull

\* What a recursive function is about exists ...
IsRun(f, n, S, base, step) ==
    /\ f \in [0..n -> S]
    /\ f[0] = base
    /\ \A k \in 1..n : f[k] = step[<<k, f[k - 1]>>]

LEMMA Recursion ==
  ASSUME NEW N \in Nat, NEW S, NEW base \in S, NEW step \in [(1..N) \X S -> S]
  PROVE  \E f : IsRun(f, N, S, base, step)
<1> DEFINE Reached == {n \in 0..N : \E f : IsRun(f, n, S, base, step)}
<1>1. 0 \in Reached
  <2>1. IsRun([i \in 0..0 |-> base], 0, S, base, step)
    BY DEF IsRun
  <2>2. \E f : IsRun(f, 0, S, base, step)
    BY <2>1
  <2> QED BY <2>2
<1>2. ASSUME NEW n \in 1..N, n - 1 \in Reached
      PROVE  n \in Reached
  <2>1. PICK f : IsRun(f, n - 1, S, base, step)
    BY <1>2
  <2> DEFINE g == [i \in 0..n |-> IF i = n THEN step[<<n, f[n - 1]>>] ELSE f[i]]
  <2>2. /\ f \in [0..(n - 1) -> S] /\ f[0] = base
        /\ \A k \in 1..(n - 1) : f[k] = step[<<k, f[k - 1]>>]
    BY <2>1 DEF IsRun
  <2>3. f[n - 1] \in S /\ step[<<n, f[n - 1]>>] \in S
    BY <2>2
  <2>4. g \in [0..n -> S] /\ g[0] = base
    BY <2>2, <2>3
  <2>5. /\ g[n] = step[<<n, f[n - 1]>>]
        /\ \A i \in 0..(n - 1) : g[i] = f[i]
    OBVIOUS
  <2>6. \A k \in 1..n : g[k] = step[<<k, g[k - 1]>>]
    <3> HIDE DEF g
    <3>1. g[n - 1] = f[n - 1]
      BY <2>5
    <3>2. \A k \in 1..(n - 1) : g[k] = f[k] /\ g[k - 1] = f[k - 1]
      BY <2>5
    <3> QED BY <2>2, <2>5, <3>1, <3>2
  <2>7. \E h : IsRun(h, n, S, base, step)
    <3> HIDE DEF g
    <3>1. IsRun(g, n, S, base, step)
      BY <2>4, <2>6 DEF IsRun
    <3> QED BY <3>1
  <2> QED BY <2>7
<1>3. 0..N \subseteq Reached
  <2> HIDE DEF Reached
  <2> QED BY <1>1, <1>2, Induction
<1>4. N \in Reached
  <2> HIDE DEF Reached
  <2> QED BY <1>3
<1> QED BY <1>4

\* ... and is one.
StepAlike(f, g, N) ==
    f[0] = g[0] /\ \A n \in 1..N : f[n - 1] = g[n - 1] => f[n] = g[n]

LEMMA Determined ==
  ASSUME NEW N \in Nat, NEW f, NEW g, StepAlike(f, g, N)
  PROVE  f[N] = g[N]
<1> DEFINE Same == {n \in 0..N : f[n] = g[n]}
<1>1. 0..N \subseteq Same
  <2>1. 0 \in Same /\ \A n \in 1..N : n - 1 \in Same => n \in Same
    BY DEF StepAlike
  <2> HIDE DEF Same
  <2> QED BY <2>1, Induction
<1>2. N \in 0..N
  OBVIOUS
<1> QED BY <1>1, <1>2

-----------------------------------------------------------------------------
(* RowsAt.                                                                 *)

IsTaking(f, S, rows, P) ==
    /\ f \in [0..Len(rows) -> Seq(S)]
    /\ f[0] = <<>>
    /\ \A n \in 1..Len(rows) :
          f[n] = IF n \in P THEN Append(f[n - 1], rows[n]) ELSE f[n - 1]

LEMMA RowsAtRun ==
  ASSUME NEW S, NEW rows \in Seq(S), NEW P
  PROVE  \E f : IsTaking(f, S, rows, P) /\ RowsAt(rows, P) = f[Len(rows)]
<1> DEFINE N == Len(rows)
           step == [x \in (1..N) \X Seq(S) |->
                       IF x[1] \in P THEN Append(x[2], rows[x[1]]) ELSE x[2]]
           IsTaken(f) == f = [n \in 0..N |-> IF n = 0 THEN <<>>
                                ELSE IF n \in P THEN Append(f[n - 1], rows[n])
                                ELSE f[n - 1]]
<1>1. N \in Nat /\ <<>> \in Seq(S) /\ \A n \in 1..N : rows[n] \in S
  OBVIOUS
<1>2. step \in [(1..N) \X Seq(S) -> Seq(S)]
  BY <1>1
<1>3. PICK f : IsRun(f, N, Seq(S), <<>>, step)
  <2> HIDE DEF step, N
  <2> QED BY <1>1, <1>2, Recursion
<1>4. /\ f \in [0..N -> Seq(S)] /\ f[0] = <<>>
      /\ \A n \in 1..N : f[n] = IF n \in P THEN Append(f[n - 1], rows[n]) ELSE f[n - 1]
  <2>1. /\ f \in [0..N -> Seq(S)] /\ f[0] = <<>>
        /\ \A n \in 1..N : f[n] = step[<<n, f[n - 1]>>]
    BY <1>3 DEF IsRun
  <2>2. \A n \in 1..N : f[n - 1] \in Seq(S)
    BY <1>1, <2>1
  <2>3. \A n \in 1..N : <<n, f[n - 1]>> \in (1..N) \X Seq(S)
    BY <2>2
  <2> QED BY <2>1, <2>3
<1>5. IsTaken(f)
  <2> HIDE DEF N
  <2>1. f = [n \in 0..N |-> f[n]]
    BY <1>4
  <2>2. \A n \in 0..N : f[n] = IF n = 0 THEN <<>>
                               ELSE IF n \in P THEN Append(f[n - 1], rows[n])
                               ELSE f[n - 1]
    <3>1. \A n \in 0..N : n = 0 \/ (n # 0 /\ n \in 1..N)
      BY <1>1
    <3> QED BY <1>4, <3>1, Zenon
  <2> QED BY <2>1, <2>2, Zenon
<1> DEFINE g == CHOOSE h : IsTaken(h)
<1>6. IsTaken(g)
  <2> HIDE DEF IsTaken
  <2> QED BY <1>5
<1>7. RowsAt(rows, P) = g[N]
  BY DEF RowsAt
<1>8. f[N] = g[N]
  <2> HIDE DEF g, N
  <2>1. g[0] = <<>>
    BY <1>1, <1>6
  <2>2. \A n \in 1..N : g[n] = IF n \in P THEN Append(g[n - 1], rows[n]) ELSE g[n - 1]
    <3>1. \A n \in 1..N : n # 0 /\ n \in 0..N
      BY <1>1
    <3> QED BY <1>6, <3>1, Zenon
  <2>3. StepAlike(f, g, N)
    BY <1>4, <2>1, <2>2, Zenon DEF StepAlike
  <2>4. N \in Nat
    BY <1>1
  <2> HIDE DEF IsTaken, step
  <2> QED BY <2>3, <2>4, Determined
<1>9. IsTaking(f, S, rows, P)
  BY <1>4 DEF IsTaking
<1> QED BY <1>7, <1>8, <1>9

LEMMA RowsAtType ==
  ASSUME NEW S, NEW rows \in Seq(S), NEW P
  PROVE  RowsAt(rows, P) \in Seq(S)
<1>1. Len(rows) \in Nat
  OBVIOUS
<1>2. Len(rows) \in 0..Len(rows)
  BY <1>1
<1> QED BY RowsAtRun, <1>2 DEF IsTaking

LEMMA RowsAtEmpty ==
  ASSUME NEW P
  PROVE  RowsAt(<<>>, P) = <<>>
<1>1. <<>> \in Seq({}) /\ Len(<<>>) = 0
  OBVIOUS
<1>2. PICK f : IsTaking(f, {}, <<>>, P) /\ RowsAt(<<>>, P) = f[Len(<<>>)]
  BY <1>1, RowsAtRun
<1> QED BY <1>1, <1>2, Zenon DEF IsTaking

\* One more row is taken or not; what was taken before stays.
LEMMA RowsAtAppend ==
  ASSUME NEW S, NEW rows \in Seq(S), NEW e \in S, NEW P, NEW Q,
         \A i \in 1..Len(rows) : i \in P <=> i \in Q
  PROVE  RowsAt(Append(rows, e), P) =
            IF Len(rows) + 1 \in P THEN Append(RowsAt(rows, Q), e) ELSE RowsAt(rows, Q)
<1> DEFINE N == Len(rows)
           more == Append(rows, e)
<1>1. /\ N \in Nat /\ more \in Seq(S) /\ Len(more) = N + 1 /\ more[N + 1] = e
      /\ \A n \in 1..N : more[n] = rows[n]
  BY AppendProperties
<1>2. PICK f : IsTaking(f, S, rows, Q) /\ RowsAt(rows, Q) = f[N]
  BY RowsAtRun
<1>3. PICK g : IsTaking(g, S, more, P) /\ RowsAt(more, P) = g[N + 1]
  <2> HIDE DEF more, N
  <2> QED BY <1>1, RowsAtRun
<1> HIDE DEF more
<1>4. StepAlike(f, g, N)
  <2>1. \A n \in 1..N : n \in 1..(N + 1) /\ (n \in P <=> n \in Q)
    BY <1>1
  <2> QED BY <1>1, <1>2, <1>3, <2>1, Zenon DEF IsTaking, StepAlike
<1>5. f[N] = g[N]
  <2>1. N \in Nat
    BY <1>1
  <2> HIDE DEF N
  <2> QED BY <1>4, <2>1, Determined
<1>6. N + 1 \in 1..(N + 1) /\ (N + 1) - 1 = N
  BY <1>1
<1>7. g[N + 1] = IF N + 1 \in P THEN Append(g[N], more[N + 1]) ELSE g[N]
  BY <1>1, <1>3, <1>6, Zenon DEF IsTaking
<1> QED BY <1>1, <1>2, <1>3, <1>5, <1>7, Zenon DEF more

\* What is taken stands somewhere among the positions.
LEMMA RowsAtElements ==
  ASSUME NEW S, NEW rows \in Seq(S), NEW P
  PROVE  \A k \in 1..Len(RowsAt(rows, P)) :
            \E i \in 1..Len(rows) : i \in P /\ RowsAt(rows, P)[k] = rows[i]
<1> DEFINE Known(s) == \A k \in 1..Len(RowsAt(s, P)) :
                          \E i \in 1..Len(s) : i \in P /\ RowsAt(s, P)[k] = s[i]
           T == {s \in Seq(S) : Known(s)}
<1>1. <<>> \in T
  <2>1. <<>> \in Seq(S) /\ Len(<<>>) = 0
    OBVIOUS
  <2> QED BY <2>1, RowsAtEmpty
<1>2. ASSUME NEW s \in Seq(S), NEW e \in S, s \in T
      PROVE  Append(s, e) \in T
  <2> DEFINE old == RowsAt(s, P)
             more == Append(s, e)
  <2>1. /\ Len(s) \in Nat /\ more \in Seq(S) /\ Len(more) = Len(s) + 1
        /\ more[Len(s) + 1] = e /\ \A i \in 1..Len(s) : more[i] = s[i]
    BY AppendProperties
  <2>2. old \in Seq(S) /\ Len(old) \in Nat
    BY RowsAtType
  <2>3. \A k \in 1..Len(old) : \E i \in 1..Len(more) : i \in P /\ old[k] = more[i]
    BY <1>2, <2>1
  <2>4. CASE Len(s) + 1 \in P
    <3>1. RowsAt(more, P) = Append(old, e)
      BY <2>4, RowsAtAppend
    <3>2. /\ Len(Append(old, e)) = Len(old) + 1 /\ Append(old, e)[Len(old) + 1] = e
          /\ \A k \in 1..Len(old) : Append(old, e)[k] = old[k]
      BY <2>2, AppendProperties
    <3>3. \A k \in 1..Len(Append(old, e)) : k \in 1..Len(old) \/ k = Len(old) + 1
      BY <2>2, <3>2
    <3>4. Len(s) + 1 \in 1..Len(more)
      BY <2>1
    <3>5. ASSUME NEW k \in 1..Len(Append(old, e))
          PROVE  \E i \in 1..Len(more) : i \in P /\ Append(old, e)[k] = more[i]
      <4> HIDE DEF old, more
      <4>1. CASE k \in 1..Len(old)
        BY <4>1, <2>3, <3>2
      <4>2. CASE k = Len(old) + 1
        BY <4>2, <2>1, <2>4, <3>2, <3>4
      <4> QED BY <3>3, <4>1, <4>2
    <3> QED BY <2>1, <3>1, <3>5
  <2>5. CASE Len(s) + 1 \notin P
    <3>1. RowsAt(more, P) = old
      BY <2>5, RowsAtAppend
    <3> QED BY <2>1, <2>3, <3>1
  <2> QED BY <2>4, <2>5
<1>3. Seq(S) \subseteq T
  <2> HIDE DEF T
  <2> QED BY <1>1, <1>2, SeqInduction
<1> QED BY <1>3

\* All of the positions take all of the rows.
LEMMA RowsAtAll ==
  ASSUME NEW S, NEW rows \in Seq(S), NEW P, 1..Len(rows) \subseteq P
  PROVE  RowsAt(rows, P) = rows
<1> DEFINE T == {s \in Seq(S) : RowsAt(s, Nat) = s}
<1>1. <<>> \in T
  <2>1. <<>> \in Seq(S)
    OBVIOUS
  <2> QED BY <2>1, RowsAtEmpty
<1>2. ASSUME NEW s \in Seq(S), NEW e \in S, s \in T
      PROVE  Append(s, e) \in T
  <2>1. Append(s, e) \in Seq(S) /\ Len(s) + 1 \in Nat
    BY AppendProperties
  <2>2. RowsAt(Append(s, e), Nat) = Append(RowsAt(s, Nat), e)
    BY <2>1, RowsAtAppend
  <2> QED BY <1>2, <2>1, <2>2
<1>3. rows \in T
  <2>1. Seq(S) \subseteq T
    <3> HIDE DEF T
    <3> QED BY <1>1, <1>2, SeqInduction
  <2> QED BY <2>1
<1>4. CASE rows = <<>>
  BY <1>4, RowsAtEmpty
<1>5. CASE rows # <<>>
  <2>1. PICK s \in Seq(S), e \in S : rows = Append(s, e)
    BY <1>5, SequenceEmptyOrAppend
  <2>2. Len(s) \in Nat /\ Len(rows) = Len(s) + 1
    BY <2>1, AppendProperties
  <2>3. \A i \in 1..Len(s) : i \in P <=> i \in Nat
    BY <2>2
  <2>4. Len(s) + 1 \in P /\ Len(s) + 1 \in Nat
    BY <2>2
  <2>5. RowsAt(rows, P) = Append(RowsAt(s, Nat), e)
    BY <2>1, <2>3, <2>4, RowsAtAppend
  <2>6. RowsAt(rows, Nat) = Append(RowsAt(s, Nat), e)
    BY <2>1, <2>4, RowsAtAppend
  <2> QED BY <1>3, <2>5, <2>6
<1> QED BY <1>4, <1>5

-----------------------------------------------------------------------------
(* Buckets.                                                                *)

LEMMA Division ==
  ASSUME NEW a \in Int, NEW w \in Nat \ {0}
  PROVE  /\ a \div w \in Int
         /\ w * (a \div w) \in Int
         /\ w * (a \div w) <= a
         /\ a < w * (a \div w) + w
<1>1. a \div w \in Int /\ a % w \in 0..(w - 1)
  OBVIOUS
<1>2. a = w * (a \div w) + (a % w)
  OBVIOUS
<1>3. w * (a \div w) \in Int
  BY <1>1
<1> QED BY <1>1, <1>2, <1>3

LEMMA HoursType ==
  /\ Day \in Nat \ {0}
  /\ \A s \in Sessions : /\ Hours[s].open \in 0..Day /\ Hours[s].close \in 0..Day
                         /\ Hours[s].open < Hours[s].close
  BY BarsAssumption DEF Sessions

LEMMA MidnightBounds ==
  ASSUME NEW t \in Int
  PROVE  /\ Midnight(t) \in Int
         /\ Midnight(t) <= t
         /\ t < Midnight(t) + Day
  BY HoursType, Division DEF Midnight

\* A row lies in the bucket it opens.
LEMMA BucketStartBounds ==
  ASSUME NEW w \in 1..Day, NEW s \in Sessions, NEW t \in Int
  PROVE  /\ BucketStart(w, s, t) \in Int
         /\ BucketStart(w, s, t) <= t
         /\ t < BucketStart(w, s, t) + w
<1>1. w \in Nat \ {0}
  BY HoursType
<1>2. CASE w = Day
  BY <1>2, MidnightBounds DEF BucketStart
<1>3. CASE w # Day
  <2> DEFINE open == OpenEpoch(s, t)
  <2>1. open \in Int
    BY MidnightBounds, HoursType DEF OpenEpoch
  <2>2. BucketStart(w, s, t) = open + w * ((t - open) \div w)
    BY <1>3 DEF BucketStart
  <2>3. t - open \in Int
    BY <2>1
  <2> HIDE DEF open
  <2> QED BY <1>1, <2>1, <2>2, <2>3, Division
<1> QED BY <1>2, <1>3

-----------------------------------------------------------------------------
(* One push.                                                               *)

RowOf(T) == [time : Int, ticks : Seq(T)]

\* The row goes into the open bucket.
Joins(w, bars, row) == bars # <<>> /\ row.time < bars[Len(bars)].time + w

LEMMA MoreTicks ==
  ASSUME NEW T, NEW row \in RowOf(T), NEW ticks
  PROVE  [row EXCEPT !.ticks = ticks] = [time |-> row.time, ticks |-> ticks]
BY DEF RowOf

IsJoined(pushed, T, bars, row) ==
    /\ pushed \in Seq(RowOf(T))
    /\ Len(pushed) = Len(bars)
    /\ \A k \in 1..(Len(bars) - 1) : pushed[k] = bars[k]
    /\ pushed[Len(bars)] = [time |-> bars[Len(bars)].time,
                            ticks |-> bars[Len(bars)].ticks \o row.ticks]

\* Then no bar but the last changes, and the last only gains ticks.
LEMMA PushJoins ==
  ASSUME NEW T, NEW w \in 1..Day, NEW s \in Sessions,
         NEW bars \in Seq(RowOf(T)), NEW row \in RowOf(T),
         Joins(w, bars, row)
  PROVE  IsJoined(Push(w, s, bars, row), T, bars, row)
<1> DEFINE n == Len(bars)
           last == [time |-> bars[n].time, ticks |-> bars[n].ticks \o row.ticks]
<1>1. n \in Nat /\ n \in 1..n
  BY EmptySeq DEF Joins
<1>2. bars[n] \in RowOf(T)
  BY <1>1
<1>3. last \in RowOf(T)
  BY <1>2, ConcatProperties DEF RowOf
<1>4. Push(w, s, bars, row) = [bars EXCEPT ![n].ticks = @ \o row.ticks]
  BY DEF Push, Joins, Last, NextBucketStart
<1>5. [bars EXCEPT ![n].ticks = @ \o row.ticks] = [bars EXCEPT ![n] = last]
  <2>1. [bars[n] EXCEPT !.ticks = @ \o row.ticks] = last
    BY <1>2, MoreTicks
  <2> HIDE DEF last
  <2> QED BY <2>1
<1> HIDE DEF last
<1>6. /\ [bars EXCEPT ![n] = last] \in Seq(RowOf(T))
      /\ Len([bars EXCEPT ![n] = last]) = n
      /\ \A j \in 1..n : [bars EXCEPT ![n] = last][j] = IF j = n THEN last ELSE bars[j]
  BY <1>1, <1>3, ExceptSeq
<1>7. \A k \in 1..(n - 1) : k \in 1..n /\ k # n
  BY <1>1
<1> HIDE DEF n
<1>8. /\ Push(w, s, bars, row) \in Seq(RowOf(T))
      /\ Len(Push(w, s, bars, row)) = n
      /\ \A k \in 1..(n - 1) : Push(w, s, bars, row)[k] = bars[k]
      /\ Push(w, s, bars, row)[n] = last
  BY <1>1, <1>4, <1>5, <1>6, <1>7
<1> HIDE DEF last
<1>9. last = [time |-> bars[Len(bars)].time, ticks |-> bars[Len(bars)].ticks \o row.ticks]
  BY DEF last, n
<1> QED BY <1>8, <1>9, Zenon DEF n, IsJoined

LEMMA PushOpens ==
  ASSUME NEW w, NEW s, NEW bars, NEW row, ~Joins(w, bars, row)
  PROVE  Push(w, s, bars, row) =
            Append(bars, [time |-> BucketStart(w, s, row.time), ticks |-> row.ticks])
  BY DEF Push, Joins, Last, NextBucketStart

LEMMA PushType ==
  ASSUME NEW T, NEW w \in 1..Day, NEW s \in Sessions,
         NEW bars \in Seq(RowOf(T)), NEW row \in RowOf(T)
  PROVE  /\ Push(w, s, bars, row) \in Seq(RowOf(T))
         /\ Push(w, s, bars, row) # <<>>
<1>1. CASE Joins(w, bars, row)
  <2>1. Len(bars) \in Nat \ {0}
    BY <1>1, EmptySeq DEF Joins
  <2> DEFINE pushed == Push(w, s, bars, row)
  <2>2. IsJoined(pushed, T, bars, row)
    BY <1>1, PushJoins
  <2> HIDE DEF pushed
  <2>3. pushed \in Seq(RowOf(T)) /\ pushed # <<>>
    BY <2>1, <2>2 DEF IsJoined
  <2> QED BY <2>3 DEF pushed
<1>2. CASE ~Joins(w, bars, row)
  <2>1. [time |-> BucketStart(w, s, row.time), ticks |-> row.ticks] \in RowOf(T)
    BY BucketStartBounds DEF RowOf
  <2> DEFINE new == [time |-> BucketStart(w, s, row.time), ticks |-> row.ticks]
  <2>2. Push(w, s, bars, row) = Append(bars, new)
    BY <1>2, PushOpens
  <2> HIDE DEF new
  <2>3. Append(bars, new) \in Seq(RowOf(T)) /\ Append(bars, new) # <<>>
    BY <2>1, AppendProperties DEF new
  <2> QED BY <2>2, <2>3
<1> QED BY <1>1, <1>2

-----------------------------------------------------------------------------
(* The resampler.                                                          *)

IsResampling(f, S, w, s, rows) ==
    /\ f \in [0..Len(rows) -> S]
    /\ f[0] = <<>>
    /\ \A n \in 1..Len(rows) : f[n] = Push(w, s, f[n - 1], rows[n])

LEMMA ResampleRun ==
  ASSUME NEW T, NEW w \in 1..Day, NEW s \in Sessions, NEW rows \in Seq(RowOf(T))
  PROVE  \E f : /\ IsResampling(f, Seq(RowOf(T)), w, s, rows)
                /\ Resample(w, s, rows) = f[Len(rows)]
<1> DEFINE N == Len(rows)
           S == Seq(RowOf(T))
           step == [x \in (1..N) \X S |-> Push(w, s, x[2], rows[x[1]])]
           IsPushed(f) == f = [n \in 0..N |-> IF n = 0 THEN <<>>
                                              ELSE Push(w, s, f[n - 1], rows[n])]
<1>1. N \in Nat /\ <<>> \in S /\ \A n \in 1..N : rows[n] \in RowOf(T)
  OBVIOUS
<1>2. step \in [(1..N) \X S -> S]
  BY <1>1, PushType
<1>3. PICK f : IsRun(f, N, S, <<>>, step)
  <2> HIDE DEF step, N, S
  <2> QED BY <1>1, <1>2, Recursion
<1>4. /\ f \in [0..N -> S] /\ f[0] = <<>>
      /\ \A n \in 1..N : f[n] = Push(w, s, f[n - 1], rows[n])
  <2>1. /\ f \in [0..N -> S] /\ f[0] = <<>>
        /\ \A n \in 1..N : f[n] = step[<<n, f[n - 1]>>]
    BY <1>3 DEF IsRun
  <2>2. \A n \in 1..N : f[n - 1] \in S
    <3> HIDE DEF S
    <3> QED BY <1>1, <2>1
  <2>3. \A n \in 1..N : <<n, f[n - 1]>> \in (1..N) \X S
    <3> HIDE DEF S
    <3> QED BY <2>2
  <2> QED BY <2>1, <2>3
<1>5. IsPushed(f)
  <2> HIDE DEF N, S
  <2>1. f = [n \in 0..N |-> f[n]]
    BY <1>4
  <2>2. \A n \in 0..N : f[n] = IF n = 0 THEN <<>> ELSE Push(w, s, f[n - 1], rows[n])
    <3>1. \A n \in 0..N : n = 0 \/ (n # 0 /\ n \in 1..N)
      BY <1>1
    <3> QED BY <1>4, <3>1, Zenon
  <2> QED BY <2>1, <2>2, Zenon
<1> DEFINE g == CHOOSE h : IsPushed(h)
<1>6. IsPushed(g)
  <2> HIDE DEF IsPushed
  <2> QED BY <1>5
<1>7. Resample(w, s, rows) = g[N]
  BY DEF Resample
<1>8. f[N] = g[N]
  <2> HIDE DEF g, N, S
  <2>1. g[0] = <<>>
    BY <1>1, <1>6
  <2>2. \A n \in 1..N : g[n] = Push(w, s, g[n - 1], rows[n])
    <3>1. \A n \in 1..N : n # 0 /\ n \in 0..N
      BY <1>1
    <3> QED BY <1>6, <3>1, Zenon
  <2>3. StepAlike(f, g, N)
    BY <1>4, <2>1, <2>2, Zenon DEF StepAlike
  <2>4. N \in Nat
    BY <1>1
  <2> HIDE DEF IsPushed, step
  <2> QED BY <2>3, <2>4, Determined
<1>9. IsResampling(f, S, w, s, rows)
  BY <1>4 DEF IsResampling
<1> QED BY <1>7, <1>8, <1>9

LEMMA ResampleType ==
  ASSUME NEW T, NEW w \in 1..Day, NEW s \in Sessions, NEW rows \in Seq(RowOf(T))
  PROVE  Resample(w, s, rows) \in Seq(RowOf(T))
<1>1. Len(rows) \in Nat
  OBVIOUS
<1>2. Len(rows) \in 0..Len(rows)
  BY <1>1
<1> QED BY ResampleRun, <1>2 DEF IsResampling

LEMMA ResampleEmpty ==
  ASSUME NEW w \in 1..Day, NEW s \in Sessions
  PROVE  Resample(w, s, <<>>) = <<>>
<1>1. <<>> \in Seq(RowOf({})) /\ Len(<<>>) = 0
  OBVIOUS
<1>2. PICK f : /\ IsResampling(f, Seq(RowOf({})), w, s, <<>>)
               /\ Resample(w, s, <<>>) = f[Len(<<>>)]
  BY <1>1, ResampleRun
<1> QED BY <1>1, <1>2, Zenon DEF IsResampling

\* The resampler streams: one more row is one more push.
LEMMA ResampleAppend ==
  ASSUME NEW T, NEW w \in 1..Day, NEW s \in Sessions,
         NEW rows \in Seq(RowOf(T)), NEW row \in RowOf(T)
  PROVE  Resample(w, s, Append(rows, row)) = Push(w, s, Resample(w, s, rows), row)
<1> DEFINE N == Len(rows)
           S == Seq(RowOf(T))
           more == Append(rows, row)
<1>1. /\ N \in Nat /\ more \in S /\ Len(more) = N + 1 /\ more[N + 1] = row
      /\ \A n \in 1..N : more[n] = rows[n]
  BY AppendProperties
<1>2. PICK f : IsResampling(f, S, w, s, rows) /\ Resample(w, s, rows) = f[N]
  BY ResampleRun
<1>3. PICK g : IsResampling(g, S, w, s, more) /\ Resample(w, s, more) = g[N + 1]
  <2> HIDE DEF more, N
  <2> QED BY <1>1, ResampleRun
<1> HIDE DEF more, S
<1>4. StepAlike(f, g, N)
  <2>1. \A n \in 1..N : n \in 1..(N + 1)
    BY <1>1
  <2> QED BY <1>1, <1>2, <1>3, <2>1, Zenon DEF IsResampling, StepAlike
<1>5. f[N] = g[N]
  <2>1. N \in Nat
    BY <1>1
  <2> HIDE DEF N
  <2> QED BY <1>4, <2>1, Determined
<1>6. N + 1 \in 1..(N + 1) /\ (N + 1) - 1 = N
  BY <1>1
<1>7. g[N + 1] = Push(w, s, g[N], more[N + 1])
  BY <1>1, <1>3, <1>6, Zenon DEF IsResampling
<1> QED BY <1>1, <1>2, <1>3, <1>5, <1>7, Zenon DEF more

-----------------------------------------------------------------------------
(* What the bars of a series are.                                          *)

InOrder(bars) ==
    \A j, k \in 1..Len(bars) : j < k => bars[j].time < bars[k].time

\* A bucket that opens lies behind all that have closed, whatever the width.
LEMMA PushInOrder ==
  ASSUME NEW T, NEW w \in 1..Day, NEW s \in Sessions,
         NEW bars \in Seq(RowOf(T)), NEW row \in RowOf(T), InOrder(bars)
  PROVE  InOrder(Push(w, s, bars, row))
<1> DEFINE n == Len(bars)
           pushed == Push(w, s, bars, row)
<1>1. n \in Nat /\ \A k \in 1..n : bars[k].time \in Int
  <2>1. n \in Nat /\ \A k \in 1..n : bars[k] \in RowOf(T)
    OBVIOUS
  <2> QED BY <2>1 DEF RowOf
<1>2. CASE Joins(w, bars, row)
  <2>0. IsJoined(pushed, T, bars, row)
    BY <1>2, PushJoins
  <2> HIDE DEF pushed
  <2>1. /\ Len(pushed) = n
        /\ \A k \in 1..(n - 1) : pushed[k] = bars[k]
        /\ pushed[n].time = bars[n].time
    BY <2>0 DEF IsJoined
  <2>2. \A k \in 1..n : pushed[k].time = bars[k].time
    BY <1>1, <2>1
  <2> QED BY <2>1, <2>2 DEF InOrder, pushed
<1>3. CASE ~Joins(w, bars, row)
  <2> DEFINE new == [time |-> BucketStart(w, s, row.time), ticks |-> row.ticks]
  <2>1. pushed = Append(bars, new)
    BY <1>3, PushOpens
  <2>2. /\ new \in RowOf(T) /\ row.time \in Int
        /\ row.time < new.time + w
    BY BucketStartBounds DEF RowOf
  <2>3. /\ Len(pushed) = n + 1 /\ pushed[n + 1] = new
        /\ \A k \in 1..n : pushed[k] = bars[k]
    <3> HIDE DEF new, pushed
    <3> QED BY <2>1, <2>2, AppendProperties
  <2>4. \A k \in 1..n : bars[k].time < new.time
    <3> SUFFICES ASSUME NEW k \in 1..n PROVE bars[k].time < new.time
      OBVIOUS
    <3>1. bars # <<>> /\ n \in 1..n
      BY <1>1
    <3>2. bars[n].time + w <= row.time
      <4>1. row.time \in Int /\ bars[n].time \in Int /\ w \in Int
        BY <1>1, <2>2, <3>1
      <4> QED BY <1>3, <3>1, <4>1 DEF Joins
    <3>3. k = n \/ bars[k].time < bars[n].time
      BY <1>1, <3>1 DEF InOrder
    <3>4. new.time \in Int /\ bars[n].time \in Int /\ bars[k].time \in Int /\ w \in Int
      BY <1>1, <2>2, <3>1 DEF RowOf
    <3> HIDE DEF new
    <3> QED BY <2>2, <3>2, <3>3, <3>4
  <2> HIDE DEF pushed, new
  <2>5. ASSUME NEW j \in 1..Len(pushed), NEW k \in 1..Len(pushed), j < k
        PROVE  pushed[j].time < pushed[k].time
    <3>1. j \in 1..n
      BY <1>1, <2>3, <2>5
    <3>2. k \in 1..n \/ k = n + 1
      BY <1>1, <2>3
    <3> QED BY <2>3, <2>4, <2>5, <3>1, <3>2 DEF InOrder
  <2> QED BY <2>5 DEF InOrder, pushed
<1> QED BY <1>2, <1>3

LEMMA ResampleInOrder ==
  ASSUME NEW T, NEW w \in 1..Day, NEW s \in Sessions, NEW rows \in Seq(RowOf(T))
  PROVE  InOrder(Resample(w, s, rows))
<1> DEFINE Good == {r \in Seq(RowOf(T)) : InOrder(Resample(w, s, r))}
<1>1. <<>> \in Good
  BY ResampleEmpty DEF InOrder
<1>2. ASSUME NEW r \in Seq(RowOf(T)), NEW e \in RowOf(T), r \in Good
      PROVE  Append(r, e) \in Good
  <2>1. InOrder(Push(w, s, Resample(w, s, r), e))
    BY <1>2, ResampleType, PushInOrder
  <2> QED BY <2>1, ResampleAppend, AppendProperties
<1>3. Seq(RowOf(T)) \subseteq Good
  <2> HIDE DEF Good
  <2> QED BY <1>1, <1>2, SeqInduction
<1> QED BY <1>3

\* Every bar is the bucket of some row, and as long as there is a row there is a
\* bar.
FromRows(w, s, bars, rows) ==
    /\ rows # <<>> => bars # <<>>
    /\ \A k \in 1..Len(bars) : \E i \in 1..Len(rows) :
          bars[k].time = BucketStart(w, s, rows[i].time)

LEMMA ResampleFromRows ==
  ASSUME NEW T, NEW w \in 1..Day, NEW s \in Sessions, NEW rows \in Seq(RowOf(T))
  PROVE  FromRows(w, s, Resample(w, s, rows), rows)
<1> DEFINE Good == {r \in Seq(RowOf(T)) : FromRows(w, s, Resample(w, s, r), r)}
<1>1. <<>> \in Good
  BY ResampleEmpty DEF FromRows
<1>2. ASSUME NEW r \in Seq(RowOf(T)), NEW e \in RowOf(T), r \in Good
      PROVE  Append(r, e) \in Good
  <2> DEFINE bars == Resample(w, s, r)
             n == Len(bars)
             pushed == Push(w, s, bars, e)
             more == Append(r, e)
  <2>1. /\ more \in Seq(RowOf(T)) /\ Len(r) \in Nat /\ Len(more) = Len(r) + 1
        /\ more[Len(r) + 1] = e /\ \A i \in 1..Len(r) : more[i] = r[i]
    BY AppendProperties
  <2>2. bars \in Seq(RowOf(T)) /\ n \in Nat /\ pushed # <<>>
    <3>1. bars \in Seq(RowOf(T))
      BY ResampleType
    <3> HIDE DEF bars
    <3>2. n \in Nat
      BY <3>1
    <3>3. pushed # <<>>
      BY <3>1, PushType
    <3> QED BY <3>1, <3>2, <3>3
  <2>3. \A k \in 1..n : \E i \in 1..Len(more) :
           bars[k].time = BucketStart(w, s, more[i].time)
    <3> HIDE DEF bars, more
    <3>1. \A i \in 1..Len(r) : i \in 1..Len(more)
      BY <2>1
    <3>2. \A k \in 1..n : \E i \in 1..Len(r) : bars[k].time = BucketStart(w, s, r[i].time)
      BY <1>2 DEF FromRows, bars
    <3> QED BY <2>1, <3>1, <3>2
  <2>4. Len(r) + 1 \in 1..Len(more)
    BY <2>1
  <2>5. CASE Joins(w, bars, e)
    <3>0. IsJoined(pushed, T, bars, e)
      <4> HIDE DEF bars
      <4> QED BY <2>2, <2>5, PushJoins
    <3>1. /\ Len(pushed) = n
          /\ \A k \in 1..(n - 1) : pushed[k] = bars[k]
          /\ pushed[n].time = bars[n].time
      <4> HIDE DEF bars, pushed
      <4> QED BY <3>0 DEF IsJoined
    <3>2. \A k \in 1..n : pushed[k].time = bars[k].time
      <4> HIDE DEF pushed, bars
      <4> QED BY <2>2, <3>1
    <3>3. FromRows(w, s, pushed, more)
      <4> HIDE DEF pushed, bars, more
      <4> QED BY <2>2, <2>3, <3>1, <3>2 DEF FromRows
    <3> QED BY <2>1, <3>3, ResampleAppend
  <2>6. CASE ~Joins(w, bars, e)
    <3> DEFINE new == [time |-> BucketStart(w, s, e.time), ticks |-> e.ticks]
    <3>1. pushed = Append(bars, new)
      BY <2>6, PushOpens
    <3>2. new \in RowOf(T)
      BY BucketStartBounds DEF RowOf
    <3>3. /\ Len(pushed) = n + 1 /\ pushed[n + 1] = new
          /\ \A k \in 1..n : pushed[k] = bars[k]
      <4> HIDE DEF new, pushed, bars
      <4> QED BY <2>2, <3>1, <3>2, AppendProperties
    <3>4. new.time = BucketStart(w, s, e.time)
      OBVIOUS
    <3>5. FromRows(w, s, pushed, more)
      <4> HIDE DEF pushed, bars, more, new
      <4>1. \A k \in 1..Len(pushed) : k \in 1..n \/ k = n + 1
        BY <2>2, <3>3
      <4> QED BY <2>1, <2>2, <2>3, <2>4, <3>3, <3>4, <4>1 DEF FromRows
    <3> QED BY <2>1, <3>5, ResampleAppend
  <2> QED BY <2>5, <2>6
<1>3. Seq(RowOf(T)) \subseteq Good
  <2> HIDE DEF Good
  <2> QED BY <1>1, <1>2, SeqInduction
<1> QED BY <1>3

-----------------------------------------------------------------------------
(* Laws of the push.                                                       *)

Merged(bar, row) == [time |-> bar.time, ticks |-> bar.ticks \o row.ticks]
NewBar(w, s, row) == [time |-> BucketStart(w, s, row.time), ticks |-> row.ticks]

LEMMA BarsTypes ==
  ASSUME NEW T, NEW w \in 1..Day, NEW s \in Sessions,
         NEW bar \in RowOf(T), NEW row \in RowOf(T)
  PROVE  /\ Merged(bar, row) \in RowOf(T)
         /\ NewBar(w, s, row) \in RowOf(T)
         /\ row.time \in Int /\ row.ticks \in Seq(T)
<1>1. bar.time \in Int /\ bar.ticks \in Seq(T) /\ row.time \in Int /\ row.ticks \in Seq(T)
  BY DEF RowOf
<1>2. bar.ticks \o row.ticks \in Seq(T)
  BY <1>1, ConcatProperties
<1>3. BucketStart(w, s, row.time) \in Int
  BY <1>1, BucketStartBounds
<1> QED BY <1>1, <1>2, <1>3 DEF RowOf, Merged, NewBar

LEMMA ConcatAppend ==
  ASSUME NEW S, NEW a \in Seq(S), NEW b \in Seq(S), NEW e \in S
  PROVE  a \o Append(b, e) = Append(a \o b, e)
<1>1. Append(b, e) = b \o <<e>> /\ <<e>> \in Seq(S)
  BY AppendIsConcat
<1>2. a \o b \in Seq(S)
  BY ConcatProperties
<1>3. Append(a \o b, e) = (a \o b) \o <<e>>
  BY <1>2, AppendIsConcat
<1> QED BY <1>1, <1>3, ConcatAssociative

\* A push only looks at, and only changes, the last bar.
LEMMA PushOnto ==
  ASSUME NEW T, NEW w \in 1..Day, NEW s \in Sessions,
         NEW c \in Seq(RowOf(T)), NEW bar \in RowOf(T), NEW row \in RowOf(T)
  PROVE  Push(w, s, Append(c, bar), row) =
            IF row.time < bar.time + w THEN Append(c, Merged(bar, row))
            ELSE Append(Append(c, bar), NewBar(w, s, row))
<1> DEFINE bars == Append(c, bar)
           n == Len(c)
           pushed == Push(w, s, bars, row)
<1>1. /\ n \in Nat /\ bars \in Seq(RowOf(T)) /\ bars # <<>> /\ Len(bars) = n + 1
      /\ bars[n + 1] = bar /\ \A k \in 1..n : bars[k] = c[k]
  BY AppendProperties
<1>2. CASE row.time < bar.time + w
  <2> DEFINE want == Append(c, Merged(bar, row))
  <2>1. /\ want \in Seq(RowOf(T)) /\ Len(want) = n + 1 /\ want[n + 1] = Merged(bar, row)
        /\ \A k \in 1..n : want[k] = c[k]
    BY BarsTypes, AppendProperties
  <2>2. IsJoined(pushed, T, bars, row)
    <3> HIDE DEF bars
    <3>1. Joins(w, bars, row)
      BY <1>1, <1>2 DEF Joins
    <3> QED BY <1>1, <3>1, PushJoins
  <2> HIDE DEF pushed, bars, want
  <2>3. /\ pushed \in Seq(RowOf(T)) /\ Len(pushed) = n + 1
        /\ \A k \in 1..n : pushed[k] = c[k]
        /\ pushed[n + 1] = Merged(bar, row)
    <3>1. (n + 1) - 1 = n
      BY <1>1
    <3>2. /\ pushed \in Seq(RowOf(T)) /\ Len(pushed) = n + 1
          /\ \A k \in 1..n : pushed[k] = bars[k]
          /\ pushed[n + 1] = [time |-> bars[n + 1].time, ticks |-> bars[n + 1].ticks \o row.ticks]
      BY <1>1, <2>2, <3>1, Zenon DEF IsJoined
    <3> HIDE DEF n
    <3> QED BY <1>1, <3>2, Zenon DEF Merged
  <2>4. \A k \in 1..(n + 1) : k \in 1..n \/ k = n + 1
    BY <1>1
  <2>5. \A k \in 1..(n + 1) : pushed[k] = want[k]
    BY <2>1, <2>3, <2>4
  <2>6. pushed = want
    BY <2>1, <2>3, <2>5, SeqEqual
  <2> QED BY <1>2, <2>6 DEF pushed, want, bars
<1>3. CASE ~(row.time < bar.time + w)
  <2>1. ~Joins(w, bars, row)
    <3> HIDE DEF bars
    <3> QED BY <1>1, <1>3 DEF Joins
  <2> QED BY <1>3, <2>1, PushOpens DEF NewBar
<1> QED BY <1>2, <1>3

\* The first row opens the first bar.
LEMMA PushFirst ==
  ASSUME NEW w, NEW s, NEW row
  PROVE  Push(w, s, <<>>, row) = Append(<<>>, NewBar(w, s, row))
  BY PushOpens DEF Joins, NewBar

\* Bars that stand before the last do not matter ...
LEMMA PushConcat ==
  ASSUME NEW T, NEW w \in 1..Day, NEW s \in Sessions,
         NEW a \in Seq(RowOf(T)), NEW b \in Seq(RowOf(T)), b # <<>>, NEW row \in RowOf(T)
  PROVE  Push(w, s, a \o b, row) = a \o Push(w, s, b, row)
<1>1. PICK c \in Seq(RowOf(T)), bar \in RowOf(T) : b = Append(c, bar)
  BY SequenceEmptyOrAppend
<1>2. a \o c \in Seq(RowOf(T)) /\ a \o b = Append(a \o c, bar)
  BY <1>1, ConcatAppend, ConcatProperties
<1> DEFINE merged == Merged(bar, row)
           opened == NewBar(w, s, row)
           ac == a \o c
           ab == a \o b
<1>3. /\ merged \in RowOf(T) /\ opened \in RowOf(T)
      /\ ac \in Seq(RowOf(T)) /\ ab \in Seq(RowOf(T)) /\ ab = Append(ac, bar)
  BY <1>2, BarsTypes, ConcatProperties
<1>4. a \o Append(c, merged) = Append(ac, merged)
  <2> HIDE DEF merged
  <2> QED BY <1>3, ConcatAppend
<1>5. a \o Append(b, opened) = Append(ab, opened)
  <2>1. opened \in RowOf(T)
    BY <1>3
  <2> HIDE DEF opened
  <2> QED BY <2>1, ConcatAppend
<1> HIDE DEF ac, ab
<1>6. Push(w, s, b, row) = IF row.time < bar.time + w THEN Append(c, merged)
                           ELSE Append(b, opened)
  BY <1>1, PushOnto
<1>7. Push(w, s, ab, row) = IF row.time < bar.time + w THEN Append(ac, merged)
                            ELSE Append(ab, opened)
  BY <1>3, PushOnto
<1>8. Push(w, s, ab, row) = a \o Push(w, s, b, row)
  <2> HIDE DEF merged, opened
  <2>1. CASE row.time < bar.time + w
    BY <2>1, <1>4, <1>6, <1>7, Zenon
  <2>2. CASE ~(row.time < bar.time + w)
    BY <2>2, <1>5, <1>6, <1>7, Zenon
  <2> QED BY <2>1, <2>2
<1> QED BY <1>8 DEF ab

\* ... nor does a row that is too late for the last.
LEMMA PushBeyond ==
  ASSUME NEW T, NEW w \in 1..Day, NEW s \in Sessions,
         NEW a \in Seq(RowOf(T)), NEW row \in RowOf(T), ~Joins(w, a, row)
  PROVE  Push(w, s, a, row) = a \o Push(w, s, <<>>, row)
<1>1. Push(w, s, a, row) = Append(a, NewBar(w, s, row))
  BY PushOpens DEF NewBar
<1>2. NewBar(w, s, row) \in RowOf(T) /\ <<>> \in Seq(RowOf(T))
  BY BarsTypes
<1>3. a \o Append(<<>>, NewBar(w, s, row)) = Append(a \o <<>>, NewBar(w, s, row))
  BY <1>2, ConcatAppend
<1>4. a \o <<>> = a
  BY ConcatEmptySeq
<1> QED BY <1>1, <1>3, <1>4, PushFirst

\* Two rows of one bucket may as well come merged.
LEMMA PushTwice ==
  ASSUME NEW T, NEW w \in 1..Day, NEW s \in Sessions,
         NEW bars \in Seq(RowOf(T)), NEW row \in RowOf(T), NEW next \in RowOf(T),
         Joins(w, Push(w, s, bars, row), next)
  PROVE  Push(w, s, Push(w, s, bars, row), next) = Push(w, s, bars, Merged(row, next))
<1> DEFINE both == Merged(row, next)
           new == NewBar(w, s, row)
<1>1. both \in RowOf(T) /\ new \in RowOf(T)
  BY BarsTypes
<1>2. both.time = row.time /\ both.ticks = row.ticks \o next.ticks
  BY DEF Merged
<1>3. NewBar(w, s, both) = Merged(new, next)
  BY <1>2 DEF NewBar, Merged
<1> HIDE DEF both, new
<1>4. CASE ~Joins(w, bars, row)
  <2>1. Push(w, s, bars, row) = Append(bars, new)
    BY <1>4, PushOpens DEF new, NewBar
  <2>2. next.time < new.time + w
    <3>1. Append(bars, new)[Len(Append(bars, new))] = new
      BY <1>1, AppendProperties
    <3> QED BY <2>1, <3>1 DEF Joins
  <2>3. Push(w, s, Append(bars, new), next) = Append(bars, Merged(new, next))
    BY <1>1, <2>2, PushOnto
  <2>4. Push(w, s, bars, both) = Append(bars, NewBar(w, s, both))
    <3>1. ~Joins(w, bars, both)
      BY <1>2, <1>4 DEF Joins
    <3> QED BY <3>1, PushOpens DEF NewBar
  <2> QED BY <1>3, <2>1, <2>3, <2>4 DEF both
<1>5. CASE Joins(w, bars, row)
  <2>1. PICK c \in Seq(RowOf(T)), bar \in RowOf(T) : bars = Append(c, bar)
    BY <1>5, SequenceEmptyOrAppend DEF Joins
  <2>2. row.time < bar.time + w
    <3>1. bars[Len(bars)] = bar
      BY <2>1, AppendProperties
    <3> QED BY <1>5, <3>1 DEF Joins
  <2> DEFINE one == Merged(bar, row)
  <2>3. one \in RowOf(T) /\ one.time = bar.time /\ one.ticks = bar.ticks \o row.ticks
    BY BarsTypes DEF Merged
  <2> HIDE DEF one
  <2>4. Push(w, s, bars, row) = Append(c, one)
    BY <2>1, <2>2, PushOnto DEF one
  <2>5. next.time < one.time + w
    <3>1. Append(c, one)[Len(Append(c, one))] = one
      BY <2>3, AppendProperties
    <3> QED BY <2>4, <3>1 DEF Joins
  <2>6. Push(w, s, Append(c, one), next) = Append(c, Merged(one, next))
    BY <2>3, <2>5, PushOnto
  <2>7. Push(w, s, bars, both) = Append(c, Merged(bar, both))
    BY <1>1, <1>2, <2>1, <2>2, PushOnto
  <2>8. Merged(one, next) = Merged(bar, both)
    <3> DEFINE x == bar.ticks
               y == row.ticks
               z == next.ticks
    <3>1. x \in Seq(T) /\ y \in Seq(T) /\ z \in Seq(T)
      BY BarsTypes
    <3>2. (x \o y) \o z = x \o (y \o z)
      <4> HIDE DEF x, y, z
      <4> QED BY <3>1, ConcatAssociative
    <3> QED BY <1>2, <2>3, <3>2 DEF Merged
  <2> QED BY <2>4, <2>6, <2>7, <2>8 DEF both
<1> QED BY <1>4, <1>5

-----------------------------------------------------------------------------
(* Bars grow at their end.                                                 *)

\* A bar and the same bar some ticks later.
Continues(bar, later) == bar.time = later.time /\ IsPrefix(bar.ticks, later.ticks)

\* Bars and the bars some rows later: only the last of the former may have
\* gained ticks.
GrowsTo(bars, later) ==
    /\ Len(bars) <= Len(later)
    /\ \A k \in 1..Len(bars) : /\ Continues(bars[k], later[k])
                               /\ k < Len(bars) => later[k] = bars[k]

LEMMA PrefixMore ==
  ASSUME NEW T, NEW x \in Seq(T), NEW y \in Seq(T), NEW z \in Seq(T), IsPrefix(x, y)
  PROVE  IsPrefix(x, y \o z)
<1>1. /\ y \o z \in Seq(T) /\ Len(y \o z) = Len(y) + Len(z)
      /\ Len(x) \in Nat /\ Len(y) \in Nat /\ Len(z) \in Nat /\ Len(x) <= Len(y)
  BY ConcatProperties DEF IsPrefix
<1>2. SubSeq(y \o z, 1, Len(x)) = SubSeq(y, 1, Len(x))
  <2>1. CASE Len(x) = 0
    BY <2>1, SubSeqEmpty
  <2>2. CASE Len(x) # 0
    <3>1. 1 \in 1..Len(y) /\ Len(x) \in 1..Len(y)
      BY <1>1, <2>2
    <3> QED BY <3>1, SubSeqOfConcat1
  <2> QED BY <2>1, <2>2
<1> HIDE DEF IsPrefix
<1>3. SubSeq(x, 1, Len(x)) = SubSeq(y, 1, Len(x))
  BY DEF IsPrefix
<1> DEFINE yz == y \o z
<1> HIDE DEF yz
<1>4. Len(x) <= Len(yz) /\ SubSeq(x, 1, Len(x)) = SubSeq(yz, 1, Len(x))
  BY <1>1, <1>2, <1>3 DEF yz
<1> QED BY <1>4 DEF IsPrefix, yz

LEMMA PrefixOnto ==
  ASSUME NEW T, NEW b \in Seq(T), NEW x \in Seq(T), NEW y \in Seq(T), IsPrefix(x, y)
  PROVE  IsPrefix(b \o x, b \o y)
<1> DEFINE bx == b \o x
           by == b \o y
<1>1. /\ Len(b) \in Nat /\ Len(x) \in Nat /\ Len(y) \in Nat
      /\ bx \in Seq(T) /\ by \in Seq(T)
      /\ Len(bx) = Len(b) + Len(x) /\ Len(by) = Len(b) + Len(y)
      /\ \A i \in 1..(Len(b) + Len(x)) : bx[i] = IF i <= Len(b) THEN b[i] ELSE x[i - Len(b)]
      /\ \A i \in 1..(Len(b) + Len(y)) : by[i] = IF i <= Len(b) THEN b[i] ELSE y[i - Len(b)]
  BY ConcatProperties
<1>2. Len(x) <= Len(y) /\ SubSeq(x, 1, Len(x)) = SubSeq(y, 1, Len(x))
  BY DEF IsPrefix
<1>3. \A i \in 1..Len(x) : x[i] = y[i]
  <2>1. \A i \in 1..Len(x) : x[i] \in T /\ y[i] \in T
    BY <1>1, <1>2
  <2>2. \A i \in 1..Len(x) : SubSeq(x, 1, Len(x))[i] = x[i]
    BY <1>1, SubSeqFull
  <2>3. \A i \in 1..Len(x) : SubSeq(y, 1, Len(x))[i] = y[i]
    BY <1>1, <2>1, SubSeqProperties
  <2> QED BY <1>2, <2>2, <2>3
<1> HIDE DEF bx, by
<1>4. \A i \in 1..Len(bx) : bx[i] = by[i] /\ bx[i] \in T /\ by[i] \in T
  <2>1. ASSUME NEW i \in 1..Len(bx) PROVE bx[i] = by[i]
    <3>1. i \in 1..(Len(b) + Len(x)) /\ i \in 1..(Len(b) + Len(y))
      BY <1>1, <1>2
    <3>2. CASE i <= Len(b)
      BY <1>1, <3>1, <3>2
    <3>3. CASE ~(i <= Len(b))
      <4>1. i - Len(b) \in 1..Len(x)
        BY <1>1, <3>1, <3>3
      <4> QED BY <1>1, <1>3, <3>1, <3>3, <4>1
    <3> QED BY <3>2, <3>3
  <2>2. \A i \in 1..Len(bx) : bx[i] \in T
    BY <1>1
  <2> QED BY <2>1, <2>2
<1>5. Len(bx) <= Len(by)
  BY <1>1, <1>2
<1>6. SubSeq(by, 1, Len(bx)) = bx
  <2> DEFINE z == SubSeq(by, 1, Len(bx))
  <2>1. z \in Seq(T) /\ Len(z) = Len(bx) /\ \A i \in 1..Len(bx) : z[i] = by[i]
    BY <1>1, <1>4, SubSeqProperties
  <2> HIDE DEF z
  <2>2. z = bx
    BY <1>1, <1>4, <2>1, SeqEqual
  <2> QED BY <2>2 DEF z
<1>7. SubSeq(bx, 1, Len(bx)) = bx
  BY <1>1, SubSeqFull
<1>8. IsPrefix(bx, by)
  BY <1>5, <1>6, <1>7 DEF IsPrefix
<1> QED BY <1>8 DEF bx, by

LEMMA PrefixSelf ==
  ASSUME NEW T, NEW x \in Seq(T)
  PROVE  IsPrefix(x, x)
  BY DEF IsPrefix

LEMMA ContinuesMerged ==
  ASSUME NEW T, NEW bar \in RowOf(T), NEW later \in RowOf(T), NEW row \in RowOf(T),
         Continues(bar, later)
  PROVE  Continues(bar, Merged(later, row))
<1>1. bar.ticks \in Seq(T) /\ later.ticks \in Seq(T) /\ row.ticks \in Seq(T)
  BY DEF RowOf
<1> DEFINE x == bar.ticks
           y == later.ticks
           z == row.ticks
<1>2. IsPrefix(x, y \o z)
  <2>1. IsPrefix(x, y) /\ x \in Seq(T) /\ y \in Seq(T) /\ z \in Seq(T)
    BY <1>1 DEF Continues
  <2> HIDE DEF x, y, z
  <2> QED BY <2>1, PrefixMore
<1> QED BY <1>2 DEF Continues, Merged

LEMMA GrowsSelf ==
  ASSUME NEW T, NEW bars \in Seq(RowOf(T))
  PROVE  GrowsTo(bars, bars)
<1>1. ASSUME NEW k \in 1..Len(bars) PROVE Continues(bars[k], bars[k])
  <2>1. bars[k].ticks \in Seq(T)
    <3>1. bars[k] \in RowOf(T)
      OBVIOUS
    <3> QED BY <3>1 DEF RowOf
  <2> QED BY <2>1, PrefixSelf DEF Continues
<1> QED BY <1>1 DEF GrowsTo

LEMMA GrowsPush ==
  ASSUME NEW T, NEW w \in 1..Day, NEW s \in Sessions,
         NEW bars \in Seq(RowOf(T)), NEW later \in Seq(RowOf(T)), NEW row \in RowOf(T),
         GrowsTo(bars, later)
  PROVE  GrowsTo(bars, Push(w, s, later, row))
<1>1. CASE later = <<>>
  <2>1. Len(bars) = 0 /\ Push(w, s, later, row) \in Seq(RowOf(T))
    <3>1. Len(bars) \in Nat /\ Len(bars) <= 0
      BY <1>1 DEF GrowsTo
    <3> QED BY <3>1, PushType
  <2>2. 0 <= Len(Push(w, s, later, row))
    BY <2>1
  <2> QED BY <2>1, <2>2 DEF GrowsTo
<1>2. CASE later # <<>>
  <2>1. PICK c \in Seq(RowOf(T)), bar \in RowOf(T) : later = Append(c, bar)
    BY <1>2, SequenceEmptyOrAppend
  <2> DEFINE n == Len(c)
             m == Len(bars)
             merged == Merged(bar, row)
             opened == NewBar(w, s, row)
             pushed == Push(w, s, later, row)
  <2>2. /\ n \in Nat /\ m \in Nat /\ Len(later) = n + 1 /\ later[n + 1] = bar
        /\ \A k \in 1..n : later[k] = c[k]
    BY <2>1, AppendProperties
  <2>3. /\ m <= n + 1
        /\ \A k \in 1..m : /\ Continues(bars[k], later[k])
                           /\ k < m => later[k] = bars[k]
    <3>1. GrowsTo(bars, later)
      OBVIOUS
    <3>2. m <= Len(later)
      BY <3>1, Zenon DEF GrowsTo
    <3>3. \A k \in 1..m : /\ Continues(bars[k], later[k])
                          /\ k < m => later[k] = bars[k]
      BY <3>1, Zenon DEF GrowsTo
    <3> QED BY <2>2, <3>2, <3>3, Zenon
  <2>4. merged \in RowOf(T) /\ opened \in RowOf(T)
    BY BarsTypes
  <2>5. pushed = IF row.time < bar.time + w THEN Append(c, merged) ELSE Append(later, opened)
    BY <2>1, PushOnto
  <2>6. ASSUME NEW k \in 1..m, k = n + 1
        PROVE  Continues(bars[k], merged)
    <3>1. bars[k] \in RowOf(T) /\ Continues(bars[k], bar)
      BY <2>2, <2>3, <2>6
    <3> QED BY <3>1, ContinuesMerged
  <2> HIDE DEF merged, opened
  <2>7. CASE row.time < bar.time + w
    <3> DEFINE want == Append(c, merged)
    <3>1. Len(want) = n + 1 /\ want[n + 1] = merged /\ \A k \in 1..n : want[k] = c[k]
      BY <2>4, AppendProperties
    <3> HIDE DEF want
    <3>2. ASSUME NEW k \in 1..m
          PROVE  Continues(bars[k], want[k]) /\ (k < m => want[k] = bars[k])
      <4>1. CASE k \in 1..n
        BY <4>1, <2>2, <2>3, <3>1
      <4>2. CASE k = n + 1
        BY <4>2, <2>2, <2>3, <2>6, <3>1
      <4> QED BY <2>2, <2>3, <4>1, <4>2
    <3>3. GrowsTo(bars, want)
      BY <2>2, <2>3, <3>1, <3>2 DEF GrowsTo
    <3> QED BY <2>5, <2>7, <3>3 DEF want
  <2>8. CASE ~(row.time < bar.time + w)
    <3> DEFINE want == Append(later, opened)
    <3>1. Len(want) = n + 2 /\ \A k \in 1..(n + 1) : want[k] = later[k]
      BY <2>2, <2>4, AppendProperties
    <3> HIDE DEF want
    <3>2. \A k \in 1..m : k \in 1..(n + 1)
      BY <2>2, <2>3
    <3>3. GrowsTo(bars, want)
      BY <2>2, <2>3, <3>1, <3>2 DEF GrowsTo
    <3> QED BY <2>5, <2>8, <3>3 DEF want
  <2> QED BY <2>7, <2>8
<1> QED BY <1>1, <1>2

\* Two series that differ only in what their last rows hold so far.
LEMMA PushAlike ==
  ASSUME NEW T, NEW w \in 1..Day, NEW s \in Sessions,
         NEW bars \in Seq(RowOf(T)), NEW row \in RowOf(T), NEW later \in RowOf(T),
         Continues(row, later)
  PROVE  /\ GrowsTo(Push(w, s, bars, row), Push(w, s, bars, later))
         /\ Len(Push(w, s, bars, row)) = Len(Push(w, s, bars, later))
<1>1. ASSUME NEW c \in Seq(RowOf(T)), NEW x \in RowOf(T), NEW y \in RowOf(T), Continues(x, y)
      PROVE  /\ GrowsTo(Append(c, x), Append(c, y))
             /\ Len(Append(c, x)) = Len(Append(c, y))
  <2> DEFINE n == Len(c)
             a == Append(c, x)
             b == Append(c, y)
  <2>1. /\ n \in Nat
        /\ Len(a) = n + 1 /\ a[n + 1] = x /\ \A k \in 1..n : a[k] = c[k]
        /\ Len(b) = n + 1 /\ b[n + 1] = y /\ \A k \in 1..n : b[k] = c[k]
    BY AppendProperties
  <2>2. \A k \in 1..n : Continues(c[k], c[k])
    <3>1. GrowsTo(c, c)
      BY GrowsSelf
    <3> QED BY <3>1, Zenon DEF GrowsTo
  <2> HIDE DEF a, b
  <2>3. \A k \in 1..(n + 1) : k \in 1..n \/ (k = n + 1 /\ ~(k < n + 1))
    BY <2>1
  <2>4. \A k \in 1..(n + 1) : Continues(a[k], b[k]) /\ (k < n + 1 => b[k] = a[k])
    BY <1>1, <2>1, <2>2, <2>3
  <2>5. GrowsTo(a, b)
    BY <2>1, <2>4 DEF GrowsTo
  <2> QED BY <2>1, <2>5 DEF a, b
<1>2. CASE Joins(w, bars, row)
  <2>1. PICK c \in Seq(RowOf(T)), bar \in RowOf(T) : bars = Append(c, bar)
    BY <1>2, SequenceEmptyOrAppend DEF Joins
  <2>2. bars[Len(bars)] = bar
    BY <2>1, AppendProperties
  <2>3. row.time < bar.time + w /\ later.time < bar.time + w
    BY <1>2, <2>2 DEF Joins, Continues
  <2> DEFINE x == Merged(bar, row)
             y == Merged(bar, later)
  <2>4. x \in RowOf(T) /\ y \in RowOf(T)
    BY BarsTypes
  <2>5. Continues(x, y)
    <3> DEFINE b == bar.ticks
               p == row.ticks
               q == later.ticks
    <3>1. b \in Seq(T) /\ p \in Seq(T) /\ q \in Seq(T) /\ IsPrefix(p, q)
      BY BarsTypes DEF Continues
    <3>2. IsPrefix(b \o p, b \o q)
      <4> HIDE DEF b, p, q
      <4> QED BY <3>1, PrefixOnto
    <3> QED BY <3>2 DEF Continues, Merged
  <2>6. Push(w, s, bars, row) = Append(c, x) /\ Push(w, s, bars, later) = Append(c, y)
    BY <2>1, <2>3, PushOnto
  <2> HIDE DEF x, y
  <2> QED BY <1>1, <2>4, <2>5, <2>6
<1>3. CASE ~Joins(w, bars, row)
  <2>1. ~Joins(w, bars, later) /\ row.time = later.time
    BY <1>3 DEF Joins, Continues
  <2> DEFINE x == NewBar(w, s, row)
             y == NewBar(w, s, later)
  <2>2. x \in RowOf(T) /\ y \in RowOf(T) /\ Continues(x, y)
    BY <2>1, BarsTypes DEF NewBar, Continues
  <2>3. Push(w, s, bars, row) = Append(bars, x) /\ Push(w, s, bars, later) = Append(bars, y)
    BY <1>3, <2>1, PushOpens DEF NewBar
  <2> HIDE DEF x, y
  <2> QED BY <1>1, <2>2, <2>3
<1> QED BY <1>2, <1>3

-----------------------------------------------------------------------------
(* Order and the session filter.                                           *)

LEMMA InOrderAppend ==
  ASSUME NEW S, NEW rows \in Seq(S), NEW e \in S
  PROVE  InOrder(Append(rows, e)) <=>
            InOrder(rows) /\ \A i \in 1..Len(rows) : rows[i].time < e.time
<1> DEFINE n == Len(rows)
           more == Append(rows, e)
<1>1. /\ n \in Nat /\ Len(more) = n + 1 /\ more[n + 1] = e
      /\ \A i \in 1..n : more[i] = rows[i]
  BY AppendProperties
<1> HIDE DEF more
<1>2. \A i \in 1..n : i \in 1..(n + 1) /\ i < n + 1
  BY <1>1
<1>3. n + 1 \in 1..(n + 1)
  BY <1>1
<1>4. ASSUME InOrder(more) PROVE InOrder(rows) /\ \A i \in 1..n : rows[i].time < e.time
  <2>1. \A j, k \in 1..n : j < k => more[j].time < more[k].time
    BY <1>1, <1>2, <1>4 DEF InOrder
  <2>2. \A i \in 1..n : more[i].time < more[n + 1].time
    BY <1>1, <1>2, <1>3, <1>4 DEF InOrder
  <2> QED BY <1>1, <2>1, <2>2 DEF InOrder
<1>5. ASSUME InOrder(rows), \A i \in 1..n : rows[i].time < e.time PROVE InOrder(more)
  <2> SUFFICES ASSUME NEW j \in 1..(n + 1), NEW k \in 1..(n + 1), j < k
               PROVE  more[j].time < more[k].time
    BY <1>1 DEF InOrder
  <2>1. j \in 1..n /\ (k \in 1..n \/ k = n + 1)
    BY <1>1
  <2>2. CASE k \in 1..n
    BY <1>1, <1>5, <2>1, <2>2 DEF InOrder
  <2>3. CASE k = n + 1
    BY <1>1, <1>5, <2>1, <2>3
  <2> QED BY <2>1, <2>2, <2>3
<1> QED BY <1>4, <1>5 DEF more

\* Taking some rows of an ordered file leaves them in order.
LEMMA RowsAtInOrder ==
  ASSUME NEW S, NEW rows \in Seq(S), NEW P, InOrder(rows)
  PROVE  InOrder(RowsAt(rows, P))
<1> DEFINE Good == {r \in Seq(S) : InOrder(r) => InOrder(RowsAt(r, P))}
<1>1. <<>> \in Good
  BY RowsAtEmpty DEF InOrder
<1>2. ASSUME NEW r \in Seq(S), NEW e \in S, r \in Good
      PROVE  Append(r, e) \in Good
  <2> DEFINE more == Append(r, e)
             taken == RowsAt(r, P)
  <2>1. more \in Seq(S) /\ taken \in Seq(S)
    BY AppendProperties, RowsAtType
  <2>2. ASSUME InOrder(more) PROVE InOrder(RowsAt(more, P))
    <3>1. InOrder(r) /\ \A i \in 1..Len(r) : r[i].time < e.time
      BY <2>2, InOrderAppend
    <3>2. InOrder(taken)
      BY <1>2, <3>1
    <3>3. \A k \in 1..Len(taken) : taken[k].time < e.time
      <4>1. \A k \in 1..Len(taken) : \E i \in 1..Len(r) : taken[k] = r[i]
        BY RowsAtElements
      <4> HIDE DEF taken
      <4> QED BY <3>1, <4>1
    <3>4. InOrder(Append(taken, e))
      <4> HIDE DEF taken
      <4> QED BY <2>1, <3>2, <3>3, InOrderAppend
    <3>5. RowsAt(more, P) = Append(taken, e) \/ RowsAt(more, P) = taken
      BY RowsAtAppend
    <3> QED BY <3>2, <3>4, <3>5
  <2> QED BY <2>1, <2>2
<1>3. Seq(S) \subseteq Good
  <2> HIDE DEF Good
  <2> QED BY <1>1, <1>2, SeqInduction
<1> QED BY <1>3

LEMMA InSessionType ==
  ASSUME NEW S, NEW rows \in Seq(S), NEW s
  PROVE  InSession(s, rows) \in Seq(S)
  BY RowsAtType DEF InSession

LEMMA InSessionEmpty ==
  ASSUME NEW s
  PROVE  InSession(s, <<>>) = <<>>
  BY RowsAtEmpty DEF InSession

LEMMA InSessionAppend ==
  ASSUME NEW S, NEW rows \in Seq(S), NEW e \in S, NEW s
  PROVE  InSession(s, Append(rows, e)) =
            IF InHours(s, e.time) THEN Append(InSession(s, rows), e) ELSE InSession(s, rows)
<1> DEFINE n == Len(rows)
           more == Append(rows, e)
           P == {i \in DOMAIN more : InHours(s, more[i].time)}
           Q == {i \in DOMAIN rows : InHours(s, rows[i].time)}
<1>1. /\ n \in Nat /\ DOMAIN rows = 1..n /\ DOMAIN more = 1..(n + 1)
      /\ more[n + 1] = e /\ \A i \in 1..n : more[i] = rows[i]
  BY AppendProperties
<1>2. \A i \in 1..n : i \in P <=> i \in Q
  <2>1. \A i \in 1..n : i \in 1..(n + 1)
    BY <1>1
  <2> HIDE DEF more
  <2> QED BY <1>1, <2>1
<1>3. n + 1 \in P <=> InHours(s, e.time)
  <2>1. n + 1 \in 1..(n + 1)
    BY <1>1
  <2> HIDE DEF more
  <2> QED BY <1>1, <2>1
<1>4. RowsAt(more, P) = IF n + 1 \in P THEN Append(RowsAt(rows, Q), e) ELSE RowsAt(rows, Q)
  <2> HIDE DEF P, Q
  <2> QED BY <1>2, RowsAtAppend
<1> QED BY <1>3, <1>4, Zenon DEF InSession, P, Q, more

\* The filter lets whole rows through, and only those in the session.
LEMMA InSessionElements ==
  ASSUME NEW S, NEW rows \in Seq(S), NEW s
  PROVE  \A k \in 1..Len(InSession(s, rows)) :
            \E i \in 1..Len(rows) : /\ InHours(s, rows[i].time)
                                    /\ InSession(s, rows)[k] = rows[i]
<1> DEFINE P == {i \in DOMAIN rows : InHours(s, rows[i].time)}
<1>1. \A k \in 1..Len(RowsAt(rows, P)) :
         \E i \in 1..Len(rows) : i \in P /\ RowsAt(rows, P)[k] = rows[i]
  <2> HIDE DEF P
  <2> QED BY RowsAtElements
<1>2. \A i \in P : InHours(s, rows[i].time)
  OBVIOUS
<1>3. InSession(s, rows) = RowsAt(rows, P)
  BY DEF InSession
<1> HIDE DEF P
<1> QED BY <1>1, <1>2, <1>3

LEMMA InSessionAll ==
  ASSUME NEW S, NEW rows \in Seq(S), NEW s, \A i \in 1..Len(rows) : InHours(s, rows[i].time)
  PROVE  InSession(s, rows) = rows
<1>1. 1..Len(rows) \subseteq {i \in DOMAIN rows : InHours(s, rows[i].time)}
  OBVIOUS
<1> QED BY <1>1, RowsAtAll DEF InSession

-----------------------------------------------------------------------------
(* The arithmetic of buckets.                                              *)

LEMMA Multiples ==
  ASSUME NEW w \in Nat \ {0}, NEW p \in Int, NEW q \in Int
  PROVE  /\ w * p \in Int /\ w * q \in Int
         /\ p < q => w * p + w <= w * q
         /\ w * p < w * q + w => p <= q
         /\ p >= 0 => w * p >= 0
         /\ w * (p + q) = w * p + w * q
         /\ w * (p - q) = w * p - w * q
<1>1. /\ w * p \in Int /\ w * q \in Int
      /\ w * (p + q) = w * p + w * q
      /\ w * (p - q) = w * p - w * q
  OBVIOUS
<1>2. ASSUME NEW x \in Int, NEW y \in Int, x < y PROVE w * x + w <= w * y
  <2>1. PICK k \in Nat : y = (x + 1) + k
    <3>1. (y - x) - 1 \in Nat /\ y = (x + 1) + ((y - x) - 1)
      BY <1>2
    <3> QED BY <3>1
  <2>2. w * k >= 0
    OBVIOUS
  <2>3. w * ((x + 1) + k) = w * x + w + w * k
    OBVIOUS
  <2> QED BY <2>1, <2>2, <2>3
<1>3. p < q => w * p + w <= w * q
  BY <1>2
<1>4. w * p < w * q + w => p <= q
  <2>1. q < p => w * q + w <= w * p
    BY <1>2
  <2> QED BY <1>1, <2>1
<1>5. p >= 0 => w * p >= 0
  OBVIOUS
<1> QED BY <1>1, <1>3, <1>4, <1>5

\* There is one quotient.
LEMMA QuotientBounds ==
  ASSUME NEW a \in Int, NEW w \in Nat \ {0}, NEW q \in Int, w * q <= a, a < w * q + w
  PROVE  a \div w = q
<1> DEFINE p == a \div w
<1>1. p \in Int /\ w * p <= a /\ a < w * p + w
  BY Division
<1> HIDE DEF p
<1>2. w * p < w * q + w /\ w * q < w * p + w /\ w * p \in Int /\ w * q \in Int
  <2>1. w * p \in Int /\ w * q \in Int
    BY <1>1
  <2> QED BY <1>1, <2>1
<1>3. p <= q /\ q <= p
  BY <1>1, <1>2, Multiples
<1>4. p = q
  BY <1>1, <1>3
<1> QED BY <1>4 DEF p

\* No midnight between two times of one day.
LEMMA SameMidnight ==
  ASSUME NEW t \in Int, NEW u \in Int, Midnight(t) <= u, u <= t
  PROVE  Midnight(u) = Midnight(t)
<1> DEFINE d == t \div Day
<1>1. d \in Int /\ Day * d = Midnight(t) /\ t < Day * d + Day /\ Day * d \in Int
  BY HoursType, Division DEF Midnight
<1>2. Day * d <= u /\ u < Day * d + Day
  <2>1. /\ Midnight(t) \in Int /\ Midnight(t) <= u /\ u < Midnight(t) + Day
    BY MidnightBounds, HoursType
  <2> HIDE DEF d
  <2> QED BY <1>1, <2>1, Zenon
<1>3. u \div Day = d
  <2> HIDE DEF d
  <2> QED BY <1>1, <1>2, HoursType, QuotientBounds
<1> QED BY <1>1, <1>3 DEF Midnight

LEMMA MidnightOrder ==
  ASSUME NEW t \in Int, NEW u \in Int, t <= u
  PROVE  Midnight(t) = Midnight(u) \/ Midnight(t) + Day <= Midnight(u)
<1> DEFINE d == t \div Day
           e == u \div Day
<1>1. /\ d \in Int /\ Day * d = Midnight(t) /\ Day * d <= t
      /\ e \in Int /\ Day * e = Midnight(u) /\ u < Day * e + Day
  BY HoursType, Division DEF Midnight
<1> HIDE DEF d, e
<1>2. Day * d < Day * e + Day
  <2>1. Day * d \in Int /\ Day * e \in Int
    BY <1>1, MidnightBounds
  <2> QED BY <1>1, <2>1, HoursType
<1>3. d <= e
  BY <1>1, <1>2, HoursType, Multiples
<1>4. CASE d = e
  BY <1>1, <1>4
<1>5. CASE d < e
  BY <1>1, <1>5, HoursType, Multiples
<1> QED BY <1>1, <1>3, <1>4, <1>5

\* Below a day, a bucket starts a whole number of widths from the open.
LEMMA BucketForm ==
  ASSUME NEW w \in 1..Day, w # Day, NEW s \in Sessions, NEW t \in Int
  PROVE  \E p \in Int : BucketStart(w, s, t) = OpenEpoch(s, t) + w * p
<1>1. (t - OpenEpoch(s, t)) \div w \in Int
  <2>1. OpenEpoch(s, t) \in Int /\ w \in Nat \ {0}
    BY MidnightBounds, HoursType DEF OpenEpoch
  <2> QED BY <2>1, Division
<1>2. BucketStart(w, s, t) = OpenEpoch(s, t) + w * ((t - OpenEpoch(s, t)) \div w)
  BY DEF BucketStart
<1> QED BY <1>1, <1>2

\* Only one start fits.
LEMMA BucketUnique ==
  ASSUME NEW w \in 1..Day, w # Day, NEW s \in Sessions, NEW t \in Int, NEW p \in Int,
         OpenEpoch(s, t) + w * p <= t, t < OpenEpoch(s, t) + w * p + w
  PROVE  BucketStart(w, s, t) = OpenEpoch(s, t) + w * p
<1> DEFINE o == OpenEpoch(s, t)
<1>1. o \in Int /\ w \in Nat \ {0} /\ w * p \in Int
  BY MidnightBounds, HoursType DEF OpenEpoch
<1>2. o + w * p <= t /\ t < o + w * p + w
  OBVIOUS
<1>3. BucketStart(w, s, t) = o + w * ((t - o) \div w)
  BY DEF BucketStart
<1> HIDE DEF o
<1>4. w * p <= t - o /\ t - o < w * p + w /\ t - o \in Int
  BY <1>1, <1>2
<1>5. (t - o) \div w = p
  BY <1>1, <1>4, QuotientBounds
<1> QED BY <1>3, <1>5 DEF o

-----------------------------------------------------------------------------
(* When the buckets of a series lie beside each other.                     *)

Beside(w, a, b) == a = b \/ a + w <= b

LEMMA SameGrid ==
  ASSUME NEW w \in Nat \ {0}, NEW o \in Int, NEW p \in Int, NEW q \in Int,
         o + w * p < o + w * q + w
  PROVE  Beside(w, o + w * p, o + w * q)
<1>1. w * p \in Int /\ w * q \in Int
  OBVIOUS
<1>2. p <= q
  <2>1. w * p < w * q + w
    BY <1>1
  <2> QED BY <2>1, Multiples
<1>3. CASE p = q
  BY <1>3 DEF Beside
<1>4. CASE p < q
  <2>1. w * p + w <= w * q
    BY <1>4, Multiples
  <2> QED BY <1>1, <2>1 DEF Beside
<1> QED BY <1>2, <1>3, <1>4

\* Buckets of one such series are equal or apart.
LEMMA BucketsBeside ==
  ASSUME NEW w \in 1..Day, NEW s \in Sessions, Even(w, s),
         NEW t \in Int, NEW u \in Int, t <= u, Belongs(s, t), Belongs(s, u)
  PROVE  Beside(w, BucketStart(w, s, t), BucketStart(w, s, u))
<1> DEFINE a == BucketStart(w, s, t)
           b == BucketStart(w, s, u)
           o == Hours[s].open
<1>1. /\ w \in Nat \ {0} /\ Day \in Nat \ {0} /\ o \in Int
      /\ a \in Int /\ a <= t /\ b \in Int /\ u < b + w
      /\ Midnight(t) \in Int /\ Midnight(u) \in Int
      /\ t < Midnight(t) + Day
  BY HoursType, BucketStartBounds, MidnightBounds
<1>2. a < b + w
  <2> HIDE DEF a, b
  <2> QED BY <1>1
<1>3. CASE w = Day
  <2>1. a = Midnight(t) /\ b = Midnight(u)
    BY <1>3 DEF BucketStart
  <2> QED BY <1>3, <2>1, MidnightOrder DEF Beside
<1>4. CASE w # Day
  <2>1. PICK p \in Int : a = (Midnight(t) + o) + w * p
    BY <1>4, BucketForm DEF OpenEpoch
  <2>2. PICK q \in Int : b = (Midnight(u) + o) + w * q
    BY <1>4, BucketForm DEF OpenEpoch
  <2> HIDE DEF a, b, o
  <2>3. CASE Midnight(t) = Midnight(u)
    <3>1. Midnight(t) + o \in Int
      BY <1>1
    <3> QED BY <1>1, <1>2, <2>1, <2>2, <2>3, <3>1, SameGrid DEF a, b
  <2>4. CASE Midnight(t) + Day <= Midnight(u) /\ Day % w = 0
    <3>1. PICK c \in Int : Day = w * c
      <4>1. Day = w * (Day \div w) /\ Day \div w \in Int
        BY <1>1, <2>4
      <4> QED BY <4>1
    <3>2. PICK d \in Int : Midnight(t) = w * d
      <4>1. t \div Day \in Int /\ Midnight(t) = Day * (t \div Day)
        BY <1>1 DEF Midnight
      <4>2. (w * c) * (t \div Day) = w * (c * (t \div Day)) /\ c * (t \div Day) \in Int
        BY <1>1, <4>1
      <4> QED BY <3>1, <4>1, <4>2
    <3>3. PICK e \in Int : Midnight(u) = w * e
      <4>1. u \div Day \in Int /\ Midnight(u) = Day * (u \div Day)
        BY <1>1 DEF Midnight
      <4>2. (w * c) * (u \div Day) = w * (c * (u \div Day)) /\ c * (u \div Day) \in Int
        BY <1>1, <4>1
      <4> QED BY <3>1, <4>1, <4>2
    <3>4. a = o + w * (d + p)
      BY <1>1, <2>1, <3>2, Multiples
    <3>5. b = o + w * (e + q)
      BY <1>1, <2>2, <3>3, Multiples
    <3>6. d + p \in Int /\ e + q \in Int
      OBVIOUS
    <3> QED BY <1>1, <1>2, <3>4, <3>5, <3>6, SameGrid DEF a, b
  <2>5. CASE Midnight(t) + Day <= Midnight(u) /\ Day % w # 0
    <3> DEFINE close == Hours[s].close
    <3>1. /\ s = "rth" /\ close - o + w <= Day + 1 /\ close \in Int
          /\ t - Midnight(t) <= close - 1
          /\ o <= u - Midnight(u)
      <4>1. s = "rth" /\ close - o + w <= Day + 1 /\ close \in Int
        BY <2>5, HoursType DEF Even, o
      <4>2. InHours(s, t) /\ InHours(s, u)
        BY <4>1 DEF Belongs
      <4>3. t - Midnight(t) <= close - 1 /\ o <= u - Midnight(u)
        <5>1. t - Midnight(t) \in o..(close - 1) /\ u - Midnight(u) \in o..(close - 1)
          BY <4>2 DEF InHours, o
        <5> HIDE DEF close
        <5> QED BY <1>1, <4>1, <5>1
      <4> QED BY <4>1, <4>3
    <3> HIDE DEF close
    <3>2. 0 <= w * q /\ w * q \in Int
      <4>1. 0 < w * q + w /\ w * q \in Int
        <5>1. w * q \in Int
          BY <1>1
        <5> QED BY <1>1, <2>2, <3>1, <5>1
      <4>2. w * 0 < w * q + w
        BY <4>1
      <4>3. 0 <= q
        BY <1>1, <4>2, Multiples
      <4> QED BY <1>1, <4>1, <4>3, Multiples
    <3>3. a + w <= b
      BY <1>1, <2>2, <2>5, <3>1, <3>2
    <3> QED BY <3>3 DEF Beside, a, b
  <2> QED BY <2>3, <2>4, <2>5, MidnightOrder
<1> QED BY <1>3, <1>4

-----------------------------------------------------------------------------
(* Coarser buckets of finer ones.                                          *)

LEMMA WholeMultiple ==
  ASSUME NEW a \in Int, NEW w \in Nat \ {0}, a % w = 0
  PROVE  \E c \in Int : a = w * c
<1>1. a = w * (a \div w) + (a % w) /\ a \div w \in Int /\ w * (a \div w) \in Int
  OBVIOUS
<1> QED BY <1>1

\* Sessions that open whole buckets apart have the same buckets.
LEMMA SameBuckets ==
  ASSUME NEW w \in 1..Day, w # Day, NEW s \in Sessions, NEW r \in Sessions,
         (Hours[r].open - Hours[s].open) % w = 0, NEW t \in Int
  PROVE  BucketStart(w, s, t) = BucketStart(w, r, t)
<1> DEFINE a == BucketStart(w, s, t)
           m == Midnight(t)
           o == Hours[r].open
           e == Hours[s].open
<1>1. w \in Nat \ {0} /\ o \in Int /\ e \in Int /\ m \in Int
  BY HoursType, MidnightBounds
<1>2. a \in Int /\ a <= t /\ t < a + w
  BY BucketStartBounds
<1>3. PICK p \in Int : a = (m + e) + w * p
  BY BucketForm DEF OpenEpoch
<1>4. PICK k \in Int : o - e = w * k
  <2>1. o - e \in Int /\ (o - e) % w = 0
    BY <1>1
  <2> HIDE DEF o, e
  <2> QED BY <1>1, <2>1, WholeMultiple
<1>5. OpenEpoch(r, t) = m + o
  BY DEF OpenEpoch
<1> HIDE DEF a, m, o, e
<1>6. a = (m + o) + w * (p - k) /\ p - k \in Int /\ w * (p - k) \in Int
  BY <1>1, <1>3, <1>4, Multiples
<1>7. OpenEpoch(r, t) + w * (p - k) <= t /\ t < OpenEpoch(r, t) + w * (p - k) + w
  BY <1>2, <1>5, <1>6
<1>8. BucketStart(w, r, t) = a
  BY <1>5, <1>6, <1>7, BucketUnique
<1> QED BY <1>8 DEF a

\* A bucket lies in one bucket of a width it divides, and in one day.
LEMMA NestedBuckets ==
  ASSUME NEW w \in 1..Day, NEW v \in 1..Day, NEW s \in Sessions, NEW r \in Sessions, NEW t \in Int,
         v = Day \/ (w # Day /\ v # Day /\ v % w = 0 /\ (Hours[r].open - Hours[s].open) % w = 0),
         Midnight(t) <= BucketStart(w, s, t)
  PROVE  BucketStart(v, r, BucketStart(w, s, t)) = BucketStart(v, r, t)
<1> DEFINE a == BucketStart(w, s, t)
<1>1. a \in Int /\ a <= t /\ Midnight(t) <= a
  BY BucketStartBounds
<1>2. Midnight(a) = Midnight(t)
  <2> HIDE DEF a
  <2> QED BY <1>1, SameMidnight
<1>3. CASE v = Day
  BY <1>2, <1>3 DEF BucketStart
<1>4. CASE v # Day
  <2> DEFINE o == OpenEpoch(r, t)
             b == BucketStart(v, r, t)
  <2>a. w # Day /\ v % w = 0 /\ (Hours[r].open - Hours[s].open) % w = 0
    BY <1>4
  <2>b. OpenEpoch(r, a) = o
    BY <1>2 DEF OpenEpoch
  <2>c. o \in Int
    BY HoursType, MidnightBounds DEF OpenEpoch
  <2>d. b \in Int /\ b <= t /\ t < b + v
    BY BucketStartBounds
  <2>e. t < a + w
    BY BucketStartBounds
  <2>f. w \in Nat \ {0} /\ v \in Nat \ {0}
    BY HoursType
  <2> HIDE DEF a, b, o
  <2>1. /\ w \in Nat \ {0} /\ v \in Nat \ {0} /\ o \in Int /\ OpenEpoch(r, a) = o
        /\ b \in Int /\ b <= t /\ t < b + v /\ t < a + w
    BY <2>b, <2>c, <2>d, <2>e, <2>f
  <2>2. PICK p \in Int : a = o + w * p
    <3>1. a = BucketStart(w, r, t)
      BY <2>a, SameBuckets DEF a
    <3> QED BY <2>a, <3>1, BucketForm DEF o
  <2>3. PICK q \in Int : b = o + v * q
    BY <1>4, BucketForm DEF o, b
  <2>4. PICK c \in Int : v = w * c
    <3>1. v \in Int /\ w \in Nat \ {0} /\ v % w = 0
      BY <2>1, <2>a
    <3> QED BY <3>1, WholeMultiple
  <2>5. v * q = w * (c * q) /\ c * q \in Int
    BY <2>1, <2>4
  <2>6. b <= a
    <3>1. w * (c * q) < w * p + w
      <4>1. w * p \in Int /\ w * (c * q) \in Int
        BY <2>1, <2>5
      <4>2. b < a + w
        BY <1>1, <2>1
      <4> QED BY <2>1, <2>2, <2>3, <2>5, <4>1, <4>2
    <3>2. c * q <= p
      BY <2>1, <2>5, <3>1, Multiples
    <3>3. w * (c * q) <= w * p
      <4>1. CASE c * q = p
        BY <2>1, <4>1
      <4>2. CASE c * q < p
        <5>1. w * (c * q) + w <= w * p /\ w * (c * q) \in Int /\ w * p \in Int
          BY <2>1, <2>5, <4>2, Multiples
        <5> QED BY <2>1, <5>1
      <4> QED BY <2>5, <3>2, <4>1, <4>2
    <3>4. w * p \in Int /\ v * q \in Int
      BY <2>1
    <3> QED BY <2>1, <2>2, <2>3, <2>5, <3>3, <3>4
  <2>7. a < b + v
    BY <1>1, <2>1
  <2>8. BucketStart(v, r, a) = o + v * q
    <3>1. OpenEpoch(r, a) + v * q <= a /\ a < OpenEpoch(r, a) + v * q + v
      BY <2>1, <2>3, <2>6, <2>7
    <3>2. a \in Int /\ v # Day
      BY <1>1, <1>4
    <3>3. BucketStart(v, r, a) = OpenEpoch(r, a) + v * q
      BY <3>1, <3>2, BucketUnique
    <3> QED BY <2>1, <3>3
  <2> QED BY <2>3, <2>8 DEF a, b
<1> QED BY <1>3, <1>4

\* A bucket lies in a session with all of its ticks or with none, if the session
\* opens and closes at edges of buckets.
LEMMA WholeBuckets ==
  ASSUME NEW w \in 1..Day, w # Day, NEW s \in Sessions, NEW r \in Sessions, NEW t \in Int,
         (Hours[r].open - Hours[s].open) % w = 0,
         (Hours[r].close - Hours[r].open) % w = 0,
         Midnight(t) <= BucketStart(w, s, t)
  PROVE  InHours(r, BucketStart(w, s, t)) <=> InHours(r, t)
<1> DEFINE a == BucketStart(w, s, t)
           m == Midnight(t)
           o == Hours[r].open
           c == Hours[r].close
<1>1. /\ w \in Nat \ {0} /\ o \in Int /\ c \in Int /\ m \in Int
      /\ a \in Int /\ a <= t /\ t < a + w
  BY HoursType, BucketStartBounds, MidnightBounds
<1>2. Midnight(a) = m
  BY <1>1, SameMidnight
<1>3. PICK p \in Int : a = (m + o) + w * p
  <2>1. a = BucketStart(w, r, t)
    BY SameBuckets
  <2> QED BY <2>1, BucketForm DEF OpenEpoch
<1>4. PICK k \in Int : c - o = w * k
  <2>1. c - o \in Int
    BY <1>1
  <2> QED BY <1>1, <2>1, WholeMultiple
<1>5. w * p \in Int /\ w * k \in Int
  BY <1>1
<1>6. InHours(r, t) <=> o <= t - m /\ t - m <= c - 1
  BY <1>1 DEF InHours
<1>7. InHours(r, a) <=> o <= a - m /\ a - m <= c - 1
  BY <1>1, <1>2 DEF InHours
<1> HIDE DEF a, m, o, c
<1>8. o <= t - m <=> o <= a - m
  <2>1. ASSUME o <= t - m PROVE o <= a - m
    <3>1. w * 0 < w * p + w
      BY <1>1, <1>3, <1>5, <2>1
    <3>2. 0 <= p
      BY <1>1, <3>1, Multiples
    <3>3. 0 <= w * p
      BY <1>1, <3>2, Multiples
    <3> QED BY <1>1, <1>3, <1>5, <3>3
  <2> QED BY <1>1, <2>1
<1>9. t - m <= c - 1 <=> a - m <= c - 1
  <2>1. ASSUME a - m <= c - 1 PROVE t - m <= c - 1
    <3>1. w * p < w * k
      BY <1>1, <1>3, <1>4, <1>5, <2>1
    <3>2. p < k
      <4>1. CASE k < p
        <5>1. w * k + w <= w * p
          BY <1>1, <4>1, Multiples
        <5> QED BY <1>1, <1>5, <3>1, <5>1
      <4>2. CASE k = p
        BY <1>5, <3>1, <4>2
      <4> QED BY <4>1, <4>2
    <3>3. w * p + w <= w * k
      BY <1>1, <3>2, Multiples
    <3> QED BY <1>1, <1>3, <1>4, <1>5, <3>3
  <2> QED BY <1>1, <2>1
<1> QED BY <1>6, <1>7, <1>8, <1>9 DEF a
=============================================================================
