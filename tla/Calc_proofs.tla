---------------------------- MODULE Calc_proofs -----------------------------
(***************************************************************************)
(* Every indicator fed one value at a time answers what its batch form has *)
(* at that place, for every period and every series of values.             *)
(***************************************************************************)
EXTENDS Calc, Bars_proofs

-----------------------------------------------------------------------------
(* The recursive functions of the batch forms.                             *)

\* The running sum after i values, from the one before.
SumStep(values, period, i, sum) ==
    LET added == Append(sum, <<"+", values[i]>>)
    IN  IF i > period THEN Append(added, <<"-", values[i - period]>>) ELSE added

LEMMA RunningSumLaw ==
  ASSUME NEW values, NEW period, Len(values) \in Nat
  PROVE  /\ RunningSum(values, period)[0] = <<>>
         /\ \A i \in 1..Len(values) :
               RunningSum(values, period)[i]
                  = SumStep(values, period, i, RunningSum(values, period)[i - 1])
<1> DEFINE N == Len(values)
           Step(i, x) == SumStep(values, period, i, x)
           IsSum(f, m) == f = [i \in 0..m |-> IF i = 0 THEN <<>> ELSE Step(i, f[i - 1])]
           Reached == {m \in 0..N : \E f : IsSum(f, m)}
           g == CHOOSE f : IsSum(f, N)
<1>1. RunningSum(values, period) = g
  BY DEF RunningSum, SumStep
<1> HIDE DEF Step, N, g
<1>2. N \in Nat
  BY DEF N
<1>3. 0 \in Reached
  <2>1. IsSum([i \in 0..0 |-> <<>>], 0)
    OBVIOUS
  <2>2. \E f : IsSum(f, 0)
    <3> HIDE DEF IsSum
    <3> QED BY <2>1
  <2> HIDE DEF IsSum
  <2> QED BY <1>2, <2>2
<1>4. ASSUME NEW m \in 1..N, m - 1 \in Reached
      PROVE  m \in Reached
  <2>1. PICK f : IsSum(f, m - 1)
    BY <1>4
  <2> DEFINE h == [i \in 0..m |-> IF i = m THEN Step(m, f[m - 1]) ELSE f[i]]
  <2>2. \A i \in 0..(m - 1) : f[i] = IF i = 0 THEN <<>> ELSE Step(i, f[i - 1])
    BY <2>1
  <2>3. h[m] = Step(m, f[m - 1]) /\ \A i \in 0..(m - 1) : h[i] = f[i]
    BY <1>2
  <2>4. h = [i \in 0..m |-> h[i]]
    OBVIOUS
  <2> HIDE DEF h
  <2>5. ASSUME NEW i \in 0..m
        PROVE  h[i] = IF i = 0 THEN <<>> ELSE Step(i, h[i - 1])
    <3>1. CASE i = m
      <4>1. i # 0 /\ i - 1 \in 0..(m - 1) /\ i - 1 = m - 1
        BY <1>2, <3>1
      <4> QED BY <2>3, <3>1, <4>1
    <3>2. CASE i # m
      <4>1. i \in 0..(m - 1) /\ (i # 0 => i - 1 \in 0..(m - 1))
        BY <1>2, <3>2
      <4> QED BY <2>2, <2>3, <4>1
    <3> QED BY <3>1, <3>2
  <2>6. IsSum(h, m)
    BY <2>4, <2>5, Zenon
  <2> HIDE DEF IsSum
  <2> QED BY <1>4, <1>2, <2>6
<1>5. N \in Reached
  <2>1. 0..N \subseteq Reached
    <3> HIDE DEF Reached
    <3> QED BY <1>2, <1>3, <1>4, Induction
  <2> QED BY <1>2, <2>1
<1>6. IsSum(g, N)
  <2> HIDE DEF IsSum
  <2> QED BY <1>5 DEF g
<1>7. g[0] = <<>> /\ \A i \in 1..N : g[i] = Step(i, g[i - 1])
  <2>1. \A i \in 0..N : g[i] = IF i = 0 THEN <<>> ELSE Step(i, g[i - 1])
    BY <1>6
  <2>2. 0 \in 0..N /\ \A i \in 1..N : i \in 0..N /\ i # 0
    BY <1>2
  <2> QED BY <2>1, <2>2, Zenon
<1> QED BY <1>1, <1>7 DEF Step, N

-----------------------------------------------------------------------------
\* A smoothed average after i values, from the one before.
SmoothStep(method, values, period, i, average) ==
    IF i < period THEN None
    ELSE IF i = period THEN Divided(Plain(SubSeq(values, 1, period)), period)
    ELSE Smoothed(method, average, values[i])

LEMMA SmoothedLaw ==
  ASSUME NEW method, NEW values, NEW period \in Nat \ {0},
         Len(values) \in Nat, DOMAIN values = 1..Len(values)
  PROVE  /\ DOMAIN SmoothedMa(method, values, period) = 1..Len(values)
         /\ \A i \in 1..Len(values) :
               SmoothedMa(method, values, period)[i]
                  = SmoothStep(method, values, period, i,
                               SmoothedMa(method, values, period)[i - 1])
<1> DEFINE N == Len(values)
           Step(i, x) == SmoothStep(method, values, period, i, x)
           Is(f, m) == f = [i \in 0..m |-> IF i = 0 THEN None ELSE Step(i, f[i - 1])]
           Reached == {m \in 0..N : \E f : Is(f, m)}
           g == CHOOSE f : Is(f, N)
<1>1. SmoothedMa(method, values, period) = [i \in 1..N |-> g[i]]
  <2> DEFINE Choice(f) == f = [i \in 0..N |->
                IF i = 0 \/ period = 0 \/ i < period THEN None
                ELSE IF i = period THEN Divided(Plain(SubSeq(values, 1, period)), period)
                ELSE Smoothed(method, f[i - 1], values[i])]
  <2>1. ASSUME NEW f PROVE Choice(f) <=> Is(f, N)
    <3>1. \A i \in 0..N :
             (IF i = 0 \/ period = 0 \/ i < period THEN None
                ELSE IF i = period THEN Divided(Plain(SubSeq(values, 1, period)), period)
                ELSE Smoothed(method, f[i - 1], values[i]))
             = (IF i = 0 THEN None ELSE Step(i, f[i - 1]))
      BY DEF SmoothStep
    <3> HIDE DEF Step, N
    <3> QED BY <3>1
  <2>2. (CHOOSE f : Choice(f)) = g
    <3> HIDE DEF Choice, Is
    <3> QED BY <2>1
  <2>3. SmoothedMa(method, values, period) = [i \in 1..N |-> (CHOOSE f : Choice(f))[i]]
    BY DEF SmoothedMa
  <2> QED BY <2>2, <2>3
<1> HIDE DEF Step, N, g
<1>2. N \in Nat
  BY DEF N
<1>3. 0 \in Reached
  <2>1. Is([i \in 0..0 |-> None], 0)
    OBVIOUS
  <2>2. \E f : Is(f, 0)
    <3> HIDE DEF Is
    <3> QED BY <2>1
  <2> HIDE DEF Is
  <2> QED BY <1>2, <2>2
<1>4. ASSUME NEW m \in 1..N, m - 1 \in Reached
      PROVE  m \in Reached
  <2>1. PICK f : Is(f, m - 1)
    BY <1>4
  <2> DEFINE h == [i \in 0..m |-> IF i = m THEN Step(m, f[m - 1]) ELSE f[i]]
  <2>2. \A i \in 0..(m - 1) : f[i] = IF i = 0 THEN None ELSE Step(i, f[i - 1])
    BY <2>1
  <2>3. h[m] = Step(m, f[m - 1]) /\ \A i \in 0..(m - 1) : h[i] = f[i]
    BY <1>2
  <2>4. h = [i \in 0..m |-> h[i]]
    OBVIOUS
  <2> HIDE DEF h
  <2>5. ASSUME NEW i \in 0..m
        PROVE  h[i] = IF i = 0 THEN None ELSE Step(i, h[i - 1])
    <3>1. CASE i = m
      <4>1. i # 0 /\ i - 1 \in 0..(m - 1) /\ i - 1 = m - 1
        BY <1>2, <3>1
      <4> QED BY <2>3, <3>1, <4>1
    <3>2. CASE i # m
      <4>1. i \in 0..(m - 1) /\ (i # 0 => i - 1 \in 0..(m - 1))
        BY <1>2, <3>2
      <4> QED BY <2>2, <2>3, <4>1
    <3> QED BY <3>1, <3>2
  <2>6. Is(h, m)
    BY <2>4, <2>5, Zenon
  <2> HIDE DEF Is
  <2> QED BY <1>4, <1>2, <2>6
<1>5. N \in Reached
  <2>1. 0..N \subseteq Reached
    <3> HIDE DEF Reached
    <3> QED BY <1>2, <1>3, <1>4, Induction
  <2> HIDE DEF Reached
  <2> QED BY <1>2, <2>1
<1>6. Is(g, N)
  <2> HIDE DEF Is
  <2> QED BY <1>5 DEF g
<1>7. g[0] = None /\ \A i \in 1..N : g[i] = Step(i, g[i - 1])
  <2>1. \A i \in 0..N : g[i] = IF i = 0 THEN None ELSE Step(i, g[i - 1])
    BY <1>6
  <2>2. 0 \in 0..N /\ \A i \in 1..N : i \in 0..N /\ i # 0
    BY <1>2
  <2> QED BY <2>1, <2>2, Zenon
<1>8. \A i \in 1..N : SmoothedMa(method, values, period)[i] = g[i]
  BY <1>1
<1>9. ASSUME NEW i \in 1..N
      PROVE  SmoothedMa(method, values, period)[i]
                = SmoothStep(method, values, period, i,
                             SmoothedMa(method, values, period)[i - 1])
  <2>1. g[i] = SmoothStep(method, values, period, i, g[i - 1])
    BY <1>7 DEF Step
  <2>2. CASE i = 1
    BY <1>8, <2>1, <2>2 DEF SmoothStep
  <2>3. CASE i # 1
    <3>1. i - 1 \in 1..N
      BY <1>2, <2>3
    <3> QED BY <1>8, <2>1, <3>1
  <2> QED BY <2>2, <2>3
<1>10. DOMAIN SmoothedMa(method, values, period) = 1..N
  BY <1>1
<1> QED BY <1>9, <1>10 DEF N

-----------------------------------------------------------------------------
(* The newest values of a series.                                          *)

Newest(values, limit) ==
    SubSeq(values, IF Len(values) <= limit THEN 1 ELSE Len(values) - limit + 1, Len(values))

LEMMA NewestIs ==
  ASSUME NEW S, NEW values \in Seq(S), NEW limit \in Nat \ {0}
  PROVE  /\ Newest(values, limit) \in Seq(S)
         /\ Len(Newest(values, limit)) = IF Len(values) <= limit THEN Len(values) ELSE limit
         /\ Len(values) <= limit => Newest(values, limit) = values
         /\ Len(values) >= limit =>
               Head(Newest(values, limit)) = values[Len(values) - limit + 1]
<1> DEFINE n == Len(values)
           m == IF n <= limit THEN 1 ELSE n - limit + 1
           w == SubSeq(values, m, n)
<1>1. n \in Nat /\ m \in Nat /\ m >= 1 /\ \A i \in m..n : values[i] \in S
  OBVIOUS
<1>2. /\ w \in Seq(S) /\ Len(w) = IF m <= n THEN n - m + 1 ELSE 0
      /\ \A i \in 1..(n - m + 1) : w[i] = values[m + i - 1]
  <2> HIDE DEF m, n
  <2> QED BY <1>1, SubSeqProperties
<1>3. n <= limit => w = values
  BY SubSeqFull
<1>4. ASSUME n >= limit PROVE Head(w) = values[n - limit + 1]
  <2>1. m = n - limit + 1 /\ 1 \in 1..(n - m + 1) /\ m + 1 - 1 = m
    BY <1>1, <1>4
  <2>2. w[1] = values[m]
    <3> HIDE DEF w, m, n
    <3> QED BY <1>2, <2>1
  <2>3. w # <<>>
    <3>1. Len(w) # 0
      <4> HIDE DEF w
      <4> QED BY <1>1, <1>2, <2>1
    <3>2. Len(<<>>) = 0
      OBVIOUS
    <3> HIDE DEF w
    <3> QED BY <3>1, <3>2, Zenon
  <2>4. Head(w) = w[1]
    <3> HIDE DEF w
    <3> QED BY <1>2, <2>3
  <2> HIDE DEF w
  <2> QED BY <2>1, <2>2, <2>4
<1>5. Newest(values, limit) = w
  BY DEF Newest
<1>6. Len(w) = IF n <= limit THEN n ELSE limit
  <2>1. CASE n <= limit
    BY <1>3, <2>1
  <2>2. CASE ~(n <= limit)
    <3>1. m = n - limit + 1 /\ m <= n /\ n - m + 1 = limit
      BY <1>1, <2>2
    <3> HIDE DEF w, m, n
    <3> QED BY <1>2, <2>2, <3>1
  <2> HIDE DEF w
  <2> QED BY <2>1, <2>2
<1> HIDE DEF w
<1> QED BY <1>2, <1>3, <1>4, <1>5, <1>6

\* Room is made for one more.
LEMMA NewestAppend ==
  ASSUME NEW S, NEW values \in Seq(S), NEW v \in S, NEW limit \in Nat \ {0}
  PROVE  Newest(Append(values, v), limit)
            = Append(IF Len(Newest(values, limit)) = limit THEN Tail(Newest(values, limit))
                     ELSE Newest(values, limit), v)
<1> DEFINE n == Len(values)
           more == Append(values, v)
           held == Newest(values, limit)
<1>1. /\ n \in Nat /\ more \in Seq(S) /\ Len(more) = n + 1 /\ more[n + 1] = v
      /\ \A i \in 1..n : more[i] = values[i]
  BY AppendProperties
<1>2. CASE n < limit
  <2>1. held = values /\ Len(held) = n
    BY <1>1, <1>2, NewestIs
  <2>2. Newest(more, limit) = more
    <3> HIDE DEF more
    <3> QED BY <1>1, <1>2, NewestIs
  <2> QED BY <1>1, <1>2, <2>1, <2>2
<1>3. CASE n >= limit
  <2> DEFINE a == SubSeq(more, n - limit + 2, n + 1)
             b == SubSeq(values, n - limit + 2, n)
  <2>1. /\ held \in Seq(S) /\ Len(held) = limit
    BY <1>1, <1>3, NewestIs
  <2>2. Newest(more, limit) = a
    <3>1. n + 1 - limit + 1 = n - limit + 2 /\ ~(n + 1 <= limit)
      BY <1>1, <1>3
    <3>2. Newest(more, limit)
             = SubSeq(more, IF Len(more) <= limit THEN 1 ELSE Len(more) - limit + 1, Len(more))
      BY DEF Newest
    <3>3. Len(more) = n + 1 /\ n \in Nat
      BY <1>1
    <3>4. (IF Len(more) <= limit THEN 1 ELSE Len(more) - limit + 1) = n - limit + 2
      <4> DEFINE k == Len(more)
      <4> HIDE DEF more, n, k
      <4>1. k = n + 1
        BY <3>3 DEF k
      <4>2. (IF k <= limit THEN 1 ELSE k - limit + 1) = n - limit + 2
        BY <3>1, <3>3, <4>1
      <4> QED BY <4>2 DEF k
    <3> HIDE DEF more, n
    <3> QED BY <3>2, <3>3, <3>4, Zenon
  <2>3. Tail(held) = b
    <3> DEFINE m == n - limit + 1
    <3>1. held = SubSeq(values, m, n)
      <4>1. (IF n <= limit THEN 1 ELSE n - limit + 1) = m
        BY <1>1, <1>3
      <4>2. held = SubSeq(values, IF n <= limit THEN 1 ELSE n - limit + 1, n)
        BY DEF Newest
      <4> HIDE DEF held, m
      <4> QED BY <4>1, <4>2
    <3>2. m \in 1..Len(values) /\ Len(values) \in m..Len(values) /\ m + 1 = n - limit + 2
      BY <1>1, <1>3
    <3> HIDE DEF held, m
    <3>3. Tail(SubSeq(values, m, Len(values))) = SubSeq(values, m + 1, Len(values))
      BY <3>2, HeadTailOfSubSeq
    <3> QED BY <3>1, <3>2, <3>3
  <2>4. a = Append(b, v)
    <3>1. /\ n - limit + 2 \in Int /\ n + 1 \in Int
          /\ \A i \in (n - limit + 2)..(n + 1) : more[i] \in S
          /\ \A i \in (n - limit + 2)..n : values[i] \in S
      BY <1>1, <1>3
    <3>2. /\ a \in Seq(S) /\ Len(a) = limit
          /\ \A i \in 1..limit : a[i] = more[n - limit + 1 + i]
      <4>1. /\ (n + 1) - (n - limit + 2) + 1 = limit /\ n - limit + 2 <= n + 1
            /\ \A i \in 1..limit : n - limit + 2 + i - 1 = n - limit + 1 + i
        BY <1>1, <1>3
      <4> HIDE DEF more, n
      <4>2. /\ a \in Seq(S)
            /\ Len(a) = IF n - limit + 2 <= n + 1 THEN (n + 1) - (n - limit + 2) + 1 ELSE 0
            /\ \A i \in 1..((n + 1) - (n - limit + 2) + 1) : a[i] = more[n - limit + 2 + i - 1]
        BY <3>1, SubSeqProperties
      <4> QED BY <4>1, <4>2
    <3>3. /\ b \in Seq(S) /\ Len(b) = limit - 1
          /\ \A i \in 1..(limit - 1) : b[i] = values[n - limit + 1 + i]
      <4>1. /\ n - (n - limit + 2) + 1 = limit - 1 /\ (n - limit + 2 <= n <=> limit - 1 > 0)
            /\ \A i \in 1..(limit - 1) : n - limit + 2 + i - 1 = n - limit + 1 + i
        BY <1>1, <1>3
      <4> HIDE DEF n
      <4>2. /\ b \in Seq(S)
            /\ Len(b) = IF n - limit + 2 <= n THEN n - (n - limit + 2) + 1 ELSE 0
            /\ \A i \in 1..(n - (n - limit + 2) + 1) : b[i] = values[n - limit + 2 + i - 1]
        BY <1>1, <3>1, SubSeqProperties
      <4>3. limit - 1 > 0 \/ limit - 1 = 0
        OBVIOUS
      <4> QED BY <4>1, <4>2, <4>3
    <3>4. /\ Append(b, v) \in Seq(S) /\ Len(Append(b, v)) = limit
          /\ \A i \in 1..(limit - 1) : Append(b, v)[i] = b[i]
          /\ Append(b, v)[limit] = v
      <4> HIDE DEF b
      <4>1. (limit - 1) + 1 = limit
        OBVIOUS
      <4> QED BY <3>3, <4>1, AppendProperties
    <3>5. \A i \in 1..limit : a[i] = Append(b, v)[i]
      <4> TAKE i \in 1..limit
      <4>1. CASE i = limit
        <5>1. n - limit + 1 + i = n + 1
          BY <1>1, <4>1
        <5> HIDE DEF a, b, more, n
        <5> QED BY <1>1, <3>2, <3>4, <4>1, <5>1
      <4>2. CASE i # limit
        <5>1. i \in 1..(limit - 1) /\ n - limit + 1 + i \in 1..n
          BY <1>1, <1>3, <4>2
        <5> HIDE DEF a, b, more, n
        <5> QED BY <1>1, <3>2, <3>3, <3>4, <5>1
      <4> QED BY <4>1, <4>2
    <3> HIDE DEF a, b
    <3> QED BY <3>2, <3>4, <3>5, SeqEqual
  <2> HIDE DEF a, b
  <2> QED BY <2>1, <2>2, <2>3, <2>4
<1>4. n < limit \/ n >= limit
  BY <1>1
<1> QED BY <1>2, <1>3, <1>4, Zenon

-----------------------------------------------------------------------------
(* One more value leaves what the batch forms had as it was.               *)

LEMMA RunningSumPrefix ==
  ASSUME NEW S, NEW values \in Seq(S), NEW v \in S, NEW period \in Nat
  PROVE  \A i \in 0..Len(values) :
            RunningSum(Append(values, v), period)[i] = RunningSum(values, period)[i]
<1> DEFINE n == Len(values)
           more == Append(values, v)
           f == RunningSum(values, period)
           g == RunningSum(more, period)
<1>1. /\ n \in Nat /\ more \in Seq(S) /\ Len(more) = n + 1
      /\ \A i \in 1..n : more[i] = values[i]
  BY AppendProperties
<1>2. f[0] = <<>> /\ \A i \in 1..n : f[i] = SumStep(values, period, i, f[i - 1])
  BY <1>1, RunningSumLaw
<1>3. g[0] = <<>> /\ \A i \in 1..(n + 1) : g[i] = SumStep(more, period, i, g[i - 1])
  <2> HIDE DEF more
  <2> QED BY <1>1, RunningSumLaw
<1>4. ASSUME NEW i \in 1..n, NEW x
      PROVE  SumStep(more, period, i, x) = SumStep(values, period, i, x)
  <2>1. i > period => i - period \in 1..n
    BY <1>1
  <2>2. more[i] = values[i] /\ (i > period => more[i - period] = values[i - period])
    <3> HIDE DEF more, n
    <3> QED BY <1>1, <2>1
  <2> HIDE DEF more, n
  <2> QED BY <2>2, Zenon DEF SumStep
<1> HIDE DEF f, g, more
<1> SUFFICES ASSUME NEW i \in 0..n PROVE g[i] = f[i]
  BY Zenon DEF f, g, more, n
<1>5. StepAlike(f, g, i)
  <2>1. f[0] = g[0]
    BY <1>2, <1>3
  <2>2. ASSUME NEW k \in 1..i, f[k - 1] = g[k - 1] PROVE f[k] = g[k]
    <3>1. k \in 1..n /\ k \in 1..(n + 1)
      BY <1>1
    <3> QED BY <1>2, <1>3, <1>4, <2>2, <3>1, Zenon
  <2> QED BY <2>1, <2>2 DEF StepAlike
<1>6. i \in Nat
  BY <1>1
<1> QED BY <1>5, <1>6, Determined

LEMMA SameStart ==
  ASSUME NEW S, NEW values \in Seq(S), NEW v \in S, NEW m \in 0..Len(values)
  PROVE  SubSeq(Append(values, v), 1, m) = SubSeq(values, 1, m)
<1> DEFINE more == Append(values, v)
           a == SubSeq(more, 1, m)
           b == SubSeq(values, 1, m)
<1>1. /\ Len(values) \in Nat /\ m \in Nat /\ m \in Int
      /\ \A i \in 1..m : values[i] \in S /\ more[i] = values[i]
  BY AppendProperties
<1>2. /\ a \in Seq(S) /\ Len(a) = m /\ \A i \in 1..m : a[i] = more[i]
  <2> HIDE DEF more
  <2>1. /\ a \in Seq(S) /\ Len(a) = IF 1 <= m THEN m - 1 + 1 ELSE 0
        /\ \A i \in 1..(m - 1 + 1) : a[i] = more[1 + i - 1]
    BY <1>1, SubSeqProperties
  <2> HIDE DEF a
  <2> QED BY <1>1, <2>1
<1>3. /\ b \in Seq(S) /\ Len(b) = m /\ \A i \in 1..m : b[i] = values[i]
  <2>1. /\ b \in Seq(S) /\ Len(b) = IF 1 <= m THEN m - 1 + 1 ELSE 0
        /\ \A i \in 1..(m - 1 + 1) : b[i] = values[1 + i - 1]
    BY <1>1, SubSeqProperties
  <2> HIDE DEF b
  <2> QED BY <1>1, <2>1
<1>4. a = b
  <2> HIDE DEF a, b, more
  <2> QED BY <1>1, <1>2, <1>3, SeqEqual
<1> QED BY <1>4

LEMMA SmoothedPrefix ==
  ASSUME NEW S, NEW values \in Seq(S), NEW v \in S, NEW period \in Nat \ {0}, NEW method
  PROVE  LET f == SmoothedMa(method, values, period)
             g == SmoothedMa(method, Append(values, v), period)
             n == Len(values)
         IN  /\ DOMAIN f = 1..n /\ DOMAIN g = 1..(n + 1)
             /\ \A i \in 1..n : g[i] = f[i]
             /\ g[n + 1] = IF n + 1 < period THEN None
                           ELSE IF n + 1 = period
                           THEN Divided(Plain(Append(values, v)), period)
                           ELSE Smoothed(method, f[n], v)
<1> DEFINE n == Len(values)
           more == Append(values, v)
           f == SmoothedMa(method, values, period)
           g == SmoothedMa(method, more, period)
<1>1. /\ n \in Nat /\ more \in Seq(S) /\ Len(more) = n + 1 /\ more[n + 1] = v
      /\ \A i \in 1..n : more[i] = values[i]
      /\ DOMAIN values = 1..n
  BY AppendProperties
<1>2. /\ DOMAIN f = 1..n
      /\ \A i \in 1..n : f[i] = SmoothStep(method, values, period, i, f[i - 1])
  BY <1>1, SmoothedLaw
<1>3. /\ DOMAIN g = 1..(n + 1)
      /\ \A i \in 1..(n + 1) : g[i] = SmoothStep(method, more, period, i, g[i - 1])
  <2>1. DOMAIN more = 1..(n + 1) /\ Len(more) \in Nat
    <3> HIDE DEF more
    <3> QED BY <1>1
  <2> HIDE DEF more
  <2> QED BY <1>1, <2>1, SmoothedLaw
<1>4. ASSUME NEW i \in 1..n, NEW x
      PROVE  SmoothStep(method, more, period, i, x) = SmoothStep(method, values, period, i, x)
  <2>1. i = period => SubSeq(more, 1, period) = SubSeq(values, 1, period)
    <3>1. i = period => period \in 0..Len(values)
      BY <1>1
    <3> QED BY <3>1, SameStart
  <2>2. more[i] = values[i]
    BY <1>1
  <2> HIDE DEF more, n
  <2> QED BY <2>1, <2>2, Zenon DEF SmoothStep
<1>5. ASSUME NEW i \in 1..n PROVE g[i] = f[i]
  <2> DEFINE f0 == [k \in 0..n |-> IF k = 0 THEN None ELSE f[k]]
             g0 == [k \in 0..n |-> IF k = 0 THEN None ELSE g[k]]
  <2>1. /\ f0[0] = None /\ g0[0] = None
        /\ \A k \in 1..n : f0[k] = f[k] /\ g0[k] = g[k]
    <3> HIDE DEF f, g, n
    <3> QED BY <1>1
  <2>2. ASSUME NEW k \in 1..i, f0[k - 1] = g0[k - 1] PROVE f0[k] = g0[k]
    <3>1. k \in 1..n /\ k \in 1..(n + 1)
      BY <1>1
    <3>2. f0[k] = SmoothStep(method, values, period, k, f[k - 1])
      BY <1>2, <2>1, <3>1
    <3>3. g0[k] = SmoothStep(method, values, period, k, g[k - 1])
      <4>1. g0[k] = SmoothStep(method, more, period, k, g[k - 1])
        <5> HIDE DEF g, g0, more, n
        <5> QED BY <1>3, <2>1, <3>1
      <4> HIDE DEF g, g0, more, n
      <4> QED BY <1>4, <3>1, <4>1
    <3>4. SmoothStep(method, values, period, k, f[k - 1])
             = SmoothStep(method, values, period, k, g[k - 1])
      <4>1. CASE k = 1
        <5>1. k < period \/ k = period
          BY <4>1
        <5> HIDE DEF f, g
        <5> QED BY <5>1 DEF SmoothStep
      <4>2. CASE k # 1
        <5>1. k - 1 \in 1..n
          BY <1>1, <3>1, <4>2
        <5> HIDE DEF f, g, f0, g0, more, n
        <5>2. f[k - 1] = g[k - 1]
          BY <2>1, <2>2, <5>1
        <5> QED BY <5>2
      <4> QED BY <4>1, <4>2
    <3> HIDE DEF f, g, f0, g0
    <3> QED BY <3>2, <3>3, <3>4
  <2>3. StepAlike(f0, g0, i) /\ i \in Nat
    <3>1. i \in Nat
      BY <1>1
    <3> HIDE DEF f0, g0, n
    <3> QED BY <2>1, <2>2, <3>1 DEF StepAlike
  <2>4. f0[i] = g0[i]
    <3> HIDE DEF f0, g0
    <3> QED BY <2>3, Determined
  <2> HIDE DEF f, g, f0, g0, n
  <2> QED BY <2>1, <2>4
<1>6. g[n + 1] = IF n + 1 < period THEN None
                 ELSE IF n + 1 = period THEN Divided(Plain(more), period)
                 ELSE Smoothed(method, f[n], v)
  <2>1. n + 1 \in 1..(n + 1) /\ (n + 1) - 1 = n
    BY <1>1
  <2>2. g[n + 1] = SmoothStep(method, more, period, n + 1, g[n])
    <3> HIDE DEF g, more, n
    <3> QED BY <1>3, <2>1
  <2>3. CASE n + 1 < period
    <3> HIDE DEF g, f, more, n
    <3> QED BY <2>2, <2>3 DEF SmoothStep
  <2>4. CASE n + 1 = period
    <3>1. SubSeq(more, 1, period) = more
      <4> HIDE DEF more, n
      <4> QED BY <1>1, <2>4, SubSeqFull
    <3>2. ~(n + 1 < period)
      BY <1>1, <2>4
    <3> HIDE DEF g, f, more, n
    <3> QED BY <2>2, <2>4, <3>1, <3>2 DEF SmoothStep
  <2>5. CASE ~(n + 1 < period) /\ n + 1 # period
    <3>1. n \in 1..n
      BY <1>1, <2>5
    <3>2. g[n] = f[n]
      BY <1>5, <3>1
    <3> HIDE DEF g, f, more, n
    <3> QED BY <1>1, <2>2, <2>5, <3>2 DEF SmoothStep
  <2> HIDE DEF g, f, more, n
  <2> QED BY <2>3, <2>4, <2>5
<1> QED BY <1>2, <1>3, <1>5, <1>6

-----------------------------------------------------------------------------
(* Indicators of a window or a smoothed average.                           *)

IsColumn(f, n) == f = [i \in 1..n |-> f[i]]

LEMMA GrownByOne ==
  ASSUME NEW n \in Nat, NEW f, NEW g, IsColumn(f, n), IsColumn(g, n + 1),
         \A i \in 1..n : g[i] = f[i]
  PROVE  g = Append(f, g[n + 1])
<1> DEFINE T == {g[i] : i \in 1..(n + 1)}
           h == Append(f, g[n + 1])
<1>1. \A i \in 1..(n + 1) : g[i] \in T
  OBVIOUS
<1> HIDE DEF T
<1>2. g \in Seq(T) /\ Len(g) = n + 1
  BY <1>1 DEF IsColumn
<1>3. f \in Seq(T) /\ Len(f) = n
  <2>1. \A i \in 1..n : f[i] \in T
    BY <1>1
  <2> QED BY <2>1 DEF IsColumn
<1>4. /\ h \in Seq(T) /\ Len(h) = n + 1 /\ h[n + 1] = g[n + 1]
      /\ \A i \in 1..n : h[i] = f[i]
  <2>1. g[n + 1] \in T
    BY <1>1
  <2> QED BY <1>3, <2>1, AppendProperties
<1>5. \A i \in 1..(n + 1) : h[i] = g[i]
  <2> TAKE i \in 1..(n + 1)
  <2>1. i \in 1..n \/ i = n + 1
    OBVIOUS
  <2> HIDE DEF h
  <2> QED BY <1>4, <2>1
<1> HIDE DEF h
<1>6. g = h
  BY <1>2, <1>4, <1>5, SeqEqual
<1> QED BY <1>6 DEF h

LEMMA SomeTerm == \A a, b, c : <<a, b, c>> # None
<1> SUFFICES ASSUME NEW a, NEW b, NEW c PROVE <<a, b, c>> # <<>>
  BY DEF None
<1>1. Len(<<a, b, c>>) = 3 /\ Len(<<>>) = 0
  OBVIOUS
<1> QED BY <1>1, Zenon

\* What a ring holds after some values.
IsRing(state, values, period) ==
    /\ state.buf = Newest(values, period)
    /\ state.sum = RunningSum(values, period)[Len(values)]

LEMMA RingLaw ==
  ASSUME NEW S, NEW values \in Seq(S), NEW v \in S, NEW period \in Nat \ {0},
         NEW state, IsRing(state, values, period)
  PROVE  LET u == PushSma(state, period, v)
         IN  /\ IsRing(u.state, Append(values, v), period)
             /\ SimpleMa(Append(values, v), period) = Append(SimpleMa(values, period), u.out)
<1> DEFINE n == Len(values)
           more == Append(values, v)
           u == PushSma(state, period, v)
           next == u.state
           f == SimpleMa(values, period)
           g == SimpleMa(more, period)
<1>1. /\ n \in Nat /\ more \in Seq(S) /\ Len(more) = n + 1 /\ more[n + 1] = v
      /\ \A i \in 1..n : more[i] = values[i]
      /\ DOMAIN values = 1..n
  BY AppendProperties
<1>2. /\ Newest(values, period) \in Seq(S)
      /\ Len(Newest(values, period)) = IF n <= period THEN n ELSE period
      /\ n >= period => Head(Newest(values, period)) = values[n - period + 1]
  BY NewestIs
<1>3. next.buf = Newest(more, period)
  <2>1. next.buf = IF Len(state.buf) = period THEN Append(Tail(state.buf), v)
                   ELSE Append(state.buf, v)
    BY DEF PushSma
  <2>2. state.buf = Newest(values, period)
    BY DEF IsRing
  <2>3. Newest(more, period) = Append(IF Len(state.buf) = period THEN Tail(state.buf)
                                      ELSE state.buf, v)
    BY <2>2, NewestAppend
  <2> HIDE DEF next, more
  <2> QED BY <2>1, <2>3
<1>4. PICK last : last = n + 1
  OBVIOUS
<1> DEFINE sum == RunningSum(values, period)[n]
           added == Append(sum, <<"+", v>>)
<1>5. RunningSum(more, period)[last]
         = IF last > period THEN Append(added, <<"-", more[last - period]>>) ELSE added
  <2>1. RunningSum(more, period)[n] = sum
    BY <1>1, RunningSumPrefix
  <2>2. last \in 1..(n + 1) /\ last - 1 = n /\ Len(more) \in Nat /\ more[last] = v
    BY <1>1, <1>4
  <2> HIDE DEF more, n, sum
  <2>3. RunningSum(more, period)[last] = SumStep(more, period, last, sum)
    BY <1>1, <2>1, <2>2, RunningSumLaw
  <2> QED BY <2>2, <2>3, Zenon DEF SumStep
<1>6. next.sum = RunningSum(more, period)[last]
  <2>1. state.sum = sum /\ state.buf = Newest(values, period)
    BY DEF IsRing
  <2>2. next.sum = IF Len(state.buf) = period THEN Append(added, <<"-", Head(state.buf)>>)
                   ELSE added
    BY <2>1, Zenon DEF PushSma
  <2>3. Len(state.buf) = period <=> last > period
    <3> HIDE DEF more, n
    <3> QED BY <1>1, <1>2, <1>4, <2>1
  <2>4. last > period => Head(state.buf) = more[last - period]
    <3>1. last > period => n >= period /\ n - period + 1 \in 1..n /\ n - period + 1 = last - period
      BY <1>1, <1>4
    <3> HIDE DEF more, n
    <3> QED BY <1>1, <1>2, <2>1, <3>1
  <2> HIDE DEF added, next, more, n
  <2>5. CASE last > period
    <3>1. next.sum = Append(added, <<"-", Head(state.buf)>>)
      BY <2>2, <2>3, <2>5, Zenon
    <3> QED BY <1>5, <2>4, <2>5, <3>1, Zenon
  <2>6. CASE ~(last > period)
    BY <1>5, <2>2, <2>3, <2>6, Zenon
  <2> QED BY <2>5, <2>6
<1>7. IsRing(next, more, period)
  <2> HIDE DEF next, more
  <2> QED BY <1>1, <1>3, <1>4, <1>6 DEF IsRing
<1>8. g[last] = u.out
  <2>1. u.out = IF Len(next.buf) = period THEN Divided(next.sum, period) ELSE None
    BY DEF PushSma
  <2>2. Len(next.buf) = IF n + 1 <= period THEN n + 1 ELSE period
    <3>1. Len(Newest(more, period)) = IF Len(more) <= period THEN Len(more) ELSE period
      <4> HIDE DEF more
      <4> QED BY <1>1, NewestIs
    <3> HIDE DEF more, next
    <3> QED BY <1>1, <1>3, <3>1
  <2>3. g[last] = IF period = 0 \/ last < period THEN None
                  ELSE Divided(RunningSum(more, period)[last], period)
    <3>1. last \in DOMAIN more
      BY <1>1, <1>4
    <3> HIDE DEF more
    <3> QED BY <3>1 DEF SimpleMa
  <2>4. Len(next.buf) = period <=> ~(last < period)
    BY <1>1, <1>4, <2>2
  <2> HIDE DEF next, more, g, u, n
  <2> QED BY <1>6, <2>1, <2>3, <2>4
<1>9. g = Append(f, u.out)
  <2>1. IsColumn(f, n) /\ IsColumn(g, n + 1)
    <3>1. DOMAIN more = 1..(n + 1)
      BY <1>1
    <3> HIDE DEF more
    <3> QED BY <1>1, <3>1 DEF SimpleMa, IsColumn
  <2>2. \A i \in 1..n : g[i] = f[i]
    <3> TAKE i \in 1..n
    <3>1. i \in DOMAIN more /\ i \in DOMAIN values /\ i \in 0..n
      BY <1>1
    <3>2. RunningSum(more, period)[i] = RunningSum(values, period)[i]
      BY <3>1, RunningSumPrefix
    <3> HIDE DEF more
    <3> QED BY <3>1, <3>2 DEF SimpleMa
  <2> HIDE DEF f, g, u, n
  <2>3. n \in Nat
    BY <1>1
  <2>4. g = Append(f, g[n + 1])
    BY <2>1, <2>2, <2>3, GrownByOne
  <2> QED BY <1>4, <1>8, <2>4
<1> QED BY <1>7, <1>9

\* A smoothed average has a value from the period on, and none before.
LEMMA SmoothedColumn ==
  ASSUME NEW method, NEW values, NEW period, DOMAIN values = 1..Len(values)
  PROVE  IsColumn(SmoothedMa(method, values, period), Len(values))
<1> DEFINE h == CHOOSE average : average = [i \in 0..Len(values) |->
                  IF i = 0 \/ period = 0 \/ i < period THEN None
                  ELSE IF i = period THEN Divided(Plain(SubSeq(values, 1, period)), period)
                  ELSE Smoothed(method, average[i - 1], values[i])]
<1>1. SmoothedMa(method, values, period) = [i \in DOMAIN values |-> h[i]]
  BY DEF SmoothedMa
<1> HIDE DEF h
<1> DEFINE f == [i \in 1..Len(values) |-> h[i]]
<1>2. f = [i \in 1..Len(values) |-> f[i]]
  OBVIOUS
<1>3. SmoothedMa(method, values, period) = f
  BY <1>1
<1> QED BY <1>2, <1>3 DEF IsColumn

LEMMA SmoothedSome ==
  ASSUME NEW S, NEW values \in Seq(S), NEW period \in Nat \ {0}, NEW method,
         NEW i \in 1..Len(values)
  PROVE  SmoothedMa(method, values, period)[i] = None <=> i < period
<1> DEFINE f == SmoothedMa(method, values, period)
<1>1. f[i] = SmoothStep(method, values, period, i, f[i - 1])
  <2>1. Len(values) \in Nat /\ DOMAIN values = 1..Len(values)
    OBVIOUS
  <2> QED BY <2>1, SmoothedLaw
<1> HIDE DEF f
<1>2. CASE i < period
  <2>1. f[i] = None
    BY <1>1, <1>2 DEF SmoothStep
  <2> QED BY <1>2, <2>1 DEF f
<1>3. CASE i = period
  <2>1. f[i] = Divided(Plain(SubSeq(values, 1, period)), period)
    BY <1>1, <1>3 DEF SmoothStep
  <2>2. f[i] # None
    BY <2>1, SomeTerm, Zenon DEF Divided
  <2> QED BY <1>3, <2>2 DEF f
<1>4. CASE ~(i < period) /\ i # period
  <2>1. f[i] = Smoothed(method, f[i - 1], values[i])
    BY <1>1, <1>4 DEF SmoothStep
  <2>2. f[i] # None
    BY <2>1, SomeTerm, Zenon DEF Smoothed
  <2> QED BY <1>4, <2>2 DEF f
<1> QED BY <1>2, <1>3, <1>4 DEF f

\* What an average holds after some values.
IsEma(state, values, period) ==
    IF Len(values) < period THEN state.seed = values /\ state.ema = None
    ELSE state.ema = ExpMa(values, period)[Len(values)] /\ state.ema # None

LEMMA EmaLaw ==
  ASSUME NEW S, NEW values \in Seq(S), NEW v \in S, NEW period \in Nat \ {0},
         NEW state, IsEma(state, values, period)
  PROVE  LET u == PushEma(state, period, v)
         IN  /\ IsEma(u.state, Append(values, v), period)
             /\ ExpMa(Append(values, v), period) = Append(ExpMa(values, period), u.out)
             /\ u.out = None <=> Len(values) + 1 < period
<1> DEFINE n == Len(values)
           more == Append(values, v)
           u == PushEma(state, period, v)
           f == ExpMa(values, period)
           g == ExpMa(more, period)
<1>1. /\ n \in Nat /\ more \in Seq(S) /\ Len(more) = n + 1
      /\ DOMAIN values = 1..n /\ DOMAIN more = 1..(n + 1)
  BY AppendProperties
<1>2. /\ DOMAIN f = 1..n /\ DOMAIN g = 1..(n + 1)
      /\ \A i \in 1..n : g[i] = f[i]
      /\ g[n + 1] = IF n + 1 < period THEN None
                    ELSE IF n + 1 = period THEN Divided(Plain(more), period)
                    ELSE Smoothed("ema", f[n], v)
  BY SmoothedPrefix DEF ExpMa
<1>3. g[n + 1] = None <=> n + 1 < period
  <2>1. n + 1 \in 1..Len(more)
    BY <1>1
  <2> HIDE DEF more, n
  <2> QED BY <1>1, <2>1, SmoothedSome DEF ExpMa
<1>4. /\ u.out = u.state.ema
      /\ u.state.ema = IF state.ema # None THEN Smoothed("ema", state.ema, v)
                       ELSE IF Len(Append(state.seed, v)) = period
                            THEN Divided(Plain(Append(state.seed, v)), period)
                       ELSE None
      /\ u.state.seed = IF state.ema # None THEN state.seed ELSE Append(state.seed, v)
  BY Zenon DEF PushEma
<1>5. u.out = g[n + 1] /\ (n + 1 < period => u.state.seed = more)
  <2>1. CASE n < period
    <3>1. state.seed = values /\ state.ema = None
      BY <2>1 DEF IsEma
    <3>2. /\ u.out = IF n + 1 = period THEN Divided(Plain(more), period) ELSE None
          /\ u.state.seed = more
      <4> HIDE DEF u, more, n
      <4> QED BY <1>1, <1>4, <3>1 DEF more
    <3>3. n + 1 < period \/ n + 1 = period
      BY <1>1, <2>1
    <3> HIDE DEF u, more, n, g, f
    <3> QED BY <1>2, <3>2, <3>3
  <2>2. CASE ~(n < period)
    <3>1. state.ema = f[n] /\ state.ema # None
      BY <2>2 DEF IsEma
    <3>2. ~(n + 1 < period) /\ n + 1 # period
      BY <1>1, <2>2
    <3> HIDE DEF u, more, n, g, f
    <3> QED BY <1>2, <1>4, <3>1, <3>2
  <2> QED BY <2>1, <2>2
<1>6. IsEma(u.state, more, period)
  <2> HIDE DEF u, more, n, g
  <2>1. CASE n + 1 < period
    BY <1>1, <1>3, <1>4, <1>5, <2>1 DEF IsEma
  <2>2. CASE ~(n + 1 < period)
    <3>1. u.state.ema = ExpMa(more, period)[Len(more)] /\ u.state.ema # None
      BY <1>1, <1>3, <1>4, <1>5, <2>2 DEF g
    <3>2. ~(Len(more) < period)
      BY <1>1, <2>2
    <3> QED BY <3>1, <3>2 DEF IsEma
  <2> QED BY <2>1, <2>2
<1>7. g = Append(f, u.out)
  <2>1. IsColumn(f, n) /\ IsColumn(g, n + 1)
    <3> HIDE DEF more, n
    <3> QED BY <1>1, SmoothedColumn DEF ExpMa
  <2> HIDE DEF f, g, u, n
  <2>2. g = Append(f, g[n + 1])
    BY <1>1, <1>2, <2>1, GrownByOne
  <2> QED BY <1>5, <2>2
<1> QED BY <1>3, <1>5, <1>6, <1>7

LEMMA ColumnType ==
  ASSUME NEW T, NEW n \in Nat, NEW f, IsColumn(f, n), \A i \in 1..n : f[i] \in T
  PROVE  f \in Seq(T) /\ Len(f) = n
BY DEF IsColumn

\* The first n values of a column.
Terms(f, n) == {f[i] : i \in 1..n}

LEMMA ColumnIsSeq ==
  ASSUME NEW n \in Nat, NEW f, IsColumn(f, n)
  PROVE  f \in Seq(Terms(f, n)) /\ Len(f) = n
<1> DEFINE T == Terms(f, n)
<1>1. \A i \in 1..n : f[i] \in T
  BY DEF Terms
<1> HIDE DEF T
<1>2. f \in Seq(T) /\ Len(f) = n
  BY <1>1, ColumnType
<1> QED BY <1>2 DEF T

LEMMA TailAppend ==
  ASSUME NEW T, NEW f \in Seq(T), NEW x \in T, NEW m \in 1..(Len(f) + 1)
  PROVE  SubSeq(Append(f, x), m, Len(f) + 1) = Append(SubSeq(f, m, Len(f)), x)
<1> DEFINE n == Len(f)
           more == Append(f, x)
           a == SubSeq(more, m, n + 1)
           b == SubSeq(f, m, n)
<1>1. /\ n \in Nat /\ more \in Seq(T) /\ Len(more) = n + 1 /\ more[n + 1] = x
      /\ \A i \in 1..n : more[i] = f[i]
  BY AppendProperties
<1>2. /\ m \in Int /\ n \in Int /\ n + 1 \in Int /\ n + 2 - m \in Nat
      /\ \A i \in m..(n + 1) : more[i] \in T
      /\ \A i \in m..n : f[i] \in T
  BY <1>1
<1>3. /\ a \in Seq(T) /\ Len(a) = n + 2 - m
      /\ \A i \in 1..(n + 2 - m) : a[i] = more[m + i - 1]
  <2>1. (n + 1) - m + 1 = n + 2 - m /\ m <= n + 1
    BY <1>1
  <2> HIDE DEF more, n
  <2>2. /\ a \in Seq(T) /\ Len(a) = IF m <= n + 1 THEN (n + 1) - m + 1 ELSE 0
        /\ \A i \in 1..((n + 1) - m + 1) : a[i] = more[m + i - 1]
    BY <1>2, SubSeqProperties
  <2> HIDE DEF a
  <2> QED BY <2>1, <2>2
<1>4. /\ b \in Seq(T) /\ Len(b) = n + 1 - m
      /\ \A i \in 1..(n + 1 - m) : b[i] = f[m + i - 1]
  <2>1. n - m + 1 = n + 1 - m /\ (~(m <= n) => n + 1 - m = 0)
    BY <1>1
  <2> HIDE DEF n
  <2>2. /\ b \in Seq(T) /\ Len(b) = IF m <= n THEN n - m + 1 ELSE 0
        /\ \A i \in 1..(n - m + 1) : b[i] = f[m + i - 1]
    BY <1>2, SubSeqProperties
  <2> HIDE DEF b
  <2> QED BY <2>1, <2>2
<1>5. /\ Append(b, x) \in Seq(T) /\ Len(Append(b, x)) = n + 2 - m
      /\ \A i \in 1..(n + 1 - m) : Append(b, x)[i] = b[i]
      /\ Append(b, x)[n + 2 - m] = x
  <2>1. (n + 1 - m) + 1 = n + 2 - m
    BY <1>1
  <2> HIDE DEF b, n
  <2>2. /\ Append(b, x) \in Seq(T) /\ Len(Append(b, x)) = Len(b) + 1
        /\ \A i \in 1..Len(b) : Append(b, x)[i] = b[i]
        /\ Append(b, x)[Len(b) + 1] = x
    BY <1>4, AppendProperties
  <2> QED BY <1>4, <2>1, <2>2, Zenon
<1>6. \A i \in 1..(n + 2 - m) : a[i] = Append(b, x)[i]
  <2> TAKE i \in 1..(n + 2 - m)
  <2>1. CASE i = n + 2 - m
    <3>1. m + i - 1 = n + 1
      BY <1>1, <2>1
    <3> HIDE DEF a, b, more, n
    <3> QED BY <1>1, <1>3, <1>5, <2>1, <3>1
  <2>2. CASE i # n + 2 - m
    <3>1. i \in 1..(n + 1 - m) /\ m + i - 1 \in 1..n
      BY <1>1, <2>2
    <3> HIDE DEF a, b, more, n
    <3> QED BY <1>1, <1>3, <1>4, <1>5, <3>1
  <2> QED BY <2>1, <2>2
<1>7. a = Append(b, x)
  <2> HIDE DEF a, b, n
  <2> QED BY <1>2, <1>3, <1>5, <1>6, SeqEqual
<1> QED BY <1>7

\* The least of some numbers.
LEMMA MinAt ==
  ASSUME NEW S, S \subseteq Int, NEW m \in S, \A k \in S : m <= k
  PROVE  Min(S) = m
<1>1. ASSUME NEW x \in S, \A y \in S : x <= y PROVE x = m
  <2>1. x \in Int /\ m \in Int /\ x <= m /\ m <= x
    BY <1>1
  <2> QED BY <2>1
<1> QED BY <1>1 DEF Min

LEMMA MinOfSome ==
  ASSUME NEW S, S \subseteq Nat, S # {}
  PROVE  Min(S) \in S
<1>1. \E x \in S : \A y \in S : x <= y
  BY LeastElement
<1> QED BY <1>1 DEF Min

-----------------------------------------------------------------------------
(* The average of an average.                                              *)

\* What the inner average hands to the outer one.
InnerTail(values, period) == SubSeq(ExpMa(values, period), period, Len(values))

DemaAt(values, period, i) ==
    LET outer == ExpMa(InnerTail(values, period), period)[i - period + 1]
    IN  IF i < period THEN None
        ELSE IF outer = None THEN None
        ELSE Doubled(ExpMa(values, period)[i], outer)

LEMMA DemaForm ==
  ASSUME NEW S, NEW values \in Seq(S), NEW period \in Nat \ {0}
  PROVE  DoubleEma(values, period) = [i \in 1..Len(values) |-> DemaAt(values, period, i)]
<1> DEFINE n == Len(values)
           inner == ExpMa(values, period)
           valued == {i \in DOMAIN inner : inner[i] # None}
           outer(start) == ExpMa(SubSeq(inner, start, Len(inner)), period)
           At(start, i) == IF valued = {} \/ i < start THEN None
                           ELSE IF outer(start)[i - start + 1] = None THEN None
                           ELSE Doubled(inner[i], outer(start)[i - start + 1])
<1>1. n \in Nat /\ DOMAIN values = 1..n
  OBVIOUS
<1>2. DoubleEma(values, period) = [i \in 1..n |-> At(Min(valued), i)]
  BY <1>1, Zenon DEF DoubleEma
<1>3. DOMAIN inner = 1..n /\ Len(inner) = n
  <2>1. IsColumn(inner, n)
    BY <1>1, SmoothedColumn DEF ExpMa
  <2> HIDE DEF inner, n
  <2> QED BY <1>1, <2>1 DEF IsColumn
<1>4. \A i \in 1..n : inner[i] = None <=> i < period
  BY SmoothedSome DEF ExpMa
<1>5. ASSUME NEW i \in 1..n PROVE At(Min(valued), i) = DemaAt(values, period, i)
  <2>1. CASE i < period
    <3>1. valued = {} \/ i < Min(valued)
      <4>1. SUFFICES ASSUME valued # {} PROVE i < Min(valued)
        OBVIOUS
      <4>2. valued \subseteq Nat
        <5> HIDE DEF inner
        <5> QED BY <1>1, <1>3
      <4>3. Min(valued) \in valued
        <5> HIDE DEF valued
        <5> QED BY <4>1, <4>2, MinOfSome
      <4>4. Min(valued) \in 1..n /\ ~(Min(valued) < period)
        <5> HIDE DEF inner, n
        <5>1. \A k \in valued : k \in 1..n /\ ~(k < period)
          BY <1>3, <1>4
        <5> HIDE DEF valued
        <5> QED BY <4>3, <5>1
      <4> HIDE DEF valued
      <4> QED BY <1>1, <2>1, <4>4
    <3>2. At(Min(valued), i) = None
      <4> HIDE DEF valued, inner, outer
      <4> QED BY <3>1
    <3> HIDE DEF At
    <3> QED BY <2>1, <3>2, Zenon DEF DemaAt
  <2>2. CASE ~(i < period)
    <3>1. valued # {}
      <4> HIDE DEF inner, n
      <4> QED BY <1>3, <1>4, <2>2
    <3>2. Min(valued) = period
      <4>1. valued \subseteq Int
        <5> HIDE DEF inner
        <5> QED BY <1>1, <1>3
      <4>2. period \in valued
        <5>1. period \in 1..n /\ ~(period < period)
          BY <1>1, <2>2
        <5> HIDE DEF inner, n
        <5> QED BY <1>3, <1>4, <5>1
      <4>3. \A k \in valued : period <= k
        <5> HIDE DEF inner
        <5> QED BY <1>1, <1>3, <1>4
      <4> HIDE DEF valued
      <4> QED BY <4>1, <4>2, <4>3, MinAt
    <3>3. At(period, i) = DemaAt(values, period, i)
      <4>1. outer(period) = ExpMa(InnerTail(values, period), period)
        <5> HIDE DEF inner
        <5> QED BY <1>3 DEF InnerTail, inner
      <4> HIDE DEF outer, valued
      <4> QED BY <2>2, <3>1, <4>1, Zenon DEF DemaAt
    <3> HIDE DEF At, valued
    <3> QED BY <3>2, <3>3
  <2> QED BY <2>1, <2>2
<1> HIDE DEF At, valued, n
<1>6. DoubleEma(values, period) = [i \in 1..n |-> DemaAt(values, period, i)]
  BY <1>2, <1>5
<1> QED BY <1>6 DEF n

IsDema(state, values, period) ==
    /\ IsEma(state.inner, values, period)
    /\ IsEma(state.outer, InnerTail(values, period), period)

\* The outer average has a value more whenever the inner one has.
LEMMA InnerTailAppend ==
  ASSUME NEW S, NEW values \in Seq(S), NEW v \in S, NEW period \in Nat \ {0}, NEW out,
         ExpMa(Append(values, v), period) = Append(ExpMa(values, period), out)
  PROVE  \E T :
           /\ InnerTail(values, period) \in Seq(T) /\ out \in T
           /\ Len(values) + 1 < period =>
                 InnerTail(Append(values, v), period) = InnerTail(values, period)
           /\ ~(Len(values) + 1 < period) =>
                 /\ InnerTail(Append(values, v), period) = Append(InnerTail(values, period), out)
                 /\ Len(InnerTail(values, period)) = Len(values) + 1 - period
<1> DEFINE n == Len(values)
           more == Append(values, v)
           f == ExpMa(values, period)
           T == Terms(f, n) \cup {out}
           tail == InnerTail(values, period)
           longer == InnerTail(more, period)
<1>1. n \in Nat /\ Len(more) = n + 1 /\ DOMAIN values = 1..n
  BY AppendProperties
<1>2. f \in Seq(T) /\ Len(f) = n
  <2>1. IsColumn(f, n)
    BY <1>1, SmoothedColumn DEF ExpMa
  <2>2. \A i \in 1..n : f[i] \in T
    BY DEF Terms
  <2> HIDE DEF f, T, n
  <2> QED BY <1>1, <2>1, <2>2, ColumnType
<1>3. out \in T
  OBVIOUS
<1>4. tail = SubSeq(f, period, n) /\ longer = SubSeq(Append(f, out), period, n + 1)
  <2> HIDE DEF more, n
  <2> QED BY <1>1 DEF InnerTail, n, more
<1> HIDE DEF T
<1>5. CASE n + 1 < period
  <2>1. tail = <<>> /\ longer = <<>>
    <3>1. Append(f, out) \in Seq(T)
      <4> HIDE DEF f
      <4> QED BY <1>2, <1>3, AppendProperties
    <3>2. period \in Int /\ n \in Int /\ n + 1 \in Int /\ n < period
      BY <1>1, <1>5
    <3> HIDE DEF f, tail, longer, n
    <3> QED BY <1>2, <1>4, <1>5, <3>1, <3>2, SubSeqEmpty
  <2>2. tail \in Seq(T)
    <3> HIDE DEF tail
    <3> QED BY <2>1
  <2> HIDE DEF tail, longer, n
  <2>3. tail = longer
    BY <2>1
  <2> QED BY <1>3, <1>5, <2>2, <2>3 DEF tail, longer, n
<1>6. CASE ~(n + 1 < period)
  <2>1. longer = Append(tail, out)
    <3>1. period \in 1..(Len(f) + 1)
      <4> HIDE DEF f, n
      <4> QED BY <1>1, <1>2, <1>6
    <3>2. SubSeq(Append(f, out), period, Len(f) + 1) = Append(SubSeq(f, period, Len(f)), out)
      <4> HIDE DEF f
      <4> QED BY <1>2, <1>3, <3>1, TailAppend
    <3> HIDE DEF f, tail, longer, n
    <3> QED BY <1>2, <1>4, <3>2
  <2>2. tail \in Seq(T) /\ Len(tail) = n + 1 - period
    <3>1. \A i \in period..n : f[i] \in T
      <4> HIDE DEF f, n
      <4> QED BY <1>1, <1>2
    <3>2. /\ SubSeq(f, period, n) \in Seq(T)
          /\ Len(SubSeq(f, period, n)) = IF period <= n THEN n - period + 1 ELSE 0
      <4> HIDE DEF f, n
      <4> QED BY <1>1, <3>1, SubSeqProperties
    <3>3. (IF period <= n THEN n - period + 1 ELSE 0) = n + 1 - period
      BY <1>1, <1>6
    <3> HIDE DEF f, tail, n
    <3> QED BY <1>4, <3>2, <3>3
  <2> HIDE DEF tail, longer, n
  <2> QED BY <1>3, <1>6, <2>1, <2>2 DEF tail, longer, n
<1> QED BY <1>5, <1>6

LEMMA DemaLaw ==
  ASSUME NEW S, NEW values \in Seq(S), NEW v \in S, NEW period \in Nat \ {0},
         NEW state, IsDema(state, values, period)
  PROVE  LET u == PushDema(state, period, v)
         IN  /\ IsDema(u.state, Append(values, v), period)
             /\ DoubleEma(Append(values, v), period) = Append(DoubleEma(values, period), u.out)
<1> DEFINE n == Len(values)
           more == Append(values, v)
           u == PushDema(state, period, v)
           a == PushEma(state.inner, period, v)
           b == PushEma(state.outer, period, a.out)
           tail == InnerTail(values, period)
           longer == InnerTail(more, period)
           f == DoubleEma(values, period)
           g == DoubleEma(more, period)
<1>1. n \in Nat /\ more \in Seq(S) /\ Len(more) = n + 1 /\ DOMAIN values = 1..n
  BY AppendProperties
<1>2. /\ IsEma(a.state, more, period)
      /\ ExpMa(more, period) = Append(ExpMa(values, period), a.out)
      /\ a.out = None <=> n + 1 < period
  <2>1. IsEma(state.inner, values, period)
    BY DEF IsDema
  <2> QED BY <2>1, EmaLaw
<1>3. IsEma(state.outer, tail, period)
  BY DEF IsDema
<1>4. PICK T : /\ tail \in Seq(T) /\ a.out \in T
               /\ n + 1 < period => longer = tail
               /\ ~(n + 1 < period) => longer = Append(tail, a.out) /\ Len(tail) = n + 1 - period
  <2> HIDE DEF a
  <2> QED BY <1>2, InnerTailAppend
<1>5. ~(n + 1 < period) =>
         /\ IsEma(b.state, longer, period)
         /\ ExpMa(longer, period) = Append(ExpMa(tail, period), b.out)
  <2> SUFFICES ASSUME ~(n + 1 < period)
               PROVE  /\ IsEma(b.state, longer, period)
                      /\ ExpMa(longer, period) = Append(ExpMa(tail, period), b.out)
    OBVIOUS
  <2> HIDE DEF tail, a, longer, n
  <2>1. longer = Append(tail, a.out)
    BY <1>4
  <2>2. /\ IsEma(b.state, Append(tail, a.out), period)
        /\ ExpMa(Append(tail, a.out), period) = Append(ExpMa(tail, period), b.out)
    BY <1>3, <1>4, EmaLaw
  <2> HIDE DEF b
  <2> QED BY <2>1, <2>2
<1>6. /\ a.out = None => u.state.inner = a.state /\ u.state.outer = state.outer /\ u.out = None
      /\ a.out # None =>
            /\ u.state.inner = a.state /\ u.state.outer = b.state
            /\ u.out = IF b.out = None THEN None ELSE Doubled(a.out, b.out)
  <2> HIDE DEF a, b
  <2>1. u = [state |-> [inner |-> a.state,
                        outer |-> IF a.out = None THEN state.outer ELSE b.state],
             out |-> IF a.out = None \/ b.out = None THEN None ELSE Doubled(a.out, b.out)]
    BY Zenon DEF PushDema, a, b
  <2> QED BY <2>1
<1>7. IsDema(u.state, more, period)
  <2> HIDE DEF a, b, u, more, n, tail
  <2>1. CASE n + 1 < period
    <3>1. a.out = None /\ IsEma(state.outer, longer, period)
      BY <1>2, <1>3, <1>4, <2>1
    <3> QED BY <1>2, <1>6, <3>1 DEF IsDema
  <2>2. CASE ~(n + 1 < period)
    <3>1. a.out # None /\ IsEma(b.state, longer, period)
      BY <1>2, <1>5, <2>2
    <3> QED BY <1>2, <1>6, <3>1 DEF IsDema
  <2> QED BY <2>1, <2>2
<1>8. f = [i \in 1..n |-> DemaAt(values, period, i)]
  BY DemaForm
<1>9. g = [i \in 1..(n + 1) |-> DemaAt(more, period, i)]
  <2> HIDE DEF more, n
  <2> QED BY <1>1, DemaForm
<1>10. /\ ExpMa(values, period) \in Seq(Terms(ExpMa(values, period), n))
       /\ Len(ExpMa(values, period)) = n
  <2>1. IsColumn(ExpMa(values, period), n)
    BY <1>1, SmoothedColumn DEF ExpMa
  <2> HIDE DEF n
  <2> QED BY <1>1, <2>1, ColumnIsSeq
<1>11. /\ ExpMa(tail, period) \in Seq(Terms(ExpMa(tail, period), Len(tail)))
       /\ Len(ExpMa(tail, period)) = Len(tail)
  <2> HIDE DEF tail
  <2>1. DOMAIN tail = 1..Len(tail) /\ Len(tail) \in Nat
    BY <1>4
  <2>2. IsColumn(ExpMa(tail, period), Len(tail))
    BY <2>1, SmoothedColumn DEF ExpMa
  <2> QED BY <2>1, <2>2, ColumnIsSeq
<1>12. g[n + 1] = u.out
  <2>0. PICK last : last = n + 1
    OBVIOUS
  <2>1. g[last] = DemaAt(more, period, last)
    <3> HIDE DEF g, more, n
    <3> QED BY <1>1, <1>9, <2>0
  <2>2. CASE n + 1 < period
    <3> HIDE DEF g, u, a, more, n
    <3> QED BY <1>2, <1>6, <2>1, <2>0, <2>2 DEF DemaAt
  <2>3. CASE ~(n + 1 < period)
    <3>1. ExpMa(longer, period)[last - period + 1] = b.out
      <4> DEFINE s == ExpMa(tail, period)
      <4>1. s \in Seq(Terms(s, Len(tail)) \cup {b.out}) /\ Len(s) = n + 1 - period
        <5> HIDE DEF n, tail
        <5>1. s \in Seq(Terms(s, Len(tail))) /\ Len(s) = n + 1 - period
          BY <1>4, <1>11, <2>3
        <5> HIDE DEF s
        <5> QED BY <5>1
      <4> HIDE DEF s, n, b
      <4>2. Append(s, b.out)[Len(s) + 1] = b.out
        BY <4>1, AppendProperties
      <4>3. last - period + 1 = Len(s) + 1
        BY <1>1, <2>0, <4>1
      <4> QED BY <1>5, <2>3, <4>2, <4>3 DEF s
    <3>2. ExpMa(more, period)[last] = a.out
      <4> DEFINE s == ExpMa(values, period)
      <4>1. s \in Seq(Terms(s, n) \cup {a.out}) /\ Len(s) = n
        <5>1. s \in Seq(Terms(s, n)) /\ Len(s) = n
          BY <1>10
        <5> HIDE DEF s
        <5> QED BY <5>1
      <4> HIDE DEF s, n, a
      <4>2. Append(s, a.out)[Len(s) + 1] = a.out
        BY <4>1, AppendProperties
      <4> QED BY <1>2, <2>0, <4>1, <4>2 DEF s
    <3> HIDE DEF g, u, a, b, more, n
    <3>3. g[last] = IF b.out = None THEN None ELSE Doubled(a.out, b.out)
      <4>1. ~(last < period)
        BY <2>0, <2>3
      <4> QED BY <2>1, <3>1, <3>2, <4>1, Zenon DEF DemaAt, longer
    <3> QED BY <1>2, <1>6, <2>0, <2>3, <3>3
  <2> QED BY <2>2, <2>3
<1>13. ASSUME NEW i \in 1..n PROVE g[i] = f[i]
  <2>1. g[i] = DemaAt(more, period, i) /\ f[i] = DemaAt(values, period, i)
    <3>1. i \in 1..(n + 1)
      BY <1>1
    <3> HIDE DEF f, g, more
    <3> QED BY <1>8, <1>9, <3>1
  <2>2. CASE i < period
    <3> HIDE DEF f, g, more
    <3> QED BY <2>1, <2>2, Zenon DEF DemaAt
  <2>3. CASE ~(i < period)
    <3>1. ExpMa(more, period)[i] = ExpMa(values, period)[i]
      <4>1. /\ DOMAIN SmoothedMa("ema", values, period) = 1..n
            /\ \A k \in 1..n : SmoothedMa("ema", more, period)[k] = SmoothedMa("ema", values, period)[k]
        BY SmoothedPrefix
      <4> QED BY <4>1 DEF ExpMa
    <3>2. ExpMa(longer, period)[i - period + 1] = ExpMa(tail, period)[i - period + 1]
      <4>1. ~(n + 1 < period) /\ i - period + 1 \in 1..(n + 1 - period)
        BY <1>1, <2>3
      <4> HIDE DEF n, a, tail, longer
      <4>2. longer = Append(tail, a.out) /\ Len(tail) = n + 1 - period
        BY <1>4, <4>1
      <4>3. \A k \in 1..Len(tail) : SmoothedMa("ema", longer, period)[k] = SmoothedMa("ema", tail, period)[k]
        BY <1>4, <4>2, SmoothedPrefix
      <4> QED BY <4>1, <4>2, <4>3 DEF ExpMa
    <3> HIDE DEF f, g, more
    <3> QED BY <2>1, <2>3, <3>1, <3>2, Zenon DEF DemaAt, tail, longer
  <2> QED BY <2>2, <2>3
<1>14. g = Append(f, u.out)
  <2>1. IsColumn(f, n) /\ IsColumn(g, n + 1)
    <3>1. IsColumn([i \in 1..n |-> DemaAt(values, period, i)], n)
      BY DEF IsColumn
    <3>2. IsColumn([i \in 1..(n + 1) |-> DemaAt(more, period, i)], n + 1)
      BY DEF IsColumn
    <3> HIDE DEF f, g, more, n
    <3> QED BY <1>8, <1>9, <3>1, <3>2
  <2> HIDE DEF f, g, u, n
  <2>2. g = Append(f, g[n + 1])
    BY <1>1, <1>13, <2>1, GrownByOne
  <2> QED BY <1>12, <2>2
<1> QED BY <1>7, <1>14

-----------------------------------------------------------------------------
(* Indicators of the moves from one value to the next.                     *)

LEMMA GainsAppend ==
  ASSUME NEW S, NEW values \in Seq(S), NEW v \in S, values # <<>>
  PROVE  /\ Gains(Append(values, v)) = Append(Gains(values), Gain(values[Len(values)], v))
         /\ Losses(Append(values, v)) = Append(Losses(values), Loss(values[Len(values)], v))
         /\ LogReturns(Append(values, v))
               = Append(LogReturns(values), OneReturn("log", values[Len(values)], v))
<1> DEFINE n == Len(values)
           more == Append(values, v)
<1>1. /\ n \in Nat \ {0} /\ Len(more) = n + 1 /\ more[n + 1] = v
      /\ \A i \in 1..n : more[i] = values[i]
  BY AppendProperties
<1>2. PICK m \in Nat : n = m + 1
  <2>1. n - 1 \in Nat /\ n = n - 1 + 1
    BY <1>1
  <2> QED BY <2>1
<1>3. /\ m + 1 - 1 = m /\ Len(more) - 1 = m + 1 /\ Len(values) - 1 = m
      /\ more[m + 1] = values[n] /\ more[m + 1 + 1] = v
      /\ \A i \in 1..m : more[i] = values[i] /\ more[i + 1] = values[i + 1]
  <2>1. m + 1 \in 1..n /\ \A i \in 1..m : i \in 1..n /\ i + 1 \in 1..n
    BY <1>1, <1>2
  <2> HIDE DEF more
  <2> QED BY <1>1, <1>2, <2>1
<1> HIDE DEF more
<1>4. Gains(more) = Append(Gains(values), Gain(values[n], v))
  <2> DEFINE f == Gains(values)
             g == Gains(more)
  <2>1. /\ f = [i \in 1..m |-> Gain(values[i], values[i + 1])]
        /\ g = [i \in 1..(m + 1) |-> Gain(more[i], more[i + 1])]
    BY <1>3, Zenon DEF Gains
  <2> HIDE DEF f, g, n
  <2>2. IsColumn(f, m) /\ IsColumn(g, m + 1)
    BY <2>1 DEF IsColumn
  <2>3. (\A i \in 1..m : g[i] = f[i]) /\ g[m + 1] = Gain(values[n], v)
    <3>1. m + 1 \in 1..(m + 1) /\ \A i \in 1..m : i \in 1..(m + 1)
      BY <1>2
    <3> QED BY <1>3, <2>1, <3>1, Zenon
  <2>4. g = Append(f, g[m + 1])
    BY <2>2, <2>3, GrownByOne
  <2> QED BY <2>3, <2>4 DEF f, g
<1>5. Losses(more) = Append(Losses(values), Loss(values[n], v))
  <2> DEFINE f == Losses(values)
             g == Losses(more)
  <2>1. /\ f = [i \in 1..m |-> Loss(values[i], values[i + 1])]
        /\ g = [i \in 1..(m + 1) |-> Loss(more[i], more[i + 1])]
    BY <1>3, Zenon DEF Losses
  <2> HIDE DEF f, g, n
  <2>2. IsColumn(f, m) /\ IsColumn(g, m + 1)
    BY <2>1 DEF IsColumn
  <2>3. (\A i \in 1..m : g[i] = f[i]) /\ g[m + 1] = Loss(values[n], v)
    <3>1. m + 1 \in 1..(m + 1) /\ \A i \in 1..m : i \in 1..(m + 1)
      BY <1>2
    <3> QED BY <1>3, <2>1, <3>1, Zenon
  <2>4. g = Append(f, g[m + 1])
    BY <2>2, <2>3, GrownByOne
  <2> QED BY <2>3, <2>4 DEF f, g
<1>6. LogReturns(more) = Append(LogReturns(values), OneReturn("log", values[n], v))
  <2> DEFINE f == LogReturns(values)
             g == LogReturns(more)
  <2>1. /\ f = [i \in 1..m |-> OneReturn("log", values[i], values[i + 1])]
        /\ g = [i \in 1..(m + 1) |-> OneReturn("log", more[i], more[i + 1])]
    BY <1>3, Zenon DEF LogReturns
  <2> HIDE DEF f, g, n
  <2>2. IsColumn(f, m) /\ IsColumn(g, m + 1)
    BY <2>1 DEF IsColumn
  <2>3. (\A i \in 1..m : g[i] = f[i]) /\ g[m + 1] = OneReturn("log", values[n], v)
    <3>1. m + 1 \in 1..(m + 1) /\ \A i \in 1..m : i \in 1..(m + 1)
      BY <1>2
    <3> QED BY <1>3, <2>1, <3>1, Zenon
  <2>4. g = Append(f, g[m + 1])
    BY <2>2, <2>3, GrownByOne
  <2> QED BY <2>3, <2>4 DEF f, g
<1> QED BY <1>4, <1>5, <1>6 DEF more

\* A series of the length n has n - 1 moves, the empty one none.
LEMMA GainsType ==
  ASSUME NEW S, NEW values \in Seq(S), NEW k \in Nat,
         Len(values) = k + 1 \/ (Len(values) = 0 /\ k = 0),
         NEW f \in {Gains(values), Losses(values), LogReturns(values)}
  PROVE  IsColumn(f, k) /\ Len(f) = k /\ f \in Seq(Terms(f, k))
<1>1. 1..(Len(values) - 1) = 1..k
  OBVIOUS
<1>2. /\ Gains(values) = [i \in 1..k |-> Gain(values[i], values[i + 1])]
      /\ Losses(values) = [i \in 1..k |-> Loss(values[i], values[i + 1])]
      /\ LogReturns(values) = [i \in 1..k |-> OneReturn("log", values[i], values[i + 1])]
  BY <1>1, Zenon DEF Gains, Losses, LogReturns
<1>3. IsColumn(Gains(values), k) /\ IsColumn(Losses(values), k) /\ IsColumn(LogReturns(values), k)
  <2>1. IsColumn(Gains(values), k)
    BY <1>2 DEF IsColumn
  <2>2. IsColumn(Losses(values), k)
    BY <1>2 DEF IsColumn
  <2>3. IsColumn(LogReturns(values), k)
    BY <1>2 DEF IsColumn
  <2> QED BY <2>1, <2>2, <2>3
<1>4. IsColumn(f, k)
  BY <1>3
<1> QED BY <1>4, ColumnIsSeq

\* The value before the next one.
IsPrevious(prev, values) == prev = IF values = <<>> THEN None ELSE values[Len(values)]

LEMMA PreviousLaw ==
  ASSUME NEW S, None \notin S, NEW values \in Seq(S), NEW v \in S,
         NEW prev, IsPrevious(prev, values)
  PROVE  /\ prev = None <=> Len(values) = 0
         /\ Len(values) # 0 => prev = values[Len(values)] /\ values # <<>>
         /\ IsPrevious(v, Append(values, v))
<1>1. values = <<>> <=> Len(values) = 0
  OBVIOUS
<1>2. values # <<>> => values[Len(values)] \in S
  OBVIOUS
<1>3. Append(values, v) # <<>> /\ Append(values, v)[Len(Append(values, v))] = v
  BY AppendProperties
<1> QED BY <1>1, <1>2, <1>3 DEF IsPrevious

LEMMA ReturnLaw ==
  ASSUME NEW S, None \notin S, NEW values \in Seq(S), NEW v \in S, NEW method,
         NEW state, IsPrevious(state.prev, values)
  PROVE  LET u == PushReturn(state, method, v)
         IN  /\ IsPrevious(u.state.prev, Append(values, v))
             /\ Returns(Append(values, v), method) = Append(Returns(values, method), u.out)
<1> DEFINE n == Len(values)
           more == Append(values, v)
           u == PushReturn(state, method, v)
           f == Returns(values, method)
           g == Returns(more, method)
<1>1. /\ n \in Nat /\ Len(more) = n + 1 /\ more[n + 1] = v
      /\ \A i \in 1..n : more[i] = values[i]
      /\ DOMAIN values = 1..n /\ DOMAIN more = 1..(n + 1)
  BY AppendProperties
<1>2. /\ u.state.prev = v
      /\ u.out = IF state.prev = None THEN None ELSE OneReturn(method, state.prev, v)
  BY DEF PushReturn
<1>3. /\ state.prev = None <=> n = 0
      /\ n # 0 => state.prev = values[n]
      /\ IsPrevious(v, more)
  BY PreviousLaw
<1> DEFINE At(series, i) == IF i = 1 THEN None ELSE OneReturn(method, series[i - 1], series[i])
<1>4. f = [i \in 1..n |-> At(values, i)] /\ g = [i \in 1..(n + 1) |-> At(more, i)]
  <2> HIDE DEF more, n
  <2> QED BY <1>1 DEF Returns
<1> HIDE DEF f, g, u, more, n
<1>5. g[n + 1] = u.out
  <2>1. PICK last : last = n + 1
    OBVIOUS
  <2>2. g[last] = At(more, last)
    <3>1. last \in 1..(n + 1)
      BY <1>1, <2>1
    <3> HIDE DEF At
    <3> QED BY <1>4, <3>1
  <2>3. CASE n = 0
    BY <1>2, <1>3, <2>1, <2>2, <2>3
  <2>4. CASE n # 0
    <3>1. last # 1 /\ last - 1 = n /\ n \in 1..n
      BY <1>1, <2>1, <2>4
    <3>2. more[last - 1] = values[n] /\ more[last] = v
      BY <1>1, <2>1, <3>1
    <3> QED BY <1>2, <1>3, <2>1, <2>2, <2>4, <3>1, <3>2
  <2> QED BY <2>3, <2>4
<1>6. ASSUME NEW i \in 1..n PROVE g[i] = f[i]
  <2>1. i \in 1..(n + 1) /\ (i # 1 => i - 1 \in 1..n)
    BY <1>1
  <2>2. At(more, i) = At(values, i)
    BY <1>1, <2>1
  <2> HIDE DEF At
  <2> QED BY <1>4, <2>1, <2>2
<1>7. g = Append(f, u.out)
  <2>1. IsColumn(f, n) /\ IsColumn(g, n + 1)
    <3> HIDE DEF At
    <3> QED BY <1>4 DEF IsColumn
  <2>2. g = Append(f, g[n + 1])
    BY <1>1, <1>6, <2>1, GrownByOne
  <2> QED BY <1>5, <2>2
<1> QED BY <1>2, <1>3, <1>7 DEF f, g, u, more

\* A window of the last returns.
IsVolatility(state, values, period) ==
    /\ IsPrevious(state.prev, values)
    /\ state.window = Newest(LogReturns(values), period)

\* Room is made before or after the newest value comes in.
LEMMA WindowPush ==
  ASSUME NEW S, NEW values \in Seq(S), NEW v \in S, NEW period \in Nat \ {0},
         NEW window, window = Newest(values, period)
  PROVE  LET longer == Append(window, v)
         IN  (IF Len(longer) > period THEN Tail(longer) ELSE longer)
                = Newest(Append(values, v), period)
<1> DEFINE longer == Append(window, v)
<1>1. /\ window \in Seq(S) /\ Len(window) \in Nat /\ Len(window) <= period
      /\ (Len(window) = period => window # <<>>)
  BY NewestIs
<1>2. /\ Len(longer) = Len(window) + 1
      /\ Tail(longer) = IF window = <<>> THEN <<>> ELSE Append(Tail(window), v)
  BY <1>1, AppendProperties, HeadTailAppend
<1>3. Newest(Append(values, v), period)
         = Append(IF Len(window) = period THEN Tail(window) ELSE window, v)
  BY NewestAppend
<1>4. Len(longer) > period <=> Len(window) = period
  <2> HIDE DEF longer
  <2> QED BY <1>1, <1>2
<1>5. CASE Len(window) = period
  <2> HIDE DEF longer
  <2> QED BY <1>1, <1>2, <1>3, <1>4, <1>5 DEF longer
<1>6. CASE Len(window) # period
  BY <1>3, <1>4, <1>6
<1> QED BY <1>5, <1>6

LEMMA VolatilityLaw ==
  ASSUME NEW S, None \notin S, NEW values \in Seq(S), NEW v \in S, NEW period \in Nat \ {0},
         NEW state, IsVolatility(state, values, period)
  PROVE  LET u == PushVolatility(state, period, v)
         IN  /\ IsVolatility(u.state, Append(values, v), period)
             /\ Volatility(Append(values, v), period) = Append(Volatility(values, period), u.out)
<1> DEFINE n == Len(values)
           more == Append(values, v)
           u == PushVolatility(state, period, v)
           r == LogReturns(values)
           s == LogReturns(more)
           f == Volatility(values, period)
           g == Volatility(more, period)
<1>1. /\ n \in Nat /\ Len(more) = n + 1 /\ more \in Seq(S)
      /\ DOMAIN values = 1..n /\ DOMAIN more = 1..(n + 1)
  BY AppendProperties
<1>2. /\ state.prev = None <=> n = 0
      /\ n # 0 => state.prev = values[n] /\ values # <<>>
      /\ IsPrevious(v, more)
  BY PreviousLaw DEF IsVolatility
<1> DEFINE step == OneReturn("log", values[n], v)
           T == Terms(r, Len(r)) \cup {step}
<1>3. r \in Seq(T) /\ step \in T /\ Len(r) = IF n = 0 THEN 0 ELSE n - 1
  <2> DEFINE k == IF n = 0 THEN 0 ELSE n - 1
  <2>1. k \in Nat /\ (n = k + 1 \/ (n = 0 /\ k = 0))
    <3> HIDE DEF n
    <3> QED BY <1>1
  <2> HIDE DEF k
  <2>2. Len(r) = k /\ r \in Seq(Terms(r, k))
    BY <2>1, GainsType
  <2> HIDE DEF r, step
  <2> QED BY <2>2 DEF k
<1> HIDE DEF T
<1>4. n # 0 => s = Append(r, step)
  BY <1>2, GainsAppend
<1>5. CASE n = 0
  <2>1. u.state.prev = v /\ u.state.window = state.window /\ u.out = None
    BY <1>2, <1>5 DEF PushVolatility
  <2>2. s = <<>> /\ r = <<>>
    <3>1. Len(s) = 0 /\ s \in Seq(Terms(s, 0))
      <4>1. Len(more) = 0 + 1
        <5> HIDE DEF more
        <5> QED BY <1>1, <1>5
      <4> HIDE DEF more
      <4> QED BY <1>1, <4>1, GainsType
    <3> HIDE DEF s, r
    <3> QED BY <1>3, <1>5, <3>1
  <2>3. IsVolatility(u.state, more, period)
    <3>1. u.state.window = Newest(s, period)
      <4>1. state.window = Newest(r, period)
        BY DEF IsVolatility
      <4> HIDE DEF s, r, u
      <4> QED BY <2>1, <2>2, <4>1
    <3> HIDE DEF u, more
    <3> QED BY <1>2, <2>1, <3>1 DEF IsVolatility
  <2>4. g = <<None>> /\ f = <<>>
    <3>1. \A i \in 1..1 : i <= period
      OBVIOUS
    <3>2. g = [i \in 1..1 |-> None]
      <4> HIDE DEF more, n
      <4> QED BY <1>1, <1>5, <3>1 DEF Volatility
    <3>3. f = [i \in 1..0 |-> None]
      <4>1. \A i \in 1..0 : FALSE
        OBVIOUS
      <4> HIDE DEF n
      <4> QED BY <1>1, <1>5, <4>1 DEF Volatility
    <3> HIDE DEF f, g
    <3> QED BY <3>2, <3>3
  <2> HIDE DEF f, g, u, more
  <2>5. Append(f, u.out) = g
    BY <2>1, <2>4
  <2> QED BY <2>3, <2>5 DEF f, g, u, more
<1>6. CASE n # 0
  <2> DEFINE longer == Append(state.window, step)
             window == IF Len(longer) > period THEN Tail(longer) ELSE longer
  <2>1. /\ u.state.prev = v /\ u.state.window = window
        /\ u.out = IF period >= 2 /\ Len(window) = period THEN Stdev(window) ELSE None
    <3>1. state.prev # None /\ OneReturn("log", state.prev, v) = step
      BY <1>2, <1>6
    <3> HIDE DEF step
    <3> QED BY <3>1, Zenon DEF PushVolatility
  <2>2. window = Newest(s, period)
    <3>1. state.window = Newest(r, period)
      BY DEF IsVolatility
    <3> HIDE DEF r, s, step
    <3>2. window = Newest(Append(r, step), period)
      BY <1>3, <3>1, WindowPush
    <3> HIDE DEF window
    <3> QED BY <1>4, <1>6, <3>2
  <2>3. IsVolatility(u.state, more, period)
    <3> HIDE DEF u, more, window
    <3> QED BY <1>2, <2>1, <2>2 DEF IsVolatility, s
  <2>4. s \in Seq(T) /\ Len(s) = n
    <3>1. Append(r, step) \in Seq(T) /\ Len(Append(r, step)) = Len(r) + 1
      <4> HIDE DEF r, step
      <4> QED BY <1>3, AppendProperties
    <3>2. Len(r) + 1 = n
      <4> HIDE DEF r
      <4> QED BY <1>1, <1>3, <1>6
    <3> HIDE DEF s, r, step, n
    <3> QED BY <1>4, <1>6, <3>1, <3>2
  <2> DEFINE At(t, i) == IF period < 2 \/ i <= period THEN None
                         ELSE Stdev(SubSeq(t, i - period, i - 1))
  <2>5. f = [i \in 1..n |-> At(r, i)] /\ g = [i \in 1..(n + 1) |-> At(s, i)]
    <3> HIDE DEF more, n
    <3> QED BY <1>1 DEF Volatility, r, s
  <2> HIDE DEF f, g, u, more, n, r, s, step
  <2>6. g[n + 1] = u.out
    <3>1. PICK last : last = n + 1
      OBVIOUS
    <3>2. g[last] = At(s, last)
      <4>1. last \in 1..(n + 1)
        BY <1>1, <3>1
      <4> HIDE DEF At
      <4> QED BY <2>5, <4>1
    <3>3. Len(window) = IF n <= period THEN n ELSE period
      <4> HIDE DEF window
      <4> QED BY <2>2, <2>4, NewestIs
    <3>4. CASE period >= 2 /\ n >= period
      <4>1. window = SubSeq(s, last - period, last - 1)
        <5>1. /\ last - 1 = n
              /\ last - period = IF n <= period THEN 1 ELSE n - period + 1
          BY <1>1, <3>1, <3>4
        <5> HIDE DEF window
        <5> QED BY <2>2, <2>4, <5>1, Zenon DEF Newest
      <4>2. ~(period < 2 \/ last <= period) /\ Len(window) = period
        <5> HIDE DEF window
        <5> QED BY <1>1, <3>1, <3>3, <3>4
      <4> HIDE DEF window
      <4> QED BY <2>1, <3>1, <3>2, <3>4, <4>1, <4>2, Zenon
    <3>5. CASE ~(period >= 2 /\ n >= period)
      <4>1. (period < 2 \/ last <= period) /\ ~(period >= 2 /\ Len(window) = period)
        <5> HIDE DEF window
        <5> QED BY <1>1, <3>1, <3>3, <3>5
      <4> HIDE DEF window
      <4> QED BY <2>1, <3>1, <3>2, <4>1, Zenon
    <3> QED BY <3>4, <3>5
  <2>7. ASSUME NEW i \in 1..n PROVE g[i] = f[i]
    <3>1. i \in 1..(n + 1)
      BY <1>1
    <3>2. At(s, i) = At(r, i)
      <4> DEFINE part(t) == SubSeq(t, i - period, i - 1)
      <4>1. ASSUME i > period PROVE part(s) = part(r)
        <5>1. i - period \in 1..Len(r) /\ i - 1 \in 1..Len(r)
          BY <1>1, <1>3, <1>6, <4>1
        <5>2. s = r \o <<step>>
          <6>1. Append(r, step) = r \o <<step>>
            BY <1>3, AppendIsConcat
          <6> QED BY <1>4, <1>6, <6>1
        <5>3. <<step>> \in Seq(T)
          BY <1>3
        <5>4. SubSeq(r \o <<step>>, i - period, i - 1) = SubSeq(r, i - period, i - 1)
          BY <1>3, <5>1, <5>3, SubSeqOfConcat1
        <5> QED BY <5>2, <5>4
      <4>2. CASE period < 2 \/ i <= period
        BY <4>2
      <4>3. CASE ~(period < 2 \/ i <= period)
        <5>1. i > period
          BY <4>3, <1>1
        <5>2. part(s) = part(r)
          BY <4>1, <5>1
        <5> QED BY <4>3, <5>2
      <4> QED BY <4>2, <4>3
    <3> HIDE DEF At
    <3> QED BY <2>5, <3>1, <3>2
  <2>8. g = Append(f, u.out)
    <3>1. IsColumn(f, n) /\ IsColumn(g, n + 1)
      <4> HIDE DEF At
      <4> QED BY <2>5 DEF IsColumn
    <3>2. g = Append(f, g[n + 1])
      BY <1>1, <2>7, <3>1, GrownByOne
    <3> QED BY <2>6, <3>2
  <2> QED BY <2>3, <2>8 DEF f, g, u, more
<1> QED BY <1>5, <1>6

\* The moves of the seed until there are period of them, then both averages.
IsRsi(state, values, period) ==
    /\ state = [prev |-> state.prev, gains |-> state.gains, losses |-> state.losses,
                gain |-> state.gain, loss |-> state.loss]
    /\ IsPrevious(state.prev, values)
    /\ IF Len(values) <= period
       THEN /\ state.gains = Gains(values) /\ state.losses = Losses(values)
            /\ state.gain = None
       ELSE /\ state.gain = SmoothedMa("wilder", Gains(values), period)[Len(values) - 1]
            /\ state.loss = SmoothedMa("wilder", Losses(values), period)[Len(values) - 1]
            /\ state.gain # None

\* The average of the moves, when there is one more of them.
LEMMA WilderGrows ==
  ASSUME NEW moves, NEW k \in Nat, Len(moves) = k, moves \in Seq(Terms(moves, k)),
         NEW step, NEW period \in Nat \ {0}
  PROVE  /\ \A i \in 1..k : SmoothedMa("wilder", Append(moves, step), period)[i]
                                = SmoothedMa("wilder", moves, period)[i]
         /\ SmoothedMa("wilder", Append(moves, step), period)[k + 1]
               = IF k + 1 < period THEN None
                 ELSE IF k + 1 = period THEN Divided(Plain(Append(moves, step)), period)
                 ELSE Smoothed("wilder", SmoothedMa("wilder", moves, period)[k], step)
<1> DEFINE T == Terms(moves, k) \cup {step}
<1>1. moves \in Seq(T) /\ step \in T
  OBVIOUS
<1> HIDE DEF T
<1> QED BY <1>1, SmoothedPrefix

\* One value has no moves.
LEMMA NoMoves ==
  ASSUME NEW S, NEW values \in Seq(S), Len(values) = 0 \/ Len(values) = 1
  PROVE  Gains(values) = <<>> /\ Losses(values) = <<>>
<1>1. ASSUME NEW f \in {Gains(values), Losses(values), LogReturns(values)}
      PROVE  f = <<>>
  <2>1. Len(f) = 0 /\ f \in Seq(Terms(f, 0))
    <3>1. Len(values) = 0 + 1 \/ (Len(values) = 0 /\ 0 = 0)
      OBVIOUS
    <3> QED BY <3>1, GainsType
  <2> QED BY <2>1
<1> QED BY <1>1

LEMMA RsiLaw ==
  ASSUME NEW S, None \notin S, NEW values \in Seq(S), NEW v \in S, NEW period \in Nat \ {0},
         NEW state, IsRsi(state, values, period)
  PROVE  LET u == PushRsi(state, period, v)
         IN  /\ IsRsi(u.state, Append(values, v), period)
             /\ Rsi(Append(values, v), period) = Append(Rsi(values, period), u.out)
<1> DEFINE n == Len(values)
           more == Append(values, v)
           u == PushRsi(state, period, v)
           G(t) == SmoothedMa("wilder", Gains(t), period)
           L(t) == SmoothedMa("wilder", Losses(t), period)
           f == Rsi(values, period)
           g == Rsi(more, period)
           At(t, i) == IF i <= period THEN None ELSE RsiValue(G(t)[i - 1], L(t)[i - 1])
<1>1. /\ n \in Nat /\ Len(more) = n + 1 /\ more \in Seq(S)
      /\ DOMAIN values = 1..n /\ DOMAIN more = 1..(n + 1)
  BY AppendProperties
<1>2. /\ state.prev = None <=> n = 0
      /\ n # 0 => state.prev = values[n] /\ values # <<>>
      /\ IsPrevious(v, more)
  BY PreviousLaw DEF IsRsi
<1>3. f = [i \in 1..n |-> At(values, i)] /\ g = [i \in 1..(n + 1) |-> At(more, i)]
  <2>1. period # 0
    OBVIOUS
  <2> HIDE DEF more, n
  <2> QED BY <1>1, <2>1, Zenon DEF Rsi
<1>4. IsColumn(f, n) /\ IsColumn(g, n + 1)
  <2> HIDE DEF f, g, At, n, more
  <2> QED BY <1>3 DEF IsColumn
<1>5. CASE n = 0
  <2>1. u.state = [state EXCEPT !.prev = v] /\ u.out = None
    BY <1>2, <1>5 DEF PushRsi
  <2>2. state.gains = <<>> /\ state.losses = <<>> /\ state.gain = None
    <3>1. Gains(values) = <<>> /\ Losses(values) = <<>>
      BY <1>5, NoMoves
    <3>2. Len(values) <= period
      BY <1>5
    <3> QED BY <3>1, <3>2 DEF IsRsi
  <2>3. Gains(more) = <<>> /\ Losses(more) = <<>>
    <3>1. Len(more) = 1
      BY <1>1, <1>5
    <3> HIDE DEF more
    <3> QED BY <1>1, <3>1, NoMoves
  <2>4. IsRsi(u.state, more, period)
    <3>1. u.state = [prev |-> v, gains |-> state.gains, losses |-> state.losses,
                     gain |-> state.gain, loss |-> state.loss]
      <4>1. state = [prev |-> state.prev, gains |-> state.gains, losses |-> state.losses,
                     gain |-> state.gain, loss |-> state.loss]
        BY DEF IsRsi
      <4> HIDE DEF u
      <4> QED BY <2>1, <4>1
    <3>2. Len(more) <= period
      <4> HIDE DEF more
      <4> QED BY <1>1, <1>5
    <3> HIDE DEF u, more
    <3> QED BY <1>2, <2>2, <2>3, <3>1, <3>2 DEF IsRsi
  <2>5. g = <<None>> /\ f = <<>>
    <3>1. \A i \in 1..1 : At(more, i) = None
      OBVIOUS
    <3>2. g = [i \in 1..1 |-> None]
      <4> HIDE DEF At, more, g, n
      <4> QED BY <1>3, <1>5, <3>1
    <3>3. f = [i \in 1..0 |-> None]
      <4>1. \A i \in 1..0 : FALSE
        OBVIOUS
      <4> HIDE DEF At, f, n
      <4> QED BY <1>3, <1>5, <4>1
    <3> HIDE DEF f, g
    <3> QED BY <3>2, <3>3
  <2> HIDE DEF f, g, u, more
  <2>6. Append(f, u.out) = g
    BY <2>1, <2>5
  <2> QED BY <2>4, <2>6 DEF f, g, u, more
<1>6. CASE n # 0
  <2> DEFINE gain == Gain(values[n], v)
             loss == Loss(values[n], v)
             gains == Append(state.gains, gain)
             losses == Append(state.losses, loss)
             seed == ~(state.gain # None) /\ Len(gains) < period
             up == IF state.gain # None THEN Smoothed("wilder", state.gain, gain)
                   ELSE Divided(Plain(gains), period)
             down == IF state.gain # None THEN Smoothed("wilder", state.loss, loss)
                     ELSE Divided(Plain(losses), period)
  <2>1. PICK k \in Nat : n = k + 1
    <3>1. n - 1 \in Nat /\ n = n - 1 + 1
      BY <1>1, <1>6
    <3> QED BY <3>1
  <2>2. /\ Len(Gains(values)) = k /\ Gains(values) \in Seq(Terms(Gains(values), k))
        /\ Len(Losses(values)) = k /\ Losses(values) \in Seq(Terms(Losses(values), k))
    <3>1. Len(values) = k + 1
      BY <2>1
    <3> QED BY <3>1, GainsType
  <2>3. Gains(more) = Append(Gains(values), gain) /\ Losses(more) = Append(Losses(values), loss)
    BY <1>2, <1>6, GainsAppend
  <2>4. /\ \A i \in 1..k : G(more)[i] = G(values)[i]
        /\ G(more)[k + 1] = IF k + 1 < period THEN None
                             ELSE IF k + 1 = period THEN Divided(Plain(Gains(more)), period)
                             ELSE Smoothed("wilder", G(values)[k], gain)
    <3> DEFINE old == Gains(values)
               new == Gains(more)
    <3>1. Len(old) = k /\ old \in Seq(Terms(old, k)) /\ new = Append(old, gain)
      BY <2>2, <2>3
    <3> HIDE DEF old, new, gain
    <3>2. /\ \A i \in 1..k : SmoothedMa("wilder", Append(old, gain), period)[i]
                               = SmoothedMa("wilder", old, period)[i]
          /\ SmoothedMa("wilder", Append(old, gain), period)[k + 1]
                = IF k + 1 < period THEN None
                  ELSE IF k + 1 = period THEN Divided(Plain(Append(old, gain)), period)
                  ELSE Smoothed("wilder", SmoothedMa("wilder", old, period)[k], gain)
      BY <3>1, WilderGrows
    <3> QED BY <3>1, <3>2, Zenon DEF old, new
  <2>5. /\ \A i \in 1..k : L(more)[i] = L(values)[i]
        /\ L(more)[k + 1] = IF k + 1 < period THEN None
                             ELSE IF k + 1 = period THEN Divided(Plain(Losses(more)), period)
                             ELSE Smoothed("wilder", L(values)[k], loss)
    <3> DEFINE old == Losses(values)
               new == Losses(more)
    <3>1. Len(old) = k /\ old \in Seq(Terms(old, k)) /\ new = Append(old, loss)
      BY <2>2, <2>3
    <3> HIDE DEF old, new, loss
    <3>2. /\ \A i \in 1..k : SmoothedMa("wilder", Append(old, loss), period)[i]
                               = SmoothedMa("wilder", old, period)[i]
          /\ SmoothedMa("wilder", Append(old, loss), period)[k + 1]
                = IF k + 1 < period THEN None
                  ELSE IF k + 1 = period THEN Divided(Plain(Append(old, loss)), period)
                  ELSE Smoothed("wilder", SmoothedMa("wilder", old, period)[k], loss)
      BY <3>1, WilderGrows
    <3> QED BY <3>1, <3>2, Zenon DEF old, new
  <2>6. /\ u.state = IF seed THEN [prev |-> v, gains |-> gains, losses |-> losses,
                                   gain |-> None, loss |-> None]
                     ELSE [prev |-> v, gains |-> state.gains, losses |-> state.losses,
                           gain |-> up, loss |-> down]
        /\ u.out = IF seed THEN None ELSE RsiValue(up, down)
    <3>1. state.prev # None /\ Gain(state.prev, v) = gain /\ Loss(state.prev, v) = loss
      BY <1>2, <1>6
    <3>2. u = IF seed THEN [state |-> [prev |-> v, gains |-> gains, losses |-> losses,
                                       gain |-> None, loss |-> None], out |-> None]
              ELSE [state |-> [prev |-> v, gains |-> state.gains, losses |-> state.losses,
                               gain |-> up, loss |-> down], out |-> RsiValue(up, down)]
      <4>1. CASE seed
        BY <3>1, <4>1 DEF PushRsi
      <4>2. CASE ~seed
        BY <3>1, <4>2 DEF PushRsi
      <4> QED BY <4>1, <4>2
    <3> HIDE DEF gains, losses, up, down, u, seed
    <3>3. CASE seed
      BY <3>2, <3>3
    <3>4. CASE ~seed
      BY <3>2, <3>4
    <3> QED BY <3>3, <3>4
  <2>7. Len(Gains(more)) = n
    <3>1. Len(Append(Gains(values), gain)) = k + 1
      <4> HIDE DEF gain
      <4> QED BY <2>2
    <3> HIDE DEF gain, more, n
    <3> QED BY <2>1, <2>3, <3>1
  <2>8. ASSUME n < period PROVE IsRsi(u.state, more, period) /\ u.out = None
    <3>1. seed /\ gains = Gains(more) /\ losses = Losses(more)
      <4>1. /\ state.gains = Gains(values) /\ state.losses = Losses(values)
            /\ state.gain = None
        BY <1>1, <2>8 DEF IsRsi
      <4>2. gains = Gains(more) /\ losses = Losses(more)
        <5> HIDE DEF gain, loss, more
        <5> QED BY <2>3, <4>1
      <4>3. Len(gains) < period
        <5> HIDE DEF gains, more, n
        <5> QED BY <2>7, <2>8, <4>2
      <4> HIDE DEF gains, losses
      <4> QED BY <4>1, <4>2, <4>3
    <3>2. IsRsi(u.state, more, period)
      <4>1. Len(more) <= period
        BY <1>1, <2>8
      <4> HIDE DEF gains, losses, up, down, u, more, seed
      <4> QED BY <1>2, <2>6, <3>1, <4>1 DEF IsRsi
    <3>3. u.out = None
      <4> HIDE DEF seed, u
      <4> QED BY <2>6, <3>1
    <3> HIDE DEF u, more
    <3> QED BY <3>2, <3>3
  <2>9. ASSUME ~(n < period)
        PROVE  /\ IsRsi(u.state, more, period)
               /\ u.out = RsiValue(G(more)[n], L(more)[n])
    <3>1. ~seed /\ up = G(more)[n] /\ down = L(more)[n] /\ up # None
      <4>1. CASE n = period
        <5>1. /\ state.gains = Gains(values) /\ state.losses = Losses(values)
              /\ state.gain = None
          BY <1>1, <4>1 DEF IsRsi
        <5>2. gains = Gains(more) /\ losses = Losses(more)
          <6> HIDE DEF gain, loss, more
          <6> QED BY <2>3, <5>1
        <5>3. ~seed
          <6> HIDE DEF gains, more, n
          <6> QED BY <2>7, <4>1, <5>2
        <5>4. up = Divided(Plain(Gains(more)), period) /\ down = Divided(Plain(Losses(more)), period)
          <6> HIDE DEF gains, losses, more
          <6> QED BY <5>1, <5>2
        <5>5. up # None
          <6> HIDE DEF up
          <6> QED BY <5>4, SomeTerm, Zenon DEF Divided
        <5>6. k + 1 = period /\ ~(k + 1 < period)
          BY <2>1, <4>1
        <5> HIDE DEF seed, up, down, G, L, more, n
        <5> QED BY <2>1, <2>4, <2>5, <5>3, <5>4, <5>5, <5>6
      <4>2. CASE n # period
        <5>1. n - 1 = k /\ ~(n <= period) /\ k + 1 # period /\ ~(k + 1 < period)
          BY <1>1, <2>1, <2>9, <4>2
        <5>2. state.gain = G(values)[k] /\ state.loss = L(values)[k] /\ state.gain # None
          <6> HIDE DEF n
          <6> QED BY <5>1 DEF IsRsi, n
        <5>3. up = Smoothed("wilder", G(values)[k], gain) /\ down = Smoothed("wilder", L(values)[k], loss)
          <6> HIDE DEF G, L, gain, loss, gains, losses
          <6> QED BY <5>2
        <5>4. up # None /\ ~seed
          <6> HIDE DEF up
          <6> QED BY <5>2, <5>3, SomeTerm, Zenon DEF Smoothed
        <5> HIDE DEF seed, up, down, G, L, more, n
        <5> QED BY <2>1, <2>4, <2>5, <5>1, <5>3, <5>4
      <4> QED BY <4>1, <4>2
    <3>2. /\ u.state = [prev |-> v, gains |-> state.gains, losses |-> state.losses,
                        gain |-> up, loss |-> down]
          /\ u.out = RsiValue(up, down)
      <4> HIDE DEF seed, up, down, u, G, L
      <4> QED BY <2>6, <3>1
    <3>3. IsRsi(u.state, more, period)
      <4>1. ~(Len(more) <= period) /\ Len(more) - 1 = n
        <5> HIDE DEF more, n
        <5> QED BY <1>1, <2>9
      <4>2. /\ up = SmoothedMa("wilder", Gains(more), period)[Len(more) - 1]
            /\ down = SmoothedMa("wilder", Losses(more), period)[Len(more) - 1]
        <5> HIDE DEF up, down, more, n
        <5> QED BY <3>1, <4>1
      <4> HIDE DEF up, down, u, more, seed, G, L
      <4> QED BY <1>2, <3>1, <3>2, <4>1, <4>2 DEF IsRsi
    <3> HIDE DEF up, down, u, more, seed, G, L
    <3> QED BY <3>1, <3>2, <3>3
  <2> DEFINE out == IF n < period THEN None ELSE RsiValue(G(more)[n], L(more)[n])
  <2>10. IsRsi(u.state, more, period) /\ u.out = out
    <3>1. n < period \/ ~(n < period)
      OBVIOUS
    <3> HIDE DEF G, L
    <3>2. CASE n < period
      <4>1. out = None
        BY <3>2
      <4> HIDE DEF out, u, more
      <4> QED BY <2>8, <3>2, <4>1
    <3>3. CASE ~(n < period)
      <4>1. out = RsiValue(G(more)[n], L(more)[n])
        BY <3>3
      <4> HIDE DEF out, u, more
      <4> QED BY <2>9, <3>3, <4>1
    <3> HIDE DEF out
    <3> QED BY <3>1, <3>2, <3>3, Zenon
  <2> HIDE DEF f, g, u, more, G, L
  <2>11. g[n + 1] = u.out
    <3>1. PICK last : last = n + 1
      OBVIOUS
    <3>2. last \in 1..(n + 1) /\ last - 1 = n /\ (last <= period <=> n < period)
      BY <1>1, <3>1
    <3>3. g[last] = At(more, last)
      <4> HIDE DEF At, n
      <4> QED BY <1>3, <3>2
    <3> HIDE DEF n
    <3>4. At(more, last) = out
      BY <3>2, Zenon
    <3> QED BY <2>10, <3>1, <3>3, <3>4, Zenon
  <2>12. ASSUME NEW i \in 1..n PROVE g[i] = f[i]
    <3>1. i \in 1..(n + 1) /\ (~(i <= period) => i - 1 \in 1..k)
      BY <1>1, <2>1
    <3> HIDE DEF n
    <3>2. At(more, i) = At(values, i)
      <4>1. CASE i <= period
        BY <4>1, Zenon
      <4>2. CASE ~(i <= period)
        <5>1. G(more)[i - 1] = G(values)[i - 1] /\ L(more)[i - 1] = L(values)[i - 1]
          BY <2>4, <2>5, <3>1, <4>2
        <5> QED BY <5>1, Zenon
      <4> QED BY <4>1, <4>2, Zenon
    <3> HIDE DEF At
    <3> QED BY <1>3, <3>1, <3>2
  <2>13. g = Append(f, u.out)
    <3>1. g = Append(f, g[n + 1])
      <4> HIDE DEF n
      <4> QED BY <1>1, <1>4, <2>12, GrownByOne
    <3> QED BY <2>11, <3>1
  <2> QED BY <2>10, <2>13 DEF f, g, u, more
<1> QED BY <1>5, <1>6

-----------------------------------------------------------------------------
(* A column of any kind.                                                   *)

Leaves(spec, B) == {Leaf(spec.kind, b) : b \in B}
Values(spec, bars) == [i \in DOMAIN bars |-> Leaf(spec.kind, bars[i])]

\* The state of a column that was fed these values.
Follows(spec, state, values) ==
    CASE spec.kind \in {"sma", "vsma"} -> IsRing(state, values, spec.period)
      [] spec.kind \in {"ema", "vema"} -> IsEma(state, values, spec.period)
      [] spec.kind \in {"dema", "vdema"} -> IsDema(state, values, spec.period)
      [] spec.kind = "rsi" -> IsRsi(state, values, spec.period)
      [] spec.kind \in {"log", "simple"} -> IsPrevious(state.prev, values)
      [] spec.kind = "vol" -> IsVolatility(state, values, spec.period)

LEMMA ValuesAppend ==
  ASSUME NEW B, NEW bars \in Seq(B), NEW bar \in B, NEW spec
  PROVE  /\ None \notin Leaves(spec, B)
         /\ Values(spec, bars) \in Seq(Leaves(spec, B)) /\ Leaf(spec.kind, bar) \in Leaves(spec, B)
         /\ Values(spec, Append(bars, bar)) = Append(Values(spec, bars), Leaf(spec.kind, bar))
<1> DEFINE S == Leaves(spec, B)
           n == Len(bars)
           more == Append(bars, bar)
           f == Values(spec, bars)
           g == Values(spec, more)
<1>1. /\ n \in Nat /\ DOMAIN bars = 1..n /\ DOMAIN more = 1..(n + 1)
      /\ more[n + 1] = bar /\ \A i \in 1..n : more[i] = bars[i] /\ bars[i] \in B
  BY AppendProperties
<1>2. None \notin S
  <2>1. \A a, b : <<a, b>> # <<>>
    <3> TAKE a, b
    <3>1. Len(<<a, b>>) = 2 /\ Len(<<>>) = 0
      OBVIOUS
    <3> QED BY <3>1, Zenon
  <2>2. \A b \in B : Leaf(spec.kind, b) # <<>>
    BY <2>1, Zenon DEF Leaf
  <2> QED BY <2>2 DEF None, Leaves
<1>8. Leaf(spec.kind, bar) \in S /\ \A i \in 1..n : Leaf(spec.kind, bars[i]) \in S
  <2> HIDE DEF n
  <2> QED BY <1>1 DEF Leaves
<1> HIDE DEF more, n, S
<1>3. /\ f = [i \in 1..n |-> Leaf(spec.kind, bars[i])]
      /\ g = [i \in 1..(n + 1) |-> Leaf(spec.kind, more[i])]
  BY <1>1, Zenon DEF Values
<1> HIDE DEF f, g
<1>4. IsColumn(f, n) /\ IsColumn(g, n + 1)
  BY <1>3 DEF IsColumn
<1>5. /\ \A i \in 1..n : g[i] = f[i] /\ f[i] \in S
      /\ g[n + 1] = Leaf(spec.kind, bar)
  <2>1. n + 1 \in 1..(n + 1) /\ \A i \in 1..n : i \in 1..(n + 1)
    BY <1>1
  <2> QED BY <1>1, <1>3, <1>8, <2>1, Zenon
<1>6. g = Append(f, g[n + 1])
  BY <1>1, <1>4, <1>5, GrownByOne
<1>7. f \in Seq(S)
  BY <1>1, <1>4, <1>5, ColumnType
<1> QED BY <1>2, <1>5, <1>6, <1>7, <1>8 DEF f, g, more, S

\* One bar more keeps the state of any indicator in step with its series, and the
\* batch form has the answer behind the answers so far: calc.rs, update of every
\* StreamingIndicator against compute of its Indicator.
THEOREM UpdateLaw ==
  ASSUME NEW B, NEW bars \in Seq(B), NEW bar \in B, NEW spec, SpecAccepted(spec),
         spec.period \in Nat, NEW state, Follows(spec, state, Values(spec, bars))
  PROVE  LET u == Update(spec, state, bar)
         IN  /\ Follows(spec, u.state, Values(spec, Append(bars, bar)))
             /\ Compute(spec, Append(bars, bar)) = Append(Compute(spec, bars), u.out)
<1> DEFINE u == Update(spec, state, bar)
           S == Leaves(spec, B)
           values == Values(spec, bars)
           v == Leaf(spec.kind, bar)
           more == Append(values, v)
<1>1. /\ None \notin S /\ values \in Seq(S) /\ v \in S
      /\ Values(spec, Append(bars, bar)) = more
  BY ValuesAppend
<1> DEFINE Batch(t) ==
             CASE spec.kind \in {"sma", "vsma"} -> SimpleMa(t, spec.period)
               [] spec.kind \in {"ema", "vema"} -> ExpMa(t, spec.period)
               [] spec.kind \in {"dema", "vdema"} -> DoubleEma(t, spec.period)
               [] spec.kind = "rsi" -> Rsi(t, spec.period)
               [] spec.kind \in {"log", "simple"} -> Returns(t, spec.kind)
               [] spec.kind = "vol" -> Volatility(t, spec.period)
<1>2. Compute(spec, bars) = Batch(values) /\ Compute(spec, Append(bars, bar)) = Batch(more)
  <2>1. \A t : Compute(spec, t) = Batch(Values(spec, t))
    BY Zenon DEF Compute, Values
  <2> HIDE DEF Batch, values, more
  <2> QED BY <1>1, <2>1 DEF values
<1> HIDE DEF S, values, v, more
<1>3. Follows(spec, state, values)
  BY DEF values
<1>4. spec.kind \in SpecKinds /\ (spec.kind \notin {"log", "simple"} => spec.period \in Nat \ {0})
  BY DEF SpecAccepted
<1> DEFINE Goal == Follows(spec, u.state, more) /\ Batch(more) = Append(Batch(values), u.out)
<1>5. ASSUME spec.kind \in {"sma", "vsma"} PROVE Goal
  <2>1. IsRing(state, values, spec.period) /\ u = PushSma(state, spec.period, v)
    BY <1>3, <1>5 DEF Follows, Update, v
  <2>2. Batch(more) = SimpleMa(more, spec.period) /\ Batch(values) = SimpleMa(values, spec.period)
    BY <1>5
  <2>3. spec.period \in Nat \ {0}
    BY <1>4, <1>5
  <2> HIDE DEF u, Batch
  <2>4. /\ IsRing(u.state, more, spec.period)
        /\ SimpleMa(more, spec.period) = Append(SimpleMa(values, spec.period), u.out)
    BY <1>1, <2>1, <2>3, RingLaw DEF more
  <2> QED BY <1>5, <2>2, <2>4 DEF Follows
<1>6. ASSUME spec.kind \in {"ema", "vema"} PROVE Goal
  <2>1. IsEma(state, values, spec.period) /\ u = PushEma(state, spec.period, v)
    BY <1>3, <1>6 DEF Follows, Update, v
  <2>2. Batch(more) = ExpMa(more, spec.period) /\ Batch(values) = ExpMa(values, spec.period)
    BY <1>6
  <2>3. spec.period \in Nat \ {0}
    BY <1>4, <1>6
  <2> HIDE DEF u, Batch
  <2>4. /\ IsEma(u.state, more, spec.period)
        /\ ExpMa(more, spec.period) = Append(ExpMa(values, spec.period), u.out)
    BY <1>1, <2>1, <2>3, EmaLaw DEF more
  <2> QED BY <1>6, <2>2, <2>4 DEF Follows
<1>7. ASSUME spec.kind \in {"dema", "vdema"} PROVE Goal
  <2>1. IsDema(state, values, spec.period) /\ u = PushDema(state, spec.period, v)
    BY <1>3, <1>7 DEF Follows, Update, v
  <2>2. Batch(more) = DoubleEma(more, spec.period) /\ Batch(values) = DoubleEma(values, spec.period)
    BY <1>7
  <2>3. spec.period \in Nat \ {0}
    BY <1>4, <1>7
  <2> HIDE DEF u, Batch
  <2>4. /\ IsDema(u.state, more, spec.period)
        /\ DoubleEma(more, spec.period) = Append(DoubleEma(values, spec.period), u.out)
    BY <1>1, <2>1, <2>3, DemaLaw DEF more
  <2> QED BY <1>7, <2>2, <2>4 DEF Follows
<1>8. ASSUME spec.kind = "rsi" PROVE Goal
  <2>1. IsRsi(state, values, spec.period) /\ u = PushRsi(state, spec.period, v)
    BY <1>3, <1>8 DEF Follows, Update, v
  <2>2. Batch(more) = Rsi(more, spec.period) /\ Batch(values) = Rsi(values, spec.period)
    BY <1>8
  <2>3. spec.period \in Nat \ {0}
    BY <1>4, <1>8
  <2> HIDE DEF u, Batch
  <2>4. /\ IsRsi(u.state, more, spec.period)
        /\ Rsi(more, spec.period) = Append(Rsi(values, spec.period), u.out)
    BY <1>1, <2>1, <2>3, RsiLaw DEF more
  <2> QED BY <1>8, <2>2, <2>4 DEF Follows
<1>9. ASSUME spec.kind \in {"log", "simple"} PROVE Goal
  <2>1. IsPrevious(state.prev, values) /\ u = PushReturn(state, spec.kind, v)
    BY <1>3, <1>9 DEF Follows, Update, v
  <2>2. Batch(more) = Returns(more, spec.kind) /\ Batch(values) = Returns(values, spec.kind)
    BY <1>9
  <2> HIDE DEF u, Batch
  <2>4. /\ IsPrevious(u.state.prev, more)
        /\ Returns(more, spec.kind) = Append(Returns(values, spec.kind), u.out)
    BY <1>1, <2>1, ReturnLaw DEF more
  <2> QED BY <1>9, <2>2, <2>4 DEF Follows
<1>10. ASSUME spec.kind = "vol" PROVE Goal
  <2>1. IsVolatility(state, values, spec.period) /\ u = PushVolatility(state, spec.period, v)
    BY <1>3, <1>10 DEF Follows, Update, v
  <2>2. Batch(more) = Volatility(more, spec.period) /\ Batch(values) = Volatility(values, spec.period)
    BY <1>10
  <2>3. spec.period \in Nat \ {0}
    BY <1>4, <1>10
  <2> HIDE DEF u, Batch
  <2>4. /\ IsVolatility(u.state, more, spec.period)
        /\ Volatility(more, spec.period) = Append(Volatility(values, spec.period), u.out)
    BY <1>1, <2>1, <2>3, VolatilityLaw DEF more
  <2> QED BY <1>10, <2>2, <2>4 DEF Follows
<1>11. Goal
  <2> HIDE DEF Goal
  <2> QED BY <1>4, <1>5, <1>6, <1>7, <1>8, <1>9, <1>10, Zenon DEF SpecKinds
<1> QED
  <2> HIDE DEF u, Batch
  <2> QED BY <1>1, <1>2, <1>11 DEF u

LEMMA ExpMaEmpty ==
  ASSUME NEW period
  PROVE  ExpMa(<<>>, period) = <<>>
<1>1. DOMAIN <<>> = 1..0 /\ Len(<<>>) = 0
  OBVIOUS
<1>2. IsColumn(ExpMa(<<>>, period), 0)
  <2>1. DOMAIN <<>> = 1..Len(<<>>)
    BY <1>1
  <2>2. IsColumn(SmoothedMa("ema", <<>>, period), Len(<<>>))
    BY <2>1, SmoothedColumn
  <2> QED BY <1>1, <2>2 DEF ExpMa
<1>3. 0 \in Nat /\ \A f : f \in Seq(Terms(f, 0)) /\ Len(f) = 0 => f = <<>>
  OBVIOUS
<1> QED BY <1>2, <1>3, ColumnIsSeq

\* A new column is that of no bars.
LEMMA NewColumnLaw ==
  ASSUME NEW spec, SpecAccepted(spec), spec.period \in Nat
  PROVE  Follows(spec, NewColumn(spec), <<>>) /\ Compute(spec, <<>>) = <<>>
<1> DEFINE p == spec.period
<1>1. spec.kind \in SpecKinds /\ (spec.kind \notin {"log", "simple"} => p \in Nat \ {0})
  BY DEF SpecAccepted
<1>2. /\ Len(<<>>) = 0 /\ <<>> \in Seq({}) /\ DOMAIN <<>> = {}
      /\ \A x : [i \in {} |-> x] = <<>>
  OBVIOUS
<1>3. \A n \in Nat \ {0} : Newest(<<>>, n) = <<>>
  <2> TAKE n \in Nat \ {0}
  <2>1. Len(<<>>) <= n
    BY <1>2
  <2> QED BY <1>2, <2>1, NewestIs
<1>4. \A n : RunningSum(<<>>, n)[0] = <<>>
  BY <1>2, RunningSumLaw
<1>5. Values(spec, <<>>) = <<>>
  BY DEF Values
<1> DEFINE Goal == Follows(spec, NewColumn(spec), <<>>) /\ Compute(spec, <<>>) = <<>>
<1>6. ASSUME spec.kind \in {"sma", "vsma"} PROVE Goal
  <2>1. IsRing(NoRing, <<>>, p)
    BY <1>1, <1>2, <1>3, <1>4, <1>6 DEF IsRing, NoRing
  <2>2. NewColumn(spec) = NoRing
    BY <1>6 DEF NewColumn
  <2>3. Compute(spec, <<>>) = SimpleMa(<<>>, p)
    BY <1>5, <1>6 DEF Compute, Values
  <2>4. SimpleMa(<<>>, p) = <<>>
    BY DEF SimpleMa
  <2> QED BY <1>6, <2>1, <2>2, <2>3, <2>4 DEF Follows
<1>7. ASSUME spec.kind \in {"ema", "vema"} PROVE Goal
  <2>1. IsEma(NoEma, <<>>, p)
    BY <1>1, <1>2, <1>7 DEF IsEma, NoEma
  <2>2. NewColumn(spec) = NoEma
    BY <1>7 DEF NewColumn
  <2>3. Compute(spec, <<>>) = ExpMa(<<>>, p)
    BY <1>5, <1>7 DEF Compute, Values
  <2> QED BY <1>7, <2>1, <2>2, <2>3, ExpMaEmpty DEF Follows
<1>8. ASSUME spec.kind \in {"dema", "vdema"} PROVE Goal
  <2>0. p \in Nat \ {0}
    BY <1>1, <1>8
  <2>1. InnerTail(<<>>, p) = <<>>
    <3>1. 0 \in Int /\ p \in Int /\ 0 < p
      BY <2>0
    <3>2. SubSeq(<<>>, p, 0) = <<>>
      BY <1>2, <3>1, SubSeqEmpty
    <3> HIDE DEF p
    <3> QED BY <1>2, <3>2, ExpMaEmpty DEF InnerTail
  <2>2. IsEma(NoEma, <<>>, p)
    BY <1>2, <2>0 DEF IsEma, NoEma
  <2>3. IsDema(NoDema, <<>>, p)
    BY <2>1, <2>2 DEF IsDema, NoDema
  <2>4. NewColumn(spec) = NoDema
    BY <1>8 DEF NewColumn
  <2>5. Compute(spec, <<>>) = DoubleEma(<<>>, p)
    BY <1>5, <1>8 DEF Compute, Values
  <2>6. DoubleEma(<<>>, p) = <<>>
    BY DEF DoubleEma
  <2> QED BY <1>8, <2>3, <2>4, <2>5, <2>6 DEF Follows
<1>9. ASSUME spec.kind = "rsi" PROVE Goal
  <2>0. p \in Nat \ {0}
    BY <1>1, <1>9
  <2>1. Gains(<<>>) = <<>> /\ Losses(<<>>) = <<>>
    BY <1>2, NoMoves
  <2>2. IsRsi(NoRsi, <<>>, p)
    BY <1>2, <2>0, <2>1 DEF IsRsi, NoRsi, IsPrevious
  <2>3. NewColumn(spec) = NoRsi
    BY <1>9 DEF NewColumn
  <2>4. Compute(spec, <<>>) = Rsi(<<>>, p)
    BY <1>5, <1>9 DEF Compute, Values
  <2>5. Rsi(<<>>, p) = <<>>
    BY DEF Rsi
  <2> QED BY <1>9, <2>2, <2>3, <2>4, <2>5 DEF Follows
<1>10. ASSUME spec.kind \in {"log", "simple"} PROVE Goal
  <2>1. IsPrevious(None, <<>>)
    BY DEF IsPrevious
  <2>2. NewColumn(spec).prev = None
    BY <1>10 DEF NewColumn
  <2>3. Compute(spec, <<>>) = Returns(<<>>, spec.kind)
    BY <1>5, <1>10 DEF Compute, Values
  <2>4. Returns(<<>>, spec.kind) = <<>>
    BY DEF Returns
  <2> QED BY <1>10, <2>1, <2>2, <2>3, <2>4 DEF Follows
<1>11. ASSUME spec.kind = "vol" PROVE Goal
  <2>0. p \in Nat \ {0}
    BY <1>1, <1>11
  <2>1. LogReturns(<<>>) = <<>>
    <3>1. 0 \in Nat /\ Len(<<>>) = 0 /\ \A f : f \in Seq(Terms(f, 0)) /\ Len(f) = 0 => f = <<>>
      OBVIOUS
    <3> QED BY <1>2, <3>1, GainsType
  <2>2. IsVolatility(NoVolatility, <<>>, p)
    BY <1>3, <2>0, <2>1 DEF IsVolatility, NoVolatility, IsPrevious
  <2>3. NewColumn(spec) = NoVolatility
    BY <1>11 DEF NewColumn
  <2>4. Compute(spec, <<>>) = Volatility(<<>>, p)
    BY <1>5, <1>11 DEF Compute, Values
  <2>5. Volatility(<<>>, p) = <<>>
    BY DEF Volatility
  <2> QED BY <1>11, <2>2, <2>3, <2>4, <2>5 DEF Follows
<1>12. Goal
  <2> HIDE DEF Goal
  <2> QED BY <1>1, <1>6, <1>7, <1>8, <1>9, <1>10, <1>11, Zenon DEF SpecKinds
<1> QED BY <1>12
=============================================================================
