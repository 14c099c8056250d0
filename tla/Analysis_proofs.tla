--------------------------- MODULE Analysis_proofs ---------------------------
(***************************************************************************)
(* The chain of Analysis for every query, source, table and bound: each    *)
(* stage, fed row by row, holds at any moment what its batch form makes of *)
(* all that it was fed, and the stages together what the whole chain makes *)
(* of the rows read so far.                                                *)
(***************************************************************************)
EXTENDS Analysis, Calc_proofs

-----------------------------------------------------------------------------
(***************************************************************************)
(* Quotients.  Divisor is a recursive function of two arguments: that it   *)
(* is one takes another that satisfies its equation.                       *)
(***************************************************************************)
Common(n, d) == {k \in 1..d : n % k = 0 /\ d % k = 0}

LEMMA MultipleMod ==
  ASSUME NEW w \in Nat \ {0}, NEW c \in Int
  PROVE  (w * c) % w = 0
<1>1. w * c \in Int
  OBVIOUS
<1>2. PICK r \in Int : r = (w * c) % w
  BY <1>1
<1>3. PICK q \in Int : q = (w * c) \div w
  BY <1>1
<1>4. w * c = w * q + r /\ 0 <= r /\ r < w
  BY <1>1, <1>2, <1>3
<1>5. w * c - w * q = w * (c - q)
  BY Multiples
<1>6. c - q = 0
  <2>1. CASE c - q >= 1
    <3>1. w * (c - q) >= w
      BY <2>1
    <3> QED BY <1>4, <1>5, <3>1
  <2>2. CASE c - q <= -1
    <3>1. w * (c - q) <= -w
      BY <2>2
    <3> QED BY <1>4, <1>5, <3>1
  <2> QED BY <2>1, <2>2
<1> QED BY <1>2, <1>4, <1>5, <1>6

\* What divides the divisor divides the dividend if it divides the rest.
LEMMA DividesRest ==
  ASSUME NEW n \in Int, NEW d \in Nat \ {0}, NEW k \in Nat \ {0}, d % k = 0
  PROVE  n % k = 0 <=> (n % d) % k = 0
<1>1. PICK b \in Int : d = k * b
  <2>1. d \in Int
    OBVIOUS
  <2> QED BY <2>1, WholeMultiple
<1>2. PICK r \in Int : r = n % d
  OBVIOUS
<1>3. PICK q \in Int : q = n \div d
  OBVIOUS
<1>4. n = d * q + r
  BY <1>2, <1>3
<1>5. d * q = k * (b * q) /\ b * q \in Int
  BY <1>1
<1>6. ASSUME n % k = 0 PROVE r % k = 0
  <2>1. PICK a \in Int : n = k * a
    BY <1>6, WholeMultiple
  <2>2. r = k * (a - b * q)
    <3> DEFINE c == b * q
    <3>1. c \in Int /\ n = k * c + r
      BY <1>4, <1>5
    <3> HIDE DEF c
    <3>2. k * a - k * c = k * (a - c)
      BY <3>1, Multiples
    <3>3. r = k * (a - c)
      BY <2>1, <3>1, <3>2
    <3> QED BY <3>3 DEF c
  <2>3. a - b * q \in Int
    BY <1>5
  <2> QED BY <2>2, <2>3, MultipleMod
<1>7. ASSUME r % k = 0 PROVE n % k = 0
  <2>1. PICK a \in Int : r = k * a
    BY <1>7, WholeMultiple
  <2>2. n = k * (b * q + a)
    <3> DEFINE c == b * q
    <3>1. c \in Int /\ n = k * c + r
      BY <1>4, <1>5
    <3> HIDE DEF c
    <3>2. k * c + k * a = k * (c + a)
      BY <3>1, Multiples
    <3>3. n = k * (c + a)
      BY <2>1, <3>1, <3>2
    <3> QED BY <3>3 DEF c
  <2>3. b * q + a \in Int
    BY <1>5
  <2> QED BY <2>2, <2>3, MultipleMod
<1> QED BY <1>2, <1>6, <1>7

LEMMA MaxAt ==
  ASSUME NEW S, S \subseteq Int, NEW m \in S, \A k \in S : k <= m
  PROVE  Max(S) = m
<1>1. ASSUME NEW x \in S, \A k \in S : x >= k PROVE x = m
  BY <1>1
<1>2. \A k \in S : m >= k
  OBVIOUS
<1> QED BY <1>1, <1>2 DEF Max

\* Divisor satisfies its equation: so does the greatest of the common divisors.
LEMMA DivisorLaw ==
  ASSUME NEW n \in Int, NEW d \in Nat \ {0}
  PROVE  Divisor[<<n, d>>] = IF n % d = 0 THEN d ELSE Divisor[<<d, n % d>>]
<1> DEFINE Pairs == Int \X (Nat \ {0})
           Is(f) == f = [p \in Pairs |-> IF p[1] % p[2] = 0 THEN p[2]
                                       ELSE f[<<p[2], p[1] % p[2]>>]]
           g == [p \in Pairs |-> Max(Common(p[1], p[2]))]
<1>1. ASSUME NEW a \in Int, NEW b \in Nat \ {0}
      PROVE  g[<<a, b>>] = IF a % b = 0 THEN b ELSE g[<<b, a % b>>]
  <2>1. CASE a % b = 0
    <3>1. b \in Common(a, b)
      <4>1. b = b * 1
        OBVIOUS
      <4>2. (b * 1) % b = 0
        BY MultipleMod
      <4>3. b % b = 0
        BY <4>1, <4>2
      <4> QED BY <2>1, <4>3 DEF Common
    <3>2. Common(a, b) \subseteq Int /\ \A k \in Common(a, b) : k <= b
      BY DEF Common
    <3>3. Max(Common(a, b)) = b
      BY <3>1, <3>2, MaxAt
    <3> QED BY <2>1, <3>3
  <2>2. CASE a % b # 0
    <3>1. PICK r \in Int : r = a % b
      OBVIOUS
    <3>2. r \in 1..(b - 1)
      BY <2>2, <3>1
    <3>3. Common(a, b) = Common(b, r)
      <4>1. ASSUME NEW k \in Common(a, b) PROVE k \in Common(b, r)
        <5>1. k \in 1..b /\ a % k = 0 /\ b % k = 0
          BY DEF Common
        <5>2. r % k = 0
          BY <3>1, <5>1, DividesRest
        <5>3. k <= r
          <6>1. PICK c \in Int : r = k * c
            BY <5>1, <5>2, WholeMultiple
          <6>2. c >= 1
            <7>1. CASE c <= 0
              <8>1. k * c <= 0
                BY <5>1, <7>1
              <8> QED BY <3>2, <6>1, <8>1
            <7> QED BY <7>1
          <6>3. k * c >= k
            BY <5>1, <6>2
          <6> QED BY <6>1, <6>3
        <5> QED BY <3>2, <5>1, <5>2, <5>3 DEF Common
      <4>2. ASSUME NEW k \in Common(b, r) PROVE k \in Common(a, b)
        <5>1. k \in 1..r /\ b % k = 0 /\ r % k = 0
          BY DEF Common
        <5>2. k \in Nat \ {0}
          BY <5>1
        <5>3. a % k = 0
          BY <3>1, <5>1, <5>2, DividesRest
        <5> QED BY <3>2, <5>1, <5>3 DEF Common
      <4> QED BY <4>1, <4>2
    <3>4. g[<<b, r>>] = Max(Common(b, r))
      BY <3>2
    <3>5. g[<<a, b>>] = Max(Common(a, b))
      OBVIOUS
    <3> QED BY <2>2, <3>1, <3>3, <3>4, <3>5
  <2> QED BY <2>1, <2>2
<1>2. Is(g)
  <2> DEFINE h == [p \in Pairs |-> IF p[1] % p[2] = 0 THEN p[2] ELSE g[<<p[2], p[1] % p[2]>>]]
  <2>1. ASSUME NEW p \in Pairs PROVE g[p] = h[p]
    <3>1. p = <<p[1], p[2]>> /\ p[1] \in Int /\ p[2] \in Nat \ {0}
      OBVIOUS
    <3> QED BY <1>1, <3>1
  <2>2. g = h
    BY <2>1
  <2> QED BY <2>2
<1>3. Is(Divisor)
  <2>1. \E f : Is(f)
    <3> HIDE DEF Is
    <3> QED BY <1>2
  <2> DEFINE chosen == CHOOSE f : Is(f)
  <2>2. Is(chosen)
    <3> HIDE DEF Is
    <3> QED BY <2>1
  <2>3. Divisor = chosen
    BY DEF Divisor
  <2> HIDE DEF Is, chosen
  <2> QED BY <2>2, <2>3
<1>4. <<n, d>> \in Pairs
  OBVIOUS
<1> HIDE DEF g
<1> QED BY <1>3, <1>4

LEMMA DivisorType ==
  ASSUME NEW n \in Int, NEW d \in Nat \ {0}
  PROVE  Divisor[<<n, d>>] \in 1..d /\ (n > 0 => Divisor[<<n, d>>] <= n)
<1> DEFINE Fits(a, b) == Divisor[<<a, b>>] \in 1..b /\ (a > 0 => Divisor[<<a, b>>] <= a)
           Done == {m \in 0..d : \A b \in 1..m : \A a \in Int : Fits(a, b)}
<1>1. 0 \in Done
  OBVIOUS
<1>2. ASSUME NEW m \in 1..d, m - 1 \in Done
      PROVE  m \in Done
  <2> SUFFICES ASSUME NEW b \in 1..m, NEW a \in Int PROVE Fits(a, b)
    OBVIOUS
  <2>1. CASE b # m
    <3>1. b \in 1..(m - 1)
      BY <2>1
    <3> QED BY <1>2, <3>1
  <2>2. CASE b = m
    <3>1. b \in Nat \ {0}
      OBVIOUS
    <3>2. PICK r \in Int : r = a % b
      BY <3>1
    <3>3. r \in 0..(b - 1) /\ (a > 0 => r <= a)
      <4>1. PICK q \in Int : q = a \div b
        BY <3>1
      <4>2. a = b * q + r /\ 0 <= r /\ r < b
        BY <3>1, <3>2, <4>1
      <4>3. ASSUME a > 0 PROVE r <= a
        <5>1. CASE q < 0
          <6>1. b * q + b <= 0
            BY <3>1, <5>1
          <6> QED BY <4>2, <4>3, <6>1
        <5>2. CASE q >= 0
          <6>1. b * q >= 0
            BY <3>1, <5>2
          <6> QED BY <4>2, <6>1
        <5> QED BY <5>1, <5>2
      <4> QED BY <4>2, <4>3
    <3>4. Divisor[<<a, b>>] = IF r = 0 THEN b ELSE Divisor[<<b, r>>]
      BY <3>1, <3>2, DivisorLaw
    <3>5. CASE r = 0
      <4>1. a > 0 => b <= a
        <5>1. PICK c \in Int : a = b * c
          BY <3>1, <3>2, <3>5, WholeMultiple
        <5>2. ASSUME a > 0 PROVE b <= a
          <6>1. CASE c <= 0
            <7>1. b * c <= 0
              BY <3>1, <6>1
            <7> QED BY <5>1, <5>2, <7>1
          <6>2. CASE c >= 1
            <7>1. b * c >= b
              BY <3>1, <6>2
            <7> QED BY <5>1, <7>1
          <6> QED BY <6>1, <6>2
        <5> QED BY <5>2
      <4> QED BY <3>1, <3>4, <3>5, <4>1
    <3>6. CASE r # 0
      <4>1. r \in 1..(m - 1) /\ b \in Int /\ b > 0
        BY <2>2, <3>1, <3>3, <3>6
      <4>2. Fits(b, r)
        BY <1>2, <4>1
      <4>3. Divisor[<<b, r>>] \in 1..r
        BY <4>2
      <4> HIDE DEF Fits, Done
      <4>4. Divisor[<<a, b>>] \in 1..r
        BY <3>4, <3>6, <4>3
      <4> QED BY <3>3, <4>4 DEF Fits
    <3> QED BY <3>5, <3>6
  <2> QED BY <2>1, <2>2
<1>3. d \in Done
  <2>1. 0..d \subseteq Done
    <3> HIDE DEF Done
    <3> QED BY <1>1, <1>2, Induction
  <2> QED BY <2>1
<1> QED BY <1>3

Rational == [n : Int, d : Nat]
Positive == [n : Nat \ {0}, d : Nat \ {0}]

LEMMA QuotientType ==
  ASSUME NEW n \in Int, NEW d \in Nat
  PROVE  /\ Quotient(n, d) \in Rational
         /\ n > 0 /\ d > 0 => Quotient(n, d) \in Positive
<1>1. CASE d = 0
  BY <1>1 DEF Quotient, NaN, Rational
<1>2. CASE d # 0
  <2> DEFINE k == Divisor[<<n, d>>]
  <2>1. k \in 1..d /\ (n > 0 => k <= n)
    BY <1>2, DivisorType
  <2>2. Quotient(n, d) = [n |-> n \div k, d |-> d \div k]
    BY <1>2 DEF Quotient
  <2> HIDE DEF k
  <2>3. n \div k \in Int /\ d \div k \in Nat \ {0}
    <3>1. k \in Nat \ {0}
      BY <2>1
    <3>2. n \div k \in Int
      BY <3>1
    <3>3. PICK q \in Int : q = d \div k
      BY <3>1
    <3>4. d < k * q + k
      BY <3>1, <3>3, Division
    <3>5. q >= 1
      <4>1. CASE q <= 0
        <5>1. k * q <= 0
          BY <3>1, <4>1
        <5>2. k * q \in Int
          BY <3>1
        <5> QED BY <2>1, <3>4, <5>1, <5>2
      <4> QED BY <4>1
    <3> QED BY <3>2, <3>3, <3>5
  <2>4. n > 0 => n \div k \in Nat \ {0}
    <3> SUFFICES ASSUME n > 0 PROVE n \div k \in Nat \ {0}
      OBVIOUS
    <3>1. k \in Nat \ {0}
      BY <2>1
    <3>3. PICK q \in Int : q = n \div k
      BY <3>1
    <3>4. n < k * q + k
      BY <3>1, <3>3, Division
    <3>5. q >= 1
      <4>1. CASE q <= 0
        <5>1. k * q <= 0
          BY <3>1, <4>1
        <5>2. k * q \in Int
          BY <3>1
        <5> QED BY <2>1, <3>4, <5>1, <5>2
      <4> QED BY <4>1
    <3> QED BY <3>3, <3>5
  <2> QED BY <2>2, <2>3, <2>4 DEF Rational, Positive
<1> QED BY <1>1, <1>2

LEMMA PlusType ==
  ASSUME NEW p \in Rational, NEW q \in Rational
  PROVE  Plus(p, q) \in Rational
<1>1. p.n \in Int /\ p.d \in Nat /\ q.n \in Int /\ q.d \in Nat
  BY DEF Rational
<1>2. p.n * q.d \in Int /\ q.n * p.d \in Int /\ p.d * q.d \in Nat
  BY <1>1
<1>3. p.n * q.d + q.n * p.d \in Int
  BY <1>2
<1> QED BY <1>2, <1>3, QuotientType DEF Plus

LEMMA TimesType ==
  ASSUME NEW p \in Rational, NEW q \in Rational
  PROVE  Times(p, q) \in Rational
<1>1. p.n \in Int /\ p.d \in Nat /\ q.n \in Int /\ q.d \in Nat
  BY DEF Rational
<1>2. p.n * q.n \in Int /\ p.d * q.d \in Nat
  BY <1>1
<1> QED BY <1>2, QuotientType DEF Times

LEMMA TimesPositive ==
  ASSUME NEW p \in Positive, NEW q \in Positive
  PROVE  Times(p, q) \in Positive
<1>1. p.n \in Nat \ {0} /\ p.d \in Nat \ {0} /\ q.n \in Nat \ {0} /\ q.d \in Nat \ {0}
  BY DEF Positive
<1>2. p.n * q.n \in Nat \ {0} /\ p.d * q.d \in Nat \ {0}
  <2>1. \A a, b \in Nat \ {0} : a * b \in Nat \ {0}
    BY MultipleMod
  <2> QED BY <1>1, <2>1
<1>3. p.n * q.n \in Int /\ p.n * q.n > 0 /\ p.d * q.d \in Nat /\ p.d * q.d > 0
  BY <1>2
<1> QED BY <1>3, QuotientType DEF Times

-----------------------------------------------------------------------------
(***************************************************************************)
(* The actions of a symbol.                                                *)
(***************************************************************************)
LEMMA MaxIs ==
  ASSUME NEW N \in Nat, NEW S, S \subseteq 0..N, S # {}
  PROVE  Max(S) \in S /\ \A k \in S : k <= Max(S)
<1> DEFINE T == {N - k : k \in S}
<1>1. T \subseteq Nat /\ T # {}
  <2>1. \A k \in S : N - k \in Nat
    OBVIOUS
  <2>2. PICK k : k \in S
    OBVIOUS
  <2>3. N - k \in T
    BY <2>2
  <2> QED BY <2>1, <2>3
<1>2. PICK l \in T : \A n \in T : l <= n
  <2> HIDE DEF T
  <2> QED BY <1>1, LeastElement
<1>3. PICK m \in S : l = N - m
  BY <1>2
<1>4. \A k \in S : k <= m
  <2> TAKE k \in S
  <2>1. N - k \in T /\ k \in Int /\ m \in Int
    OBVIOUS
  <2>2. l <= N - k
    BY <1>2, <2>1
  <2> QED BY <1>3, <2>1, <2>2
<1>5. S \subseteq Int
  OBVIOUS
<1> QED BY <1>4, <1>5, MaxAt

Action == [time : Int, ratio : Positive, amount : Nat]

Sorted(actions) == \A i, j \in 1..Len(actions) : i < j => actions[i].time <= actions[j].time

\* How many of the actions are behind a row.
Past(actions, t) == Max({0} \cup {j \in DOMAIN actions : actions[j].time <= t})

LEMMA PastIs ==
  ASSUME NEW actions \in Seq(Action), NEW t \in Int
  PROVE  /\ Past(actions, t) \in 0..Len(actions)
         /\ Past(actions, t) # 0 => actions[Past(actions, t)].time <= t
         /\ \A j \in 1..Len(actions) : actions[j].time <= t => j <= Past(actions, t)
<1> DEFINE S == {0} \cup {j \in DOMAIN actions : actions[j].time <= t}
<1>1. PICK N \in Nat : N = Len(actions)
  OBVIOUS
<1>2. S \subseteq 0..N /\ S # {}
  BY <1>1
<1>3. Max(S) \in S /\ \A k \in S : k <= Max(S)
  <2> HIDE DEF S
  <2> QED BY <1>1, <1>2, MaxIs
<1>4. Past(actions, t) = Max(S)
  BY DEF Past
<1>5. PICK m \in S : m = Max(S) /\ \A k \in S : k <= m
  BY <1>3
<1>6. \A j \in 1..Len(actions) : actions[j].time <= t => j <= m
  BY <1>5
<1>7. m \in 0..Len(actions) /\ (m # 0 => actions[m].time <= t)
  BY <1>1
<1> QED BY <1>4, <1>5, <1>6, <1>7

LEMMA PastUnique ==
  ASSUME NEW actions \in Seq(Action), NEW t \in Int, NEW m \in 0..Len(actions),
         m # 0 => actions[m].time <= t,
         \A j \in 1..Len(actions) : actions[j].time <= t => j <= m
  PROVE  Past(actions, t) = m
<1> DEFINE p == Past(actions, t)
<1>1. PICK N \in Nat : N = Len(actions)
  OBVIOUS
<1>2. /\ p \in 0..N /\ (p # 0 => actions[p].time <= t)
      /\ \A j \in 1..N : actions[j].time <= t => j <= p
  BY <1>1, PastIs
<1> HIDE DEF p
<1>3. p <= m
  BY <1>1, <1>2
<1>4. m <= p
  BY <1>1, <1>2
<1>5. p = m
  BY <1>1, <1>2, <1>3, <1>4
<1> QED BY <1>5 DEF p

LEMMA PastOrder ==
  ASSUME NEW actions \in Seq(Action), NEW t \in Int, NEW u \in Int, t <= u
  PROVE  Past(actions, t) <= Past(actions, u)
<1> DEFINE p == Past(actions, t)
           q == Past(actions, u)
<1>1. PICK N \in Nat : N = Len(actions)
  OBVIOUS
<1>2. p \in 0..N /\ (p # 0 => actions[p].time <= t)
  BY <1>1, PastIs
<1>3. q \in 0..N /\ \A j \in 1..N : actions[j].time <= u => j <= q
  BY <1>1, PastIs
<1> HIDE DEF p, q
<1>4. CASE p # 0
  <2>0. p \in 1..N
    BY <1>2, <1>4
  <2>2. actions[p] \in Action
    BY <1>1, <2>0
  <2>1. actions[p].time \in Int /\ p \in 1..N
    BY <2>0, <2>2 DEF Action
  <2> QED BY <1>2, <1>3, <1>4, <2>1 DEF p, q
<1>5. CASE p = 0
  BY <1>3, <1>5 DEF p, q
<1> QED BY <1>4, <1>5

LEMMA ActionOfType ==
  ASSUME NEW spec \in ActionSpec
  PROVE  ActionOf(spec) \in Action
<1>1. /\ spec.date \in Nat /\ spec.split \in Nat /\ spec.reverse_split \in Nat
      /\ spec.dividend \in Nat
  BY DEF ActionSpec
<1>2. Day * spec.date \in Int
  BY <1>1, HoursType
<1>3. One \in Positive /\ \A n \in Nat \ {0} : Whole(n) \in Positive
  BY DEF One, Whole, Positive
<1>4. \A n \in Nat \ {0} : Quotient(1, n) \in Positive
  BY QuotientType
<1>5. CASE spec.split # 0
  BY <1>1, <1>2, <1>3, <1>5 DEF ActionOf, Action
<1>6. CASE spec.split = 0 /\ spec.reverse_split # 0
  BY <1>1, <1>2, <1>4, <1>6 DEF ActionOf, Action
<1>7. CASE spec.split = 0 /\ spec.reverse_split = 0
  BY <1>1, <1>2, <1>3, <1>7 DEF ActionOf, Action
<1> QED BY <1>5, <1>6, <1>7

\* Behind those of its date and before.
LEMMA SortedInLaw ==
  ASSUME NEW actions \in Seq(Action), Sorted(actions), NEW action \in Action
  PROVE  SortedIn(actions, action) \in Seq(Action) /\ Sorted(SortedIn(actions, action))
<1> DEFINE p == Past(actions, action.time)
           a == SubSeq(actions, 1, p)
           c == SubSeq(actions, p + 1, Len(actions))
           r == SortedIn(actions, action)
<1>1. PICK N \in Nat : N = Len(actions)
  OBVIOUS
<1>2. action.time \in Int /\ \A i \in 1..N : actions[i] \in Action /\ actions[i].time \in Int
  <2>1. action.time \in Int
    BY DEF Action
  <2>2. ASSUME NEW i \in 1..N PROVE actions[i] \in Action /\ actions[i].time \in Int
    <3>1. actions[i] \in Action
      BY <1>1
    <3> QED BY <3>1 DEF Action
  <2> QED BY <2>1, <2>2
<1>3. /\ p \in 0..N /\ (p # 0 => actions[p].time <= action.time)
      /\ \A j \in 1..N : actions[j].time <= action.time => j <= p
  BY <1>1, <1>2, PastIs
<1>4. r = a \o <<action>> \o c
  <2>1. r = InsertAt(actions, p + 1, action)
    BY DEF SortedIn, Past
  <2> HIDE DEF p, r
  <2>2. PICK q : q = p + 1
    OBVIOUS
  <2>3. q - 1 = p
    BY <1>3, <2>2
  <2>4. InsertAt(actions, q, action)
           = SubSeq(actions, 1, q - 1) \o <<action>> \o SubSeq(actions, q, Len(actions))
    BY DEF InsertAt
  <2>5. r = SubSeq(actions, 1, p) \o <<action>> \o SubSeq(actions, q, Len(actions))
    BY <2>1, <2>2, <2>3, <2>4, Zenon
  <2> QED BY <2>2, <2>5
<1> HIDE DEF p, r
<1>5. /\ a \in Seq(Action) /\ Len(a) = p /\ \A i \in 1..p : a[i] = actions[i]
  BY <1>1, <1>2, <1>3
<1>6. /\ c \in Seq(Action) /\ Len(c) = N - p /\ \A i \in 1..(N - p) : c[i] = actions[p + i]
  BY <1>1, <1>2, <1>3
<1> HIDE DEF a, c
<1> DEFINE b == <<action>>
<1>7. b \in Seq(Action) /\ Len(b) = 1 /\ b[1] = action
  OBVIOUS
<1> HIDE DEF b
<1>8. r = a \o b \o c
  BY <1>4 DEF b
<1>9. /\ r \in Seq(Action) /\ Len(r) = N + 1
      /\ \A i \in 1..(N + 1) :
            r[i] = IF i <= p THEN actions[i] ELSE IF i = p + 1 THEN action ELSE actions[i - 1]
  <2> DEFINE ab == a \o b
  <2>1. /\ ab \in Seq(Action) /\ Len(ab) = p + 1
        /\ \A i \in 1..(p + 1) : ab[i] = IF i <= p THEN actions[i] ELSE action
    <3>1. /\ ab \in Seq(Action) /\ Len(ab) = Len(a) + Len(b)
          /\ \A i \in 1..(Len(a) + Len(b)) : ab[i] = IF i <= Len(a) THEN a[i] ELSE b[i - Len(a)]
      BY <1>5, <1>7, ConcatProperties
    <3> HIDE DEF ab
    <3>2. ASSUME NEW i \in 1..(p + 1) PROVE ab[i] = IF i <= p THEN actions[i] ELSE action
      <4>1. ab[i] = IF i <= p THEN a[i] ELSE b[i - p]
        BY <1>3, <1>5, <1>7, <3>1
      <4>2. i > p => i - p = 1
        BY <1>3
      <4>3. i <= p => i \in 1..p
        BY <1>3
      <4> QED BY <1>5, <1>7, <4>1, <4>2, <4>3
    <3> QED BY <1>5, <1>7, <3>1, <3>2
  <2> HIDE DEF ab
  <2>2. r = ab \o c
    BY <1>8 DEF ab
  <2>3. /\ r \in Seq(Action) /\ Len(r) = N + 1
        /\ \A i \in 1..(N + 1) : r[i] = IF i <= p + 1 THEN ab[i] ELSE c[i - (p + 1)]
    BY <1>1, <1>3, <1>6, <2>1, <2>2
  <2>4. ASSUME NEW i \in 1..(N + 1)
        PROVE  r[i] = IF i <= p THEN actions[i] ELSE IF i = p + 1 THEN action ELSE actions[i - 1]
    <3>1. CASE i <= p + 1
      BY <1>3, <2>1, <2>3, <3>1
    <3>2. CASE i > p + 1
      <4>1. i - (p + 1) \in 1..(N - p) /\ p + (i - (p + 1)) = i - 1
        BY <1>1, <1>3, <3>2, SMTT(30)
      <4>2. r[i] = c[i - (p + 1)]
        BY <1>3, <2>3, <3>2
      <4>3. c[i - (p + 1)] = actions[i - 1]
        BY <1>6, <4>1
      <4> QED BY <1>3, <3>2, <4>2, <4>3
    <3> QED BY <1>3, <3>1, <3>2
  <2> QED BY <2>3, <2>4
<1>10. ASSUME NEW i \in 1..(N + 1), NEW j \in 1..(N + 1), i < j
       PROVE  r[i].time <= r[j].time
  <2>1. \A k, l \in 1..N : k < l => actions[k].time <= actions[l].time
    BY <1>1 DEF Sorted
  <2>2. \A k \in 1..N : k > p => actions[k].time > action.time
    BY <1>2, <1>3
  <2>3. \A k \in 1..N : k <= p => actions[k].time <= action.time
    <3> TAKE k \in 1..N
    <3> SUFFICES ASSUME k <= p PROVE actions[k].time <= action.time
      OBVIOUS
    <3>1. p \in 1..N /\ p # 0
      BY <1>3
    <3>2. actions[k].time <= actions[p].time
      BY <1>2, <2>1, <3>1
    <3> QED BY <1>2, <1>3, <3>1, <3>2
  <2>4. CASE j <= p
    <3>1. r[i] = actions[i] /\ r[j] = actions[j] /\ i \in 1..N /\ j \in 1..N
      BY <1>3, <1>9, <1>10, <2>4
    <3> QED BY <1>10, <2>1, <3>1
  <2>5. CASE j = p + 1
    <3>1. r[i] = actions[i] /\ r[j] = action /\ i \in 1..N /\ i <= p
      BY <1>3, <1>9, <1>10, <2>5
    <3> QED BY <2>3, <3>1
  <2>6. CASE j > p + 1
    <3>1. r[j] = actions[j - 1] /\ j - 1 \in 1..N /\ j - 1 > p
      BY <1>3, <1>9, <2>6
    <3>2. CASE i <= p
      <4>1. r[i] = actions[i] /\ i \in 1..N /\ i < j - 1
        BY <1>3, <1>9, <2>6, <3>2
      <4> QED BY <2>1, <3>1, <4>1
    <3>3. CASE i = p + 1
      <4>1. r[i] = action
        BY <1>3, <1>9, <3>3
      <4> QED BY <1>2, <2>2, <3>1, <4>1
    <3>4. CASE i > p + 1
      <4>1. r[i] = actions[i - 1] /\ i - 1 \in 1..N /\ i - 1 < j - 1
        BY <1>3, <1>9, <1>10, <3>4
      <4> QED BY <2>1, <3>1, <4>1
    <3> QED BY <1>3, <3>2, <3>3, <3>4
  <2> QED BY <1>3, <2>4, <2>5, <2>6
<1>11. Sorted(r)
  BY <1>9, <1>10 DEF Sorted
<1> QED BY <1>9, <1>11 DEF r

LEMMA ResolveLaw ==
  ASSUME NEW table, NEW name, SpecsOf(table, name) \in Seq(ActionSpec)
  PROVE  Resolve(table, name) \in Seq(Action) /\ Sorted(Resolve(table, name))
<1> DEFINE N == Len(SpecsOf(table, name))
           Step(i, x) == SortedIn(x, ActionOf(SpecsOf(table, name)[i]))
           Is(f, m) == f = [i \in 0..m |-> IF i = 0 THEN <<>> ELSE Step(i, f[i - 1])]
           Reached == {m \in 0..N : \E f : Is(f, m)}
           g == CHOOSE f : Is(f, N)
<1>1. Resolve(table, name) = g[N]
  BY DEF Resolve
<1> HIDE DEF Step, N, g
<1>2. N \in Nat
  BY DEF N
<1>3. 0 \in Reached
  <2>1. Is([i \in 0..0 |-> <<>>], 0)
    OBVIOUS
  <2>2. \E f : Is(f, 0)
    <3> HIDE DEF Is
    <3> QED BY <2>1
  <2> HIDE DEF Is
  <2> QED BY <1>2, <2>2
<1>4. ASSUME NEW m \in 1..N, m - 1 \in Reached
      PROVE  m \in Reached
  <2>1. PICK f : Is(f, m - 1)
    BY <1>4
  <2> DEFINE h == [i \in 0..m |-> IF i = m THEN Step(m, f[m - 1]) ELSE f[i]]
  <2>2. \A i \in 0..(m - 1) : f[i] = IF i = 0 THEN <<>> ELSE Step(i, f[i - 1])
    BY <2>1
  <2>3. h[m] = Step(m, f[m - 1]) /\ \A i \in 0..(m - 1) : h[i] = f[i]
    BY <1>2
  <2>4. h = [i \in 0..m |-> h[i]]
    OBVIOUS
  <2> HIDE DEF h
  <2>5. ASSUME NEW i \in 0..m
        PROVE  h[i] = IF i = 0 THEN <<>> ELSE Step(i, h[i - 1])
    <3>1. CASE i = m
      <4>1. i # 0 /\ i - 1 \in 0..(m - 1) /\ i - 1 = m - 1
        BY <1>2, <3>1
      <4> QED BY <2>3, <3>1, <4>1
    <3>2. CASE i # m
      <4>1. i \in 0..(m - 1) /\ (i # 0 => i - 1 \in 0..(m - 1))
        BY <1>2, <3>2
      <4> QED BY <2>2, <2>3, <4>1
    <3> QED BY <3>1, <3>2
  <2>6. Is(h, m)
    BY <2>4, <2>5, Zenon
  <2> HIDE DEF Is
  <2> QED BY <1>4, <1>2, <2>6
<1>5. N \in Reached
  <2>1. 0..N \subseteq Reached
    <3> HIDE DEF Reached
    <3> QED BY <1>2, <1>3, <1>4, Induction
  <2> HIDE DEF Reached
  <2> QED BY <1>2, <2>1
<1>6. Is(g, N)
  <2> HIDE DEF Is
  <2> QED BY <1>5 DEF g
<1>7. g[0] = <<>> /\ \A i \in 1..N : g[i] = Step(i, g[i - 1])
  <2>1. \A i \in 0..N : g[i] = IF i = 0 THEN <<>> ELSE Step(i, g[i - 1])
    BY <1>6
  <2>2. 0 \in 0..N /\ \A i \in 1..N : i \in 0..N /\ i # 0
    BY <1>2
  <2> QED BY <2>1, <2>2, Zenon
<1> DEFINE Good == {m \in 0..N : g[m] \in Seq(Action) /\ Sorted(g[m])}
<1>8. 0 \in Good
  <2>1. 0 \in 0..N
    BY <1>2
  <2>2. <<>> \in Seq(Action) /\ Sorted(<<>>)
    BY DEF Sorted
  <2> QED BY <1>7, <2>1, <2>2
<1>9. ASSUME NEW m \in 1..N, m - 1 \in Good
      PROVE  m \in Good
  <2>1. g[m] = SortedIn(g[m - 1], ActionOf(SpecsOf(table, name)[m]))
    BY <1>7 DEF Step
  <2>2. SpecsOf(table, name)[m] \in ActionSpec
    BY DEF N
  <2>3. g[m - 1] \in Seq(Action) /\ Sorted(g[m - 1]) /\ m \in 0..N
    BY <1>2, <1>9
  <2> QED BY <2>1, <2>2, <2>3, ActionOfType, SortedInLaw
<1>10. N \in Good
  <2>1. 0..N \subseteq Good
    <3> HIDE DEF Good
    <3> QED BY <1>2, <1>8, <1>9, Induction
  <2> QED BY <1>2, <2>1
<1> QED BY <1>1, <1>10

\* What is left of the actions from one of them on is what is left from the
\* next on, and that one.
LEMMA SharesLaw ==
  ASSUME NEW actions \in Seq(Action)
  PROVE  /\ SharesFrom(actions, Len(actions) + 1) = One
         /\ \A i \in 1..Len(actions) :
               SharesFrom(actions, i) = Times(SharesFrom(actions, i + 1), actions[i].ratio)
<1> DEFINE N == Len(actions)
           Step(i, x) == Times(x, actions[Len(actions) + 1 - i].ratio)
           Is(f, m) == f = [i \in 0..m |-> IF i = 0 THEN One ELSE Step(i, f[i - 1])]
           Reached == {m \in 0..N : \E f : Is(f, m)}
           g == CHOOSE f : Is(f, N)
<1>1. \A i : SharesFrom(actions, i) = g[N + 1 - i]
  BY DEF SharesFrom
<1> HIDE DEF Step, N, g
<1>2. N \in Nat
  BY DEF N
<1>3. 0 \in Reached
  <2>1. Is([i \in 0..0 |-> One], 0)
    OBVIOUS
  <2>2. \E f : Is(f, 0)
    <3> HIDE DEF Is
    <3> QED BY <2>1
  <2> HIDE DEF Is
  <2> QED BY <1>2, <2>2
<1>4. ASSUME NEW m \in 1..N, m - 1 \in Reached
      PROVE  m \in Reached
  <2>1. PICK f : Is(f, m - 1)
    BY <1>4
  <2> DEFINE h == [i \in 0..m |-> IF i = m THEN Step(m, f[m - 1]) ELSE f[i]]
  <2>2. \A i \in 0..(m - 1) : f[i] = IF i = 0 THEN One ELSE Step(i, f[i - 1])
    BY <2>1
  <2>3. h[m] = Step(m, f[m - 1]) /\ \A i \in 0..(m - 1) : h[i] = f[i]
    BY <1>2
  <2>4. h = [i \in 0..m |-> h[i]]
    OBVIOUS
  <2> HIDE DEF h
  <2>5. ASSUME NEW i \in 0..m
        PROVE  h[i] = IF i = 0 THEN One ELSE Step(i, h[i - 1])
    <3>1. CASE i = m
      <4>1. i # 0 /\ i - 1 \in 0..(m - 1) /\ i - 1 = m - 1
        BY <1>2, <3>1
      <4> QED BY <2>3, <3>1, <4>1
    <3>2. CASE i # m
      <4>1. i \in 0..(m - 1) /\ (i # 0 => i - 1 \in 0..(m - 1))
        BY <1>2, <3>2
      <4> QED BY <2>2, <2>3, <4>1
    <3> QED BY <3>1, <3>2
  <2>6. Is(h, m)
    BY <2>4, <2>5, Zenon
  <2> HIDE DEF Is
  <2> QED BY <1>4, <1>2, <2>6
<1>5. N \in Reached
  <2>1. 0..N \subseteq Reached
    <3> HIDE DEF Reached
    <3> QED BY <1>2, <1>3, <1>4, Induction
  <2> HIDE DEF Reached
  <2> QED BY <1>2, <2>1
<1>6. Is(g, N)
  <2> HIDE DEF Is
  <2> QED BY <1>5 DEF g
<1>7. g[0] = One /\ \A i \in 1..N : g[i] = Step(i, g[i - 1])
  <2>1. \A i \in 0..N : g[i] = IF i = 0 THEN One ELSE Step(i, g[i - 1])
    BY <1>6
  <2>2. 0 \in 0..N /\ \A i \in 1..N : i \in 0..N /\ i # 0
    BY <1>2
  <2> QED BY <2>1, <2>2, Zenon
<1>8. SharesFrom(actions, N + 1) = One
  <2>1. N + 1 - (N + 1) = 0
    BY <1>2
  <2> QED BY <1>1, <1>7, <2>1
<1>9. ASSUME NEW i \in 1..N
      PROVE  SharesFrom(actions, i) = Times(SharesFrom(actions, i + 1), actions[i].ratio)
  <2>1. /\ N + 1 - i \in 1..N /\ N + 1 - (i + 1) = N + 1 - i - 1
        /\ N + 1 - (N + 1 - i) = i
    BY <1>2
  <2>2. g[N + 1 - i] = Times(g[N + 1 - i - 1], actions[N + 1 - (N + 1 - i)].ratio)
    BY <1>7, <2>1 DEF Step, N
  <2>3. SharesFrom(actions, i) = g[N + 1 - i] /\ SharesFrom(actions, i + 1) = g[N + 1 - (i + 1)]
    BY <1>1
  <2> QED BY <2>1, <2>2, <2>3
<1> QED BY <1>8, <1>9 DEF N

LEMMA SharesPositive ==
  ASSUME NEW actions \in Seq(Action), NEW i \in 1..(Len(actions) + 1)
  PROVE  SharesFrom(actions, i) \in Positive
<1>1. PICK N \in Nat : N = Len(actions)
  OBVIOUS
<1> DEFINE Good == {m \in 0..N : SharesFrom(actions, N + 1 - m) \in Positive}
<1>2. 0 \in Good
  <2>1. N + 1 - 0 = N + 1 /\ 0 \in 0..N
    OBVIOUS
  <2>2. One \in Positive
    BY DEF One, Whole, Positive
  <2> QED BY <1>1, <2>1, <2>2, SharesLaw
<1>3. ASSUME NEW m \in 1..N, m - 1 \in Good
      PROVE  m \in Good
  <2>1. PICK k \in 1..N : k = N + 1 - m
    OBVIOUS
  <2>2. SharesFrom(actions, k) = Times(SharesFrom(actions, k + 1), actions[k].ratio)
    BY <1>1, SharesLaw
  <2>3. SharesFrom(actions, N + 1 - (m - 1)) \in Positive /\ N + 1 - (m - 1) = k + 1
    BY <1>3, <2>1
  <2>4. actions[k].ratio \in Positive
    <3>1. actions[k] \in Action
      BY <1>1
    <3> QED BY <3>1 DEF Action
  <2>5. SharesFrom(actions, k) \in Positive
    BY <2>2, <2>3, <2>4, TimesPositive
  <2> QED BY <2>1, <2>5
<1>4. 0..N \subseteq Good
  <2> HIDE DEF Good
  <2> QED BY <1>2, <1>3, Induction
<1>5. PICK m \in 0..N : i = N + 1 - m
  <2>1. N + 1 - i \in 0..N /\ i = N + 1 - (N + 1 - i)
    BY <1>1
  <2> QED BY <2>1
<1> QED BY <1>4, <1>5

FactorsAt(actions, t) ==
    [price |-> Flip(SharesFrom(actions, Past(actions, t) + 1)),
     volume |-> SharesFrom(actions, Past(actions, t) + 1)]

Adjusting(actions, c) == [bounds |-> Adjuster(actions).bounds, cursor |-> c]

LEMMA AdjusterLaw ==
  ASSUME NEW actions \in Seq(Action)
  PROVE  /\ Adjuster(actions) = Adjusting(actions, 1)
         /\ DOMAIN Adjuster(actions).bounds = 1..Len(actions)
         /\ Len(Adjuster(actions).bounds) = Len(actions)
         /\ \A i \in 1..Len(actions) :
               Adjuster(actions).bounds[i]
                  = [time |-> actions[i].time, price |-> Flip(SharesFrom(actions, i)),
                     volume |-> SharesFrom(actions, i)]
<1> DEFINE e(i) == [time |-> actions[i].time, price |-> Flip(SharesFrom(actions, i)),
                    volume |-> SharesFrom(actions, i)]
           b == [i \in 1..Len(actions) |-> e(i)]
<1>1. PICK N \in Nat : N = Len(actions)
  OBVIOUS
<1>2. DOMAIN actions = 1..N
  BY <1>1
<1>3. Adjuster(actions) = [bounds |-> b, cursor |-> 1]
  BY <1>1, <1>2 DEF Adjuster
<1>4. DOMAIN b = 1..N /\ Len(b) = N /\ \A i \in 1..N : b[i] = e(i)
  <2>1. IsColumn(b, N)
    BY <1>1 DEF IsColumn
  <2>2. DOMAIN b = 1..N /\ \A i \in 1..N : b[i] = e(i)
    BY <1>1
  <2> HIDE DEF b
  <2> QED BY <2>1, <2>2, ColumnIsSeq
<1> HIDE DEF b
<1>5. Adjuster(actions).bounds = b
  BY <1>3
<1> QED BY <1>1, <1>3, <1>4, <1>5 DEF Adjusting

\* A cursor that is not past a row's action stands, when it was moved, at the
\* first one after the row.
LEMMA AdvancedLaw ==
  ASSUME NEW actions \in Seq(Action), Sorted(actions), NEW t \in Int,
         NEW c \in 1..(Past(actions, t) + 1)
  PROVE  /\ Advanced(Adjusting(actions, c), t) = Adjusting(actions, Past(actions, t) + 1)
         /\ Factors(Advanced(Adjusting(actions, c), t)) = FactorsAt(actions, t)
<1> DEFINE p == Past(actions, t)
           b == Adjuster(actions).bounds
           adj == Adjusting(actions, c)
           past == {i \in DOMAIN adj.bounds :
                       /\ i >= adj.cursor
                       /\ \A j \in adj.cursor..i : adj.bounds[j].time <= t}
<1>1. PICK N \in Nat : N = Len(actions)
  OBVIOUS
<1>2. p \in 0..N /\ (p # 0 => actions[p].time <= t)
      /\ \A j \in 1..N : actions[j].time <= t => j <= p
  BY <1>1, PastIs
<1>3. c \in 1..(p + 1)
  OBVIOUS
<1> HIDE DEF p
<1>4. /\ DOMAIN b = 1..N /\ Len(b) = N
      /\ \A i \in 1..N : b[i] = [time |-> actions[i].time, price |-> Flip(SharesFrom(actions, i)),
                                 volume |-> SharesFrom(actions, i)]
  BY <1>1, AdjusterLaw
<1> HIDE DEF b
<1>5. adj = [bounds |-> b, cursor |-> c] /\ adj.bounds = b /\ adj.cursor = c
  BY DEF Adjusting, b
<1>6. past = c..p
  <2>1. ASSUME NEW i \in past PROVE i \in c..p
    <3>1. i \in 1..N /\ i >= c /\ \A j \in c..i : b[j].time <= t
      BY <1>4, <1>5
    <3>2. b[i].time <= t
      BY <1>2, <1>3, <3>1
    <3>3. actions[i].time <= t
      BY <1>4, <3>1, <3>2
    <3>4. i <= p
      BY <1>2, <3>1, <3>3
    <3> QED BY <1>2, <1>3, <3>1, <3>4
  <2>2. ASSUME NEW i \in c..p PROVE i \in past
    <3>1. i \in 1..N /\ i >= c /\ p \in 1..N /\ p # 0
      BY <1>2, <1>3
    <3>2. ASSUME NEW j \in c..i PROVE b[j].time <= t
      <4>1. j \in 1..N /\ j <= p
        BY <1>2, <1>3, <3>1
      <4>2. actions[j].time \in Int /\ actions[p].time \in Int
        <5>1. actions[j] \in Action /\ actions[p] \in Action
          BY <1>1, <3>1, <4>1
        <5> QED BY <5>1 DEF Action
      <4>3. actions[j].time <= actions[p].time
        BY <1>1, <3>1, <4>1, <4>2 DEF Sorted
      <4>4. actions[p].time <= t
        BY <1>2, <3>1
      <4>5. actions[j].time <= t
        BY <4>2, <4>3, <4>4
      <4> QED BY <1>4, <4>1, <4>5
    <3> QED BY <1>4, <1>5, <3>1, <3>2
  <2> QED BY <2>1, <2>2
<1> DEFINE moved == Advanced(adj, t)
<1>7. moved = [bounds |-> b, cursor |-> p + 1]
  <2>1. moved = [adj EXCEPT !.cursor = IF past = {} THEN @ ELSE Max(past) + 1]
    BY DEF Advanced
  <2> HIDE DEF moved, past, adj
  <2>2. moved = [bounds |-> b, cursor |-> IF past = {} THEN c ELSE Max(past) + 1]
    BY <1>5, <2>1
  <2>3. CASE c = p + 1
    <3>1. c..p = {}
      BY <1>2, <2>3
    <3> QED BY <1>6, <2>2, <2>3, <3>1
  <2>4. CASE c # p + 1
    <3>1. p \in c..p /\ c..p \subseteq Int /\ \A k \in c..p : k <= p
      BY <1>2, <1>3, <2>4
    <3>2. Max(c..p) = p
      BY <3>1, MaxAt
    <3> QED BY <1>6, <2>2, <3>1, <3>2
  <2> QED BY <2>3, <2>4
<1>8. Factors(moved) = [price |-> Flip(SharesFrom(actions, p + 1)),
                        volume |-> SharesFrom(actions, p + 1)]
  <2>1. moved.bounds = b /\ moved.cursor = p + 1
    BY <1>7
  <2> HIDE DEF moved
  <2>2. CASE p = N
    <3>1. SharesFrom(actions, p + 1) = One
      BY <1>1, <2>2, SharesLaw
    <3>2. Flip(One) = One
      BY DEF Flip, One, Whole
    <3>3. moved.cursor > Len(moved.bounds)
      BY <1>4, <2>1, <2>2
    <3> QED BY <3>1, <3>2, <3>3 DEF Factors
  <2>3. CASE p # N
    <3>1. p + 1 \in 1..N /\ ~(moved.cursor > Len(moved.bounds))
      BY <1>2, <1>4, <2>1, <2>3
    <3>2. b[p + 1].price = Flip(SharesFrom(actions, p + 1))
          /\ b[p + 1].volume = SharesFrom(actions, p + 1)
      BY <1>4, <3>1
    <3> QED BY <2>1, <3>1, <3>2 DEF Factors
  <2> QED BY <2>2, <2>3
<1> QED BY <1>7, <1>8 DEF p, b, Adjusting, FactorsAt

Ascending(bars) ==
    \A i, j \in 1..Len(bars) : i < j => bars[i].time <= bars[j].time

Adjusted(actions, bars) ==
    [i \in DOMAIN bars |-> ScaledBar(bars[i], FactorsAt(actions, bars[i].time))]

\* Backwards over the series, as adjust_bars goes, each bar finds as many
\* actions left as are behind it.
LEMMA AdjustBarsLaw ==
  ASSUME NEW actions \in Seq(Action), NEW S, NEW bars \in Seq(S),
         \A i \in 1..Len(bars) : bars[i].time \in Int, Ascending(bars)
  PROVE  AdjustBars(bars, actions) = Adjusted(actions, bars)
<1> DEFINE N == Len(bars)
           Step(i, x) == Max({0} \cup {j \in 1..x : actions[j].time <= bars[Len(bars) + 1 - i].time})
           Is(f, m) == f = [i \in 0..m |-> IF i = 0 THEN Len(actions) ELSE Step(i, f[i - 1])]
           Reached == {m \in 0..N : \E f : Is(f, m)}
           g == CHOOSE f : Is(f, N)
           shares == [i \in DOMAIN bars |-> SharesFrom(actions, g[N + 1 - i] + 1)]
<1>1. AdjustBars(bars, actions)
         = [i \in DOMAIN bars |->
               ScaledBar(bars[i], [price |-> Flip(shares[i]), volume |-> shares[i]])]
  BY DEF AdjustBars
<1> HIDE DEF Step, N, g, shares
<1>2. N \in Nat
  BY DEF N
<1>3. 0 \in Reached
  <2>1. Is([i \in 0..0 |-> Len(actions)], 0)
    OBVIOUS
  <2>2. \E f : Is(f, 0)
    <3> HIDE DEF Is
    <3> QED BY <2>1
  <2> HIDE DEF Is
  <2> QED BY <1>2, <2>2
<1>4. ASSUME NEW m \in 1..N, m - 1 \in Reached
      PROVE  m \in Reached
  <2>1. PICK f : Is(f, m - 1)
    BY <1>4
  <2> DEFINE h == [i \in 0..m |-> IF i = m THEN Step(m, f[m - 1]) ELSE f[i]]
  <2>2. \A i \in 0..(m - 1) : f[i] = IF i = 0 THEN Len(actions) ELSE Step(i, f[i - 1])
    BY <2>1
  <2>3. h[m] = Step(m, f[m - 1]) /\ \A i \in 0..(m - 1) : h[i] = f[i]
    BY <1>2
  <2>4. h = [i \in 0..m |-> h[i]]
    OBVIOUS
  <2> HIDE DEF h
  <2>5. ASSUME NEW i \in 0..m
        PROVE  h[i] = IF i = 0 THEN Len(actions) ELSE Step(i, h[i - 1])
    <3>1. CASE i = m
      <4>1. i # 0 /\ i - 1 \in 0..(m - 1) /\ i - 1 = m - 1
        BY <1>2, <3>1
      <4> QED BY <2>3, <3>1, <4>1
    <3>2. CASE i # m
      <4>1. i \in 0..(m - 1) /\ (i # 0 => i - 1 \in 0..(m - 1))
        BY <1>2, <3>2
      <4> QED BY <2>2, <2>3, <4>1
    <3> QED BY <3>1, <3>2
  <2>6. Is(h, m)
    BY <2>4, <2>5, Zenon
  <2> HIDE DEF Is
  <2> QED BY <1>4, <1>2, <2>6
<1>5. N \in Reached
  <2>1. 0..N \subseteq Reached
    <3> HIDE DEF Reached
    <3> QED BY <1>2, <1>3, <1>4, Induction
  <2> HIDE DEF Reached
  <2> QED BY <1>2, <2>1
<1>6. Is(g, N)
  <2> HIDE DEF Is
  <2> QED BY <1>5 DEF g
<1>7. g[0] = Len(actions) /\ \A i \in 1..N : g[i] = Step(i, g[i - 1])
  <2>1. \A i \in 0..N : g[i] = IF i = 0 THEN Len(actions) ELSE Step(i, g[i - 1])
    BY <1>6
  <2>2. 0 \in 0..N /\ \A i \in 1..N : i \in 0..N /\ i # 0
    BY <1>2
  <2> QED BY <2>1, <2>2, Zenon
<1>8. PICK M \in Nat : M = Len(actions)
  OBVIOUS
<1>9. DOMAIN actions = 1..M /\ DOMAIN bars = 1..N
  BY <1>2, <1>8 DEF N
<1> DEFINE Good == {m \in 0..N : m # 0 => g[m] = Past(actions, bars[N + 1 - m].time)}
<1>10. 0 \in Good
  BY <1>2
<1>11. ASSUME NEW m \in 1..N, m - 1 \in Good
       PROVE  m \in Good
  <2>1. PICK k \in 1..N : k = N + 1 - m
    BY <1>2
  <2> DEFINE t == bars[k].time
             before == {j \in 1..M : actions[j].time <= t}
  <2>2. t \in Int
    BY <2>1 DEF N
  <2>3. g[m] = Max({0} \cup {j \in 1..g[m - 1] : actions[j].time <= t})
    BY <1>7, <2>1 DEF Step, N
  <2>4. Past(actions, t) = Max({0} \cup before)
    BY <1>9 DEF Past
  <2>5. {j \in 1..g[m - 1] : actions[j].time <= t} = before
    <3>1. CASE m = 1
      <4>1. g[m - 1] = M
        BY <1>7, <1>8, <3>1
      <4> QED BY <4>1
    <3>2. CASE m # 1
      <4>1. PICK l \in 1..N : l = N + 1 - (m - 1)
        BY <1>2, <3>2
      <4>2. g[m - 1] = Past(actions, bars[l].time)
        BY <1>2, <1>11, <3>2, <4>1
      <4>3. bars[l].time \in Int /\ t <= bars[l].time
        <5>1. k < l
          BY <1>2, <2>1, <4>1
        <5> QED BY <4>1, <5>1, <2>1 DEF Ascending, N
      <4> DEFINE q == g[m - 1]
      <4> HIDE DEF t
      <4>4. q \in 0..M /\ \A j \in 1..M : actions[j].time <= bars[l].time => j <= q
        BY <1>8, <4>2, <4>3, PastIs
      <4>5. \A j \in 1..M : actions[j].time <= t => j <= q
        <5> SUFFICES ASSUME NEW j \in 1..M, actions[j].time <= t PROVE j <= q
          OBVIOUS
        <5>1. actions[j].time \in Int
          <6>1. actions[j] \in Action
            BY <1>8
          <6> QED BY <6>1 DEF Action
        <5>2. actions[j].time <= bars[l].time
          BY <2>2, <4>3, <5>1
        <5> QED BY <4>4, <5>2
      <4> HIDE DEF q
      <4>6. {j \in 1..q : actions[j].time <= t} = {j \in 1..M : actions[j].time <= t}
        BY <1>8, <4>4, <4>5
      <4> QED BY <4>6 DEF q
    <3> QED BY <3>1, <3>2
  <2>6. g[m] = Past(actions, bars[N + 1 - m].time)
    BY <2>1, <2>3, <2>4, <2>5
  <2> QED BY <2>6
<1>12. 0..N \subseteq Good
  <2> HIDE DEF Good
  <2> QED BY <1>2, <1>10, <1>11, Induction
<1>13. ASSUME NEW i \in DOMAIN bars
       PROVE  [price |-> Flip(shares[i]), volume |-> shares[i]] = FactorsAt(actions, bars[i].time)
  <2>1. PICK m \in 1..N : m = N + 1 - i /\ i = N + 1 - m
    <3>1. i \in 1..N
      BY <1>9
    <3>2. N + 1 - i \in 1..N /\ i = N + 1 - (N + 1 - i)
      BY <1>2, <3>1
    <3> QED BY <3>2
  <2>2. g[m] = Past(actions, bars[i].time)
    <3>1. m \in Good /\ m # 0
      BY <1>2, <1>12
    <3> QED BY <2>1, <3>1
  <2>3. shares[i] = SharesFrom(actions, Past(actions, bars[i].time) + 1)
    BY <2>1, <2>2 DEF shares
  <2> QED BY <2>3 DEF FactorsAt
<1> QED BY <1>1, <1>13 DEF Adjusted

-----------------------------------------------------------------------------
(***************************************************************************)
(* The resampler and the filler.                                           *)
(***************************************************************************)
LEMMA MaxPair ==
  ASSUME NEW a \in Int, NEW b \in Int
  PROVE  Max({a, b}) = IF a >= b THEN a ELSE b
<1>1. {a, b} \subseteq Int /\ a \in {a, b} /\ b \in {a, b}
  OBVIOUS
<1>2. CASE a >= b
  <2>1. \A k \in {a, b} : k <= a
    BY <1>2
  <2> QED BY <1>1, <1>2, <2>1, MaxAt
<1>3. CASE ~(a >= b)
  <2>1. \A k \in {a, b} : k <= b
    BY <1>3
  <2> QED BY <1>1, <1>3, <2>1, MaxAt
<1> QED BY <1>2, <1>3

LEMMA MinPair ==
  ASSUME NEW a \in Int, NEW b \in Int
  PROVE  Min({a, b}) = IF a <= b THEN a ELSE b
<1>1. {a, b} \subseteq Int /\ a \in {a, b} /\ b \in {a, b}
  OBVIOUS
<1>2. CASE a <= b
  <2>1. \A k \in {a, b} : a <= k
    BY <1>2
  <2> QED BY <1>1, <1>2, <2>1, MinAt
<1>3. CASE ~(a <= b)
  <2>1. \A k \in {a, b} : b <= k
    BY <1>3
  <2> QED BY <1>1, <1>3, <2>1, MinAt
<1> QED BY <1>2, <1>3

PartType == [open : Int, high : Int, low : Int, close : Int, volume : Nat,
             mass : Rational, trades : Nat]
AccType == [time : Int, part : PartType]
BarType == [time : Int, open : Int, high : Int, low : Int, close : Int, volume : Nat,
            vwap : Rational, trades : Nat]
InputType == [time : Int, part : PartType]

LEMMA WholeType == \A n \in Int : Whole(n) \in Rational
BY DEF Whole, Rational

LEMMA PartTypes ==
  /\ \A tick : tick.price \in Nat /\ tick.size \in Nat => TickPart(tick) \in PartType
  /\ \A bar \in BarType : BarPart(bar) \in PartType
<1>1. ASSUME NEW tick, tick.price \in Nat, tick.size \in Nat
      PROVE  TickPart(tick) \in PartType
  <2>1. tick.price * tick.size \in Int /\ tick.price \in Int
    BY <1>1
  <2> QED BY <1>1, <2>1, WholeType DEF TickPart, PartType
<1>2. ASSUME NEW bar \in BarType
      PROVE  BarPart(bar) \in PartType
  <2>1. /\ bar.open \in Int /\ bar.high \in Int /\ bar.low \in Int /\ bar.close \in Int
        /\ bar.volume \in Nat /\ bar.vwap \in Rational /\ bar.trades \in Nat
    BY DEF BarType
  <2>2. 0 \in Int /\ bar.volume \in Int
    BY <2>1
  <2>3. PriceMass(bar) \in Rational
    BY <2>1, <2>2, WholeType, TimesType DEF PriceMass
  <2> QED BY <2>1, <2>3 DEF BarPart, PartType
<1> QED BY <1>1, <1>2

LEMMA UpdatedType ==
  ASSUME NEW acc \in AccType, NEW part \in PartType
  PROVE  Updated(acc, part) \in AccType /\ Updated(acc, part).time = acc.time
<1> DEFINE p == acc.part
<1>1. acc.time \in Int /\ p \in PartType
  BY DEF AccType
<1> HIDE DEF p
<1>2. /\ p.open \in Int /\ p.high \in Int /\ p.low \in Int /\ p.close \in Int
      /\ p.volume \in Nat /\ p.mass \in Rational /\ p.trades \in Nat
  BY <1>1 DEF PartType
<1>3. /\ part.open \in Int /\ part.high \in Int /\ part.low \in Int /\ part.close \in Int
      /\ part.volume \in Nat /\ part.mass \in Rational /\ part.trades \in Nat
  BY DEF PartType
<1>4. Max({p.high, part.high}) \in Int /\ Min({p.low, part.low}) \in Int
  BY <1>2, <1>3, MaxPair, MinPair
<1>5. Plus(p.mass, part.mass) \in Rational
  BY <1>2, <1>3, PlusType
<1>6. p.volume + part.volume \in Nat /\ p.trades + part.trades \in Nat
  BY <1>2, <1>3
<1> DEFINE next == [open |-> p.open, high |-> Max({p.high, part.high}),
                    low |-> Min({p.low, part.low}), close |-> part.close,
                    volume |-> p.volume + part.volume,
                    mass |-> Plus(p.mass, part.mass), trades |-> p.trades + part.trades]
<1>7. next \in PartType
  BY <1>2, <1>3, <1>4, <1>5, <1>6 DEF PartType
<1>8. Updated(acc, part) = [time |-> acc.time, part |-> next]
  BY DEF Updated, p
<1> HIDE DEF next
<1> QED BY <1>1, <1>7, <1>8 DEF AccType

LEMMA ClosedType ==
  ASSUME NEW acc \in AccType
  PROVE  Closed(acc) \in BarType /\ Closed(acc).time = acc.time
<1> DEFINE p == acc.part
           vwap == IF p.volume = 0 THEN NaN ELSE Times(p.mass, Quotient(1, p.volume))
<1>1. acc.time \in Int /\ p \in PartType
  BY DEF AccType
<1>2. Closed(acc) = [time |-> acc.time, open |-> p.open, high |-> p.high, low |-> p.low,
                     close |-> p.close, volume |-> p.volume, vwap |-> vwap,
                     trades |-> p.trades]
  BY DEF Closed
<1> HIDE DEF p
<1>3. /\ p.open \in Int /\ p.high \in Int /\ p.low \in Int /\ p.close \in Int
      /\ p.volume \in Nat /\ p.mass \in Rational /\ p.trades \in Nat
  BY <1>1 DEF PartType
<1>4. NaN \in Rational
  BY DEF NaN, Rational
<1>5. Times(p.mass, Quotient(1, p.volume)) \in Rational
  <2>1. Quotient(1, p.volume) \in Rational
    BY <1>3, QuotientType
  <2> QED BY <1>3, <2>1, TimesType
<1>6. vwap \in Rational
  BY <1>4, <1>5
<1> HIDE DEF vwap
<1> QED BY <1>1, <1>2, <1>3, <1>6 DEF BarType

\* The resampler after one row more.
ResamplerStep(w, s, before, row) ==
    [res |-> PushRow(w, s, before.res, row.time, row.part).res,
     out |-> before.out \o PushRow(w, s, before.res, row.time, row.part).out]

NoResampling == [res |-> NoBucket, out |-> <<>>]

IsResampler(f, w, s, input) ==
    /\ f[0] = NoResampling
    /\ \A i \in 1..Len(input) : f[i] = ResamplerStep(w, s, f[i - 1], input[i])

LEMMA ResamplerRun ==
  ASSUME NEW w, NEW s, NEW input, Len(input) \in Nat
  PROVE  \E f : IsResampler(f, w, s, input) /\ ResamplerOver(w, s, input) = f[Len(input)]
<1> DEFINE N == Len(input)
           Step(i, x) == ResamplerStep(w, s, x, input[i])
           Is(f, m) == f = [i \in 0..m |-> IF i = 0 THEN NoResampling ELSE Step(i, f[i - 1])]
           Reached == {m \in 0..N : \E f : Is(f, m)}
           g == CHOOSE f : Is(f, N)
<1>1. ResamplerOver(w, s, input) = g[N]
  BY DEF ResamplerOver, ResamplerStep, NoResampling
<1> HIDE DEF Step, N, g
<1>2. N \in Nat
  BY DEF N
<1>3. 0 \in Reached
  <2>1. Is([i \in 0..0 |-> NoResampling], 0)
    OBVIOUS
  <2>2. \E f : Is(f, 0)
    <3> HIDE DEF Is
    <3> QED BY <2>1
  <2> HIDE DEF Is
  <2> QED BY <1>2, <2>2
<1>4. ASSUME NEW m \in 1..N, m - 1 \in Reached
      PROVE  m \in Reached
  <2>1. PICK f : Is(f, m - 1)
    BY <1>4
  <2> DEFINE h == [i \in 0..m |-> IF i = m THEN Step(m, f[m - 1]) ELSE f[i]]
  <2>2. \A i \in 0..(m - 1) : f[i] = IF i = 0 THEN NoResampling ELSE Step(i, f[i - 1])
    BY <2>1
  <2>3. h[m] = Step(m, f[m - 1]) /\ \A i \in 0..(m - 1) : h[i] = f[i]
    BY <1>2
  <2>4. h = [i \in 0..m |-> h[i]]
    OBVIOUS
  <2> HIDE DEF h
  <2>5. ASSUME NEW i \in 0..m
        PROVE  h[i] = IF i = 0 THEN NoResampling ELSE Step(i, h[i - 1])
    <3>1. CASE i = m
      <4>1. i # 0 /\ i - 1 \in 0..(m - 1) /\ i - 1 = m - 1
        BY <1>2, <3>1
      <4> QED BY <2>3, <3>1, <4>1
    <3>2. CASE i # m
      <4>1. i \in 0..(m - 1) /\ (i # 0 => i - 1 \in 0..(m - 1))
        BY <1>2, <3>2
      <4> QED BY <2>2, <2>3, <4>1
    <3> QED BY <3>1, <3>2
  <2>6. Is(h, m)
    BY <2>4, <2>5, Zenon
  <2> HIDE DEF Is
  <2> QED BY <1>4, <1>2, <2>6
<1>5. N \in Reached
  <2>1. 0..N \subseteq Reached
    <3> HIDE DEF Reached
    <3> QED BY <1>2, <1>3, <1>4, Induction
  <2> HIDE DEF Reached
  <2> QED BY <1>2, <2>1
<1>6. Is(g, N)
  <2> HIDE DEF Is
  <2> QED BY <1>5 DEF g
<1>7. g[0] = NoResampling /\ \A i \in 1..N : g[i] = Step(i, g[i - 1])
  <2>1. \A i \in 0..N : g[i] = IF i = 0 THEN NoResampling ELSE Step(i, g[i - 1])
    BY <1>6
  <2>2. 0 \in 0..N /\ \A i \in 1..N : i \in 0..N /\ i # 0
    BY <1>2
  <2> QED BY <2>1, <2>2, Zenon
<1>8. IsResampler(g, w, s, input)
  BY <1>7 DEF IsResampler, Step, N
<1> QED BY <1>1, <1>8 DEF N

LEMMA ResamplerAppend ==
  ASSUME NEW w, NEW s, NEW S, NEW input \in Seq(S), NEW row \in S
  PROVE  /\ ResamplerOver(w, s, <<>>) = NoResampling
         /\ ResamplerOver(w, s, Append(input, row))
               = ResamplerStep(w, s, ResamplerOver(w, s, input), row)
<1>1. ResamplerOver(w, s, <<>>) = NoResampling
  <2>1. Len(<<>>) = 0
    OBVIOUS
  <2>2. PICK f : IsResampler(f, w, s, <<>>) /\ ResamplerOver(w, s, <<>>) = f[0]
    BY <2>1, ResamplerRun
  <2> QED BY <2>2 DEF IsResampler
<1>2. PICK N \in Nat : N = Len(input)
  OBVIOUS
<1> DEFINE more == Append(input, row)
<1>3. Len(more) = N + 1 /\ more[N + 1] = row /\ \A i \in 1..N : more[i] = input[i]
  BY <1>2
<1> HIDE DEF more
<1>4. PICK f : IsResampler(f, w, s, input) /\ ResamplerOver(w, s, input) = f[N]
  BY <1>2, ResamplerRun
<1>5. PICK h : IsResampler(h, w, s, more) /\ ResamplerOver(w, s, more) = h[N + 1]
  <2>1. Len(more) = N + 1 /\ Len(more) \in Nat
    BY <1>3
  <2>2. \E h : IsResampler(h, w, s, more) /\ ResamplerOver(w, s, more) = h[Len(more)]
    BY <2>1, ResamplerRun
  <2> QED BY <2>1, <2>2, Zenon
<1>6. f[N] = h[N]
  <2>1. f[0] = h[0]
    BY <1>4, <1>5 DEF IsResampler
  <2>2. ASSUME NEW n \in 1..N, f[n - 1] = h[n - 1] PROVE f[n] = h[n]
    <3>1. f[n] = ResamplerStep(w, s, f[n - 1], input[n])
      BY <1>2, <1>4 DEF IsResampler
    <3>2. h[n] = ResamplerStep(w, s, h[n - 1], more[n])
      BY <1>3, <1>5 DEF IsResampler
    <3> QED BY <1>3, <2>2, <3>1, <3>2
  <2> QED BY <2>1, <2>2, Determined DEF StepAlike
<1>7. h[N + 1] = ResamplerStep(w, s, h[N], row)
  <2>1. N + 1 \in 1..Len(more) /\ N + 1 - 1 = N
    BY <1>3
  <2>2. h[N + 1] = ResamplerStep(w, s, h[N + 1 - 1], more[N + 1])
    BY <1>5, <2>1 DEF IsResampler
  <2> QED BY <1>3, <2>1, <2>2
<1> QED BY <1>1, <1>4, <1>5, <1>6, <1>7 DEF more

\* At most one bucket is open, its end a width from its start, and it starts
\* behind the bars that were closed.
IsOpen(w, res, out) ==
    \/ res = NoBucket /\ out = <<>>
    \/ \E acc \in AccType : /\ res = [open |-> <<acc>>, end |-> acc.time + w]
                            /\ \A i \in 1..Len(out) : out[i].time <= acc.time

ResamplerFine(w, r) ==
    /\ r.out \in Seq(BarType) /\ Ascending(r.out)
    /\ IsOpen(w, r.res, r.out)

\* A row into the resampler: into the open bucket, or into a new one behind it,
\* and then the old one is what comes out.
LEMMA PushRowLaw ==
  ASSUME NEW w \in 1..Day, NEW s \in Sessions, NEW out \in Seq(BarType), NEW res,
         IsOpen(w, res, out), Ascending(out), NEW row \in InputType
  PROVE  LET r == PushRow(w, s, res, row.time, row.part)
         IN  /\ r.out = <<>> \/ \E bar \in BarType : r.out = <<bar>> /\ r.out = FinishRows(res)
             /\ ResamplerFine(w, [res |-> r.res, out |-> out \o r.out])
<1> DEFINE r == PushRow(w, s, res, row.time, row.part)
           start == BucketStart(w, s, row.time)
           acc == Opened(start, row.part)
           Goal == /\ r.out = <<>> \/ \E bar \in BarType : r.out = <<bar>> /\ r.out = FinishRows(res)
                   /\ ResamplerFine(w, [res |-> r.res, out |-> out \o r.out])
<1>1. row.time \in Int /\ row.part \in PartType /\ w \in Nat \ {0}
  BY HoursType DEF InputType
<1>2. start \in Int /\ start <= row.time /\ row.time < start + w
  BY <1>1, BucketStartBounds
<1> HIDE DEF start
<1>3. acc \in AccType /\ acc.time = start
  BY <1>1, <1>2 DEF Opened, AccType
<1>4. out \o <<>> = out
  OBVIOUS
<1>5. ASSUME res = NoBucket, out = <<>> PROVE Goal
  <2>1. r = [res |-> [open |-> <<acc>>, end |-> start + w], out |-> <<>>]
    BY <1>5 DEF PushRow, NoBucket, FinishRows, NextBucketStart, start
  <2> HIDE DEF r, acc
  <2>2. r.out = <<>> /\ r.res = [open |-> <<acc>>, end |-> acc.time + w]
    BY <1>3, <2>1
  <2>3. \A i \in 1..Len(out) : out[i].time <= acc.time
    <3>1. Len(out) = 0
      BY <1>5
    <3> QED BY <3>1
  <2>4. IsOpen(w, r.res, out)
    BY <1>3, <2>2, <2>3 DEF IsOpen
  <2>5. out \o r.out = out
    BY <1>4, <2>2
  <2>6. ResamplerFine(w, [res |-> r.res, out |-> out])
    BY <2>4 DEF ResamplerFine
  <2> QED BY <2>2, <2>5, <2>6
<1>6. ASSUME NEW old \in AccType, res = [open |-> <<old>>, end |-> old.time + w],
             \A i \in 1..Len(out) : out[i].time <= old.time
      PROVE  Goal
  <2>1. res.open = <<old>> /\ res.end = old.time + w /\ res.open # <<>> /\ res.open[1] = old
    BY <1>6
  <2>2. old.time \in Int
    BY DEF AccType
  <2>3. CASE row.time < res.end
    <3> DEFINE next == Updated(old, row.part)
    <3>1. r = [res |-> [open |-> <<next>>, end |-> old.time + w], out |-> <<>>]
      BY <2>1, <2>3 DEF PushRow
    <3>2. next \in AccType /\ next.time = old.time
      BY <1>1, UpdatedType
    <3> HIDE DEF r, next
    <3>3. r.out = <<>> /\ r.res = [open |-> <<next>>, end |-> next.time + w]
      BY <3>1, <3>2
    <3>4. IsOpen(w, r.res, out)
      BY <1>6, <3>2, <3>3 DEF IsOpen
    <3>5. out \o r.out = out
      BY <1>4, <3>3
    <3>6. ResamplerFine(w, [res |-> r.res, out |-> out])
      BY <3>4 DEF ResamplerFine
    <3> QED BY <3>3, <3>5, <3>6
  <2>4. CASE ~(row.time < res.end)
    <3> DEFINE bar == Closed(old)
    <3>1. FinishRows(res) = <<bar>>
      BY <2>1 DEF FinishRows
    <3>2. r = [res |-> [open |-> <<acc>>, end |-> start + w], out |-> <<bar>>]
      BY <2>1, <2>4, <3>1 DEF PushRow, NextBucketStart, start
    <3>3. bar \in BarType /\ bar.time = old.time
      BY ClosedType
    <3> HIDE DEF r, acc, bar
    <3>4. old.time <= start
      BY <1>1, <1>2, <2>1, <2>2, <2>4
    <3>5. r.out = <<bar>> /\ r.res = [open |-> <<acc>>, end |-> acc.time + w]
      BY <1>3, <3>2
    <3> DEFINE more == Append(out, bar)
    <3>6. out \o r.out = more
      BY <3>3, <3>5, AppendIsConcat
    <3>7. PICK n \in Nat : n = Len(out)
      OBVIOUS
    <3>8. more \in Seq(BarType) /\ Len(more) = n + 1 /\ more[n + 1] = bar
          /\ \A i \in 1..n : more[i] = out[i]
      BY <3>3, <3>7
    <3> HIDE DEF more
    <3>9. \A i \in 1..(n + 1) : more[i].time \in Int /\ more[i].time <= old.time
      <4> TAKE i \in 1..(n + 1)
      <4>1. CASE i = n + 1
        BY <2>2, <3>3, <3>8, <4>1
      <4>2. CASE i # n + 1
        <5>1. i \in 1..n
          BY <4>2
        <5>2. out[i] \in BarType
          BY <3>7, <5>1
        <5> QED BY <1>6, <3>7, <3>8, <5>1, <5>2 DEF BarType
      <4> QED BY <4>1, <4>2
    <3>10. IsOpen(w, r.res, more)
      <4>1. \A i \in 1..Len(more) : more[i].time <= acc.time
        BY <1>2, <1>3, <2>2, <3>4, <3>8, <3>9
      <4> QED BY <1>3, <3>5, <4>1 DEF IsOpen
    <3>11. Ascending(more)
      <4> SUFFICES ASSUME NEW i \in 1..Len(more), NEW j \in 1..Len(more), i < j
                   PROVE  more[i].time <= more[j].time
        BY DEF Ascending
      <4>1. CASE j = n + 1
        BY <3>3, <3>8, <3>9, <4>1
      <4>2. CASE j # n + 1
        <5>1. i \in 1..n /\ j \in 1..n
          BY <3>8, <4>2
        <5> QED BY <3>7, <3>8, <5>1 DEF Ascending
      <4> QED BY <4>1, <4>2
    <3>12. ResamplerFine(w, [res |-> r.res, out |-> more])
      BY <3>8, <3>10, <3>11 DEF ResamplerFine
    <3> QED BY <3>1, <3>3, <3>5, <3>6, <3>12
  <2> QED BY <2>3, <2>4
<1>7. Goal
  <2> HIDE DEF Goal
  <2> QED BY <1>5, <1>6 DEF IsOpen
<1> QED BY <1>7

LEMMA ResamplerType ==
  ASSUME NEW w \in 1..Day, NEW s \in Sessions, NEW input \in Seq(InputType)
  PROVE  ResamplerFine(w, ResamplerOver(w, s, input))
<1> DEFINE Good == {t \in Seq(InputType) : ResamplerFine(w, ResamplerOver(w, s, t))}
<1>1. <<>> \in Good
  <2>1. ResamplerOver(w, s, <<>>) = NoResampling
    <3>1. \A row \in {0} : ResamplerOver(w, s, <<>>) = NoResampling
      <4>1. <<>> \in Seq({0})
        OBVIOUS
      <4> QED BY <4>1, ResamplerAppend
    <3> QED BY <3>1
  <2>2. ResamplerFine(w, NoResampling)
    BY DEF ResamplerFine, NoResampling, IsOpen, Ascending
  <2> QED BY <2>1, <2>2
<1>2. ASSUME NEW t \in Seq(InputType), NEW row \in InputType, t \in Good
      PROVE  Append(t, row) \in Good
  <2> DEFINE o == ResamplerOver(w, s, t)
             r == PushRow(w, s, o.res, row.time, row.part)
  <2>1. ResamplerOver(w, s, Append(t, row)) = [res |-> r.res, out |-> o.out \o r.out]
    <3>1. ResamplerOver(w, s, Append(t, row)) = ResamplerStep(w, s, o, row)
      BY ResamplerAppend
    <3> HIDE DEF o
    <3> QED BY <3>1 DEF ResamplerStep
  <2>2. ResamplerFine(w, o)
    BY <1>2
  <2> HIDE DEF o
  <2>3. o.out \in Seq(BarType) /\ Ascending(o.out) /\ IsOpen(w, o.res, o.out)
    BY <2>2 DEF ResamplerFine
  <2>4. ResamplerFine(w, [res |-> r.res, out |-> o.out \o r.out])
    BY <2>3, PushRowLaw
  <2>5. Append(t, row) \in Seq(InputType)
    OBVIOUS
  <2> HIDE DEF r
  <2> QED BY <2>1, <2>4, <2>5
<1>3. Seq(InputType) \subseteq Good
  <2> HIDE DEF Good
  <2> QED BY <1>1, <1>2, SeqInduction
<1> QED BY <1>3

LEMMA AscendingAppend ==
  ASSUME NEW bars \in Seq(BarType), NEW bar \in BarType
  PROVE  Ascending(Append(bars, bar)) <=>
            Ascending(bars) /\ \A i \in 1..Len(bars) : bars[i].time <= bar.time
<1> DEFINE more == Append(bars, bar)
<1>1. PICK n \in Nat : n = Len(bars)
  OBVIOUS
<1>2. Len(more) = n + 1 /\ more[n + 1] = bar /\ \A i \in 1..n : more[i] = bars[i]
  BY <1>1
<1> HIDE DEF more
<1>3. ASSUME Ascending(more)
      PROVE  Ascending(bars) /\ \A i \in 1..n : bars[i].time <= bar.time
  <2>1. \A i, j \in 1..(n + 1) : i < j => more[i].time <= more[j].time
    BY <1>2, <1>3 DEF Ascending
  <2>2. ASSUME NEW i \in 1..n PROVE bars[i].time <= bar.time
    <3>1. i \in 1..(n + 1) /\ n + 1 \in 1..(n + 1) /\ i < n + 1
      OBVIOUS
    <3>2. more[i].time <= more[n + 1].time
      BY <2>1, <3>1
    <3> QED BY <1>2, <3>2
  <2>3. ASSUME NEW i \in 1..n, NEW j \in 1..n, i < j PROVE bars[i].time <= bars[j].time
    <3>1. i \in 1..(n + 1) /\ j \in 1..(n + 1)
      OBVIOUS
    <3>2. more[i].time <= more[j].time
      BY <2>1, <2>3, <3>1
    <3> QED BY <1>2, <3>2
  <2> QED BY <1>1, <2>2, <2>3 DEF Ascending
<1>4. ASSUME Ascending(bars), \A i \in 1..n : bars[i].time <= bar.time
      PROVE  Ascending(more)
  <2> SUFFICES ASSUME NEW i \in 1..(n + 1), NEW j \in 1..(n + 1), i < j
               PROVE  more[i].time <= more[j].time
    BY <1>2 DEF Ascending
  <2>1. CASE j = n + 1
    <3>1. i \in 1..n
      BY <2>1
    <3> QED BY <1>2, <1>4, <2>1, <3>1
  <2>2. CASE j # n + 1
    <3>1. i \in 1..n /\ j \in 1..n
      BY <2>2
    <3>2. bars[i].time <= bars[j].time
      BY <1>1, <1>4, <3>1 DEF Ascending
    <3> QED BY <1>2, <3>1, <3>2
  <2> QED BY <2>1, <2>2
<1> QED BY <1>1, <1>3, <1>4 DEF more

\* Bars up to some moment, and then bars from it on.
LEMMA AscendingConcat ==
  ASSUME NEW a \in Seq(BarType), NEW b \in Seq(BarType), Ascending(a), Ascending(b),
         NEW t \in Int, \A i \in 1..Len(a) : a[i].time <= t,
         \A i \in 1..Len(b) : t <= b[i].time
  PROVE  Ascending(a \o b)
<1> DEFINE c == a \o b
<1>1. PICK m \in Nat : m = Len(a)
  OBVIOUS
<1>2. PICK n \in Nat : n = Len(b)
  OBVIOUS
<1>3. Len(c) = m + n /\ \A i \in 1..(m + n) : c[i] = IF i <= m THEN a[i] ELSE b[i - m]
  <2>1. Len(c) = Len(a) + Len(b)
        /\ \A i \in 1..(Len(a) + Len(b)) : c[i] = IF i <= Len(a) THEN a[i] ELSE b[i - Len(a)]
    BY ConcatProperties
  <2> HIDE DEF c
  <2> QED BY <1>1, <1>2, <2>1
<1> HIDE DEF c
<1>4. /\ \A i \in 1..m : a[i].time \in Int
      /\ \A i \in 1..n : b[i].time \in Int
  <2>1. ASSUME NEW i \in 1..m PROVE a[i].time \in Int
    <3>1. a[i] \in BarType
      BY <1>1
    <3> QED BY <3>1 DEF BarType
  <2>2. ASSUME NEW i \in 1..n PROVE b[i].time \in Int
    <3>1. b[i] \in BarType
      BY <1>2
    <3> QED BY <3>1 DEF BarType
  <2> QED BY <2>1, <2>2
<1> SUFFICES ASSUME NEW i \in 1..(m + n), NEW j \in 1..(m + n), i < j
             PROVE  c[i].time <= c[j].time
  BY <1>3 DEF Ascending, c
<1>5. CASE j <= m
  <2>1. i \in 1..m /\ j \in 1..m
    BY <1>5
  <2>2. c[i] = a[i] /\ c[j] = a[j]
    BY <1>3, <2>1
  <2>3. a[i].time <= a[j].time
    BY <1>1, <2>1 DEF Ascending
  <2> QED BY <2>2, <2>3
<1>6. CASE i <= m /\ j > m
  <2>1. i \in 1..m /\ j - m \in 1..n
    BY <1>6
  <2>2. c[i] = a[i] /\ c[j] = b[j - m]
    BY <1>3, <1>6
  <2>3. a[i].time <= t /\ t <= b[j - m].time
    BY <1>1, <1>2, <2>1
  <2> QED BY <1>4, <2>1, <2>2, <2>3, SMTT(30)
<1>7. CASE i > m
  <2>1. i - m \in 1..n /\ j - m \in 1..n /\ i - m < j - m
    BY <1>7
  <2>2. c[i] = b[i - m] /\ c[j] = b[j - m]
    BY <1>3, <1>7
  <2>3. b[i - m].time <= b[j - m].time
    BY <1>2, <2>1 DEF Ascending
  <2> QED BY <2>2, <2>3
<1> QED BY <1>5, <1>6, <1>7

\* The filler after one bar more.
FillerStep(w, s, fill, before, bar) ==
    [prev |-> PushBar(w, s, fill, before.prev, bar).prev,
     out |-> before.out \o PushBar(w, s, fill, before.prev, bar).out]

NoFilling == [prev |-> <<>>, out |-> <<>>]

IsFilling(f, w, s, fill, bars) ==
    /\ f[0] = NoFilling
    /\ \A i \in 1..Len(bars) : f[i] = FillerStep(w, s, fill, f[i - 1], bars[i])

LEMMA FillerRun ==
  ASSUME NEW w, NEW s, NEW fill, NEW bars, Len(bars) \in Nat
  PROVE  \E f : IsFilling(f, w, s, fill, bars) /\ FillerOver(w, s, fill, bars) = f[Len(bars)]
<1> DEFINE N == Len(bars)
           Step(i, x) == FillerStep(w, s, fill, x, bars[i])
           Is(f, m) == f = [i \in 0..m |-> IF i = 0 THEN NoFilling ELSE Step(i, f[i - 1])]
           Reached == {m \in 0..N : \E f : Is(f, m)}
           g == CHOOSE f : Is(f, N)
<1>1. FillerOver(w, s, fill, bars) = g[N]
  BY DEF FillerOver, FillerStep, NoFilling
<1> HIDE DEF Step, N, g
<1>2. N \in Nat
  BY DEF N
<1>3. 0 \in Reached
  <2>1. Is([i \in 0..0 |-> NoFilling], 0)
    OBVIOUS
  <2>2. \E f : Is(f, 0)
    <3> HIDE DEF Is
    <3> QED BY <2>1
  <2> HIDE DEF Is
  <2> QED BY <1>2, <2>2
<1>4. ASSUME NEW m \in 1..N, m - 1 \in Reached
      PROVE  m \in Reached
  <2>1. PICK f : Is(f, m - 1)
    BY <1>4
  <2> DEFINE h == [i \in 0..m |-> IF i = m THEN Step(m, f[m - 1]) ELSE f[i]]
  <2>2. \A i \in 0..(m - 1) : f[i] = IF i = 0 THEN NoFilling ELSE Step(i, f[i - 1])
    BY <2>1
  <2>3. h[m] = Step(m, f[m - 1]) /\ \A i \in 0..(m - 1) : h[i] = f[i]
    BY <1>2
  <2>4. h = [i \in 0..m |-> h[i]]
    OBVIOUS
  <2> HIDE DEF h
  <2>5. ASSUME NEW i \in 0..m
        PROVE  h[i] = IF i = 0 THEN NoFilling ELSE Step(i, h[i - 1])
    <3>1. CASE i = m
      <4>1. i # 0 /\ i - 1 \in 0..(m - 1) /\ i - 1 = m - 1
        BY <1>2, <3>1
      <4> QED BY <2>3, <3>1, <4>1
    <3>2. CASE i # m
      <4>1. i \in 0..(m - 1) /\ (i # 0 => i - 1 \in 0..(m - 1))
        BY <1>2, <3>2
      <4> QED BY <2>2, <2>3, <4>1
    <3> QED BY <3>1, <3>2
  <2>6. Is(h, m)
    BY <2>4, <2>5, Zenon
  <2> HIDE DEF Is
  <2> QED BY <1>4, <1>2, <2>6
<1>5. N \in Reached
  <2>1. 0..N \subseteq Reached
    <3> HIDE DEF Reached
    <3> QED BY <1>2, <1>3, <1>4, Induction
  <2> HIDE DEF Reached
  <2> QED BY <1>2, <2>1
<1>6. Is(g, N)
  <2> HIDE DEF Is
  <2> QED BY <1>5 DEF g
<1>7. g[0] = NoFilling /\ \A i \in 1..N : g[i] = Step(i, g[i - 1])
  <2>1. \A i \in 0..N : g[i] = IF i = 0 THEN NoFilling ELSE Step(i, g[i - 1])
    BY <1>6
  <2>2. 0 \in 0..N /\ \A i \in 1..N : i \in 0..N /\ i # 0
    BY <1>2
  <2> QED BY <2>1, <2>2, Zenon
<1>8. IsFilling(g, w, s, fill, bars)
  BY <1>7 DEF IsFilling, Step, N
<1> QED BY <1>1, <1>8 DEF N

LEMMA FillerEmpty == \A w, s, fill : FillerOver(w, s, fill, <<>>) = NoFilling
<1> TAKE w, s, fill
<1>1. Len(<<>>) = 0
  OBVIOUS
<1>2. PICK f : IsFilling(f, w, s, fill, <<>>) /\ FillerOver(w, s, fill, <<>>) = f[0]
  BY <1>1, FillerRun
<1> QED BY <1>2 DEF IsFilling

LEMMA FillerAppend ==
  ASSUME NEW w, NEW s, NEW fill, NEW S, NEW bars \in Seq(S), NEW bar \in S
  PROVE  FillerOver(w, s, fill, Append(bars, bar))
            = FillerStep(w, s, fill, FillerOver(w, s, fill, bars), bar)
<1>2. PICK N \in Nat : N = Len(bars)
  OBVIOUS
<1> DEFINE more == Append(bars, bar)
<1>3. Len(more) = N + 1 /\ more[N + 1] = bar /\ \A i \in 1..N : more[i] = bars[i]
  BY <1>2
<1> HIDE DEF more
<1>4. PICK f : IsFilling(f, w, s, fill, bars) /\ FillerOver(w, s, fill, bars) = f[N]
  BY <1>2, FillerRun
<1>5. PICK h : IsFilling(h, w, s, fill, more) /\ FillerOver(w, s, fill, more) = h[N + 1]
  <2>1. Len(more) = N + 1 /\ Len(more) \in Nat
    BY <1>3
  <2>2. \E h : IsFilling(h, w, s, fill, more) /\ FillerOver(w, s, fill, more) = h[Len(more)]
    BY <2>1, FillerRun
  <2> QED BY <2>1, <2>2, Zenon
<1>6. f[N] = h[N]
  <2>1. f[0] = h[0]
    BY <1>4, <1>5 DEF IsFilling
  <2>2. ASSUME NEW n \in 1..N, f[n - 1] = h[n - 1] PROVE f[n] = h[n]
    <3>1. f[n] = FillerStep(w, s, fill, f[n - 1], bars[n])
      BY <1>2, <1>4 DEF IsFilling
    <3>2. h[n] = FillerStep(w, s, fill, h[n - 1], more[n])
      BY <1>3, <1>5 DEF IsFilling
    <3> QED BY <1>3, <2>2, <3>1, <3>2
  <2> QED BY <2>1, <2>2, Determined DEF StepAlike
<1>7. h[N + 1] = FillerStep(w, s, fill, h[N], bar)
  <2>1. N + 1 \in 1..Len(more) /\ N + 1 - 1 = N
    BY <1>3
  <2>2. h[N + 1] = FillerStep(w, s, fill, h[N + 1 - 1], more[N + 1])
    BY <1>5, <2>1 DEF IsFilling
  <2> QED BY <1>3, <2>1, <2>2
<1> QED BY <1>4, <1>5, <1>6, <1>7 DEF more

\* The bars that come out for one: flat ones between the bar before and it, and
\* then it.
FilledTo(filled, bar) ==
    /\ filled \in Seq(BarType) /\ Ascending(filled)
    /\ \A i \in 1..Len(filled) : filled[i].time <= bar.time

LEMMA PushBarLaw ==
  ASSUME NEW w \in 1..Day, NEW s \in Sessions, NEW fill, NEW bar \in BarType, NEW prev,
         \/ prev = <<>>
         \/ \E b \in BarType : prev = <<b>> /\ b.time <= bar.time
  PROVE  LET p == PushBar(w, s, fill, prev, bar)
         IN  /\ FilledTo(p.out, bar)
             /\ p.prev = <<>> \/ p.prev = <<bar>>
             /\ prev = <<>> \/ ~fill => p.out = <<bar>>
             /\ \A b : prev = <<b>> => \A i \in 1..Len(p.out) : b.time <= p.out[i].time
<1> DEFINE p == PushBar(w, s, fill, prev, bar)
           Goal == /\ FilledTo(p.out, bar)
                   /\ p.prev = <<>> \/ p.prev = <<bar>>
                   /\ prev = <<>> \/ ~fill => p.out = <<bar>>
                   /\ \A b : prev = <<b>> => \A i \in 1..Len(p.out) : b.time <= p.out[i].time
<1>1. bar.time \in Int /\ w \in Nat \ {0}
  BY HoursType DEF BarType
<1> DEFINE one == <<bar>>
<1>2. one \in Seq(BarType) /\ Len(one) = 1 /\ one[1] = bar
  OBVIOUS
<1> HIDE DEF one
<1>3. FilledTo(one, bar)
  BY <1>1, <1>2 DEF FilledTo, Ascending
<1>4. ASSUME ~fill PROVE Goal
  <2>1. p = [prev |-> <<>>, out |-> one]
    BY <1>4 DEF PushBar, one
  <2> HIDE DEF p
  <2>2. p.out = one /\ p.prev = <<>>
    BY <2>1
  <2>3. ASSUME NEW b, prev = <<b>>, NEW i \in 1..Len(one) PROVE b.time <= one[i].time
    <3>1. <<b>> # <<>> /\ \A a : <<a>> = <<b>> => a = b
      OBVIOUS
    <3>2. b.time <= bar.time
      BY <2>3, <3>1
    <3>3. i = 1
      BY <1>2
    <3> QED BY <1>2, <3>2, <3>3
  <2> QED BY <1>3, <2>2, <2>3 DEF one
<1>5. ASSUME fill, prev = <<>> PROVE Goal
  <2> DEFINE flats == [i \in 1..0 |-> FlatBar(prev[1].time + i * w, prev[1].close)]
  <2>1. flats = <<>>
    OBVIOUS
  <2>2. p = [prev |-> one, out |-> flats \o one]
    BY <1>5 DEF PushBar, one
  <2> HIDE DEF p, flats
  <2>3. p.out = one /\ p.prev = one
    BY <1>2, <2>1, <2>2
  <2>4. ASSUME NEW b, prev = <<b>> PROVE FALSE
    BY <1>5, <2>4
  <2> QED BY <1>3, <2>3, <2>4 DEF one
<1>6. ASSUME fill, NEW b \in BarType, prev = <<b>>, b.time <= bar.time PROVE Goal
  <2>1. b.time \in Int /\ b.close \in Int
    BY DEF BarType
  <2> DEFINE stop == FillStop(w, s, b.time, bar.time)
             k == stop - b.time - 1
             empty == Max({0, k \div w})
             flats == [i \in 1..empty |-> FlatBar(b.time + i * w, b.close)]
  <2>2. stop \in Int /\ stop <= bar.time
    <3>1. CASE w = Day
      BY <1>1, <3>1 DEF FillStop
    <3>2. CASE w # Day
      <4> DEFINE close == Midnight(b.time) + Hours[s].close
      <4>1. close \in Int
        <5>1. Midnight(b.time) \in Int
          BY <2>1, MidnightBounds
        <5>2. Hours[s].close \in Int
          BY HoursType
        <5> QED BY <5>1, <5>2
      <4>2. stop = Min({bar.time, close})
        BY <3>2 DEF FillStop
      <4> HIDE DEF close, stop
      <4> QED BY <1>1, <4>1, <4>2, MinPair
    <3> QED BY <3>1, <3>2
  <2>3. p = [prev |-> one, out |-> flats \o one]
    <3>1. prev # <<>> /\ prev[1] = b
      BY <1>6
    <3> HIDE DEF p
    <3>2. p = PushBar(w, s, fill, prev, bar)
      BY DEF p
    <3> QED BY <1>6, <3>1, <3>2 DEF PushBar, one
  <2> HIDE DEF stop
  <2>4. k \in Int /\ k < bar.time - b.time
    BY <1>1, <2>1, <2>2
  <2> HIDE DEF k
  <2>5. PICK q \in Int : q = k \div w
    BY <1>1, <2>4, SMTT(30)
  <2>6. w * q <= k /\ w * q \in Int
    BY <1>1, <2>4, <2>5, Division
  <2>7. empty = IF 0 >= q THEN 0 ELSE q
    BY <2>5, MaxPair
  <2>8. empty \in Nat
    BY <2>7
  <2>9. ASSUME NEW i \in 1..empty
        PROVE  b.time + i * w \in Int /\ b.time <= b.time + i * w /\ b.time + i * w <= bar.time
    <3>1. i \in Nat /\ i <= q
      BY <2>7, <2>8
    <3>2. i * w \in Int /\ i * w >= 0 /\ i * w <= w * q
      <4>1. i * w = w * i
        BY <1>1, <3>1
      <4>2. w * i \in Int /\ w * i >= 0
        BY <1>1, <3>1, Multiples
      <4>3. w * i <= w * q
        <5>1. CASE i = q
          BY <2>6, <5>1
        <5>2. CASE i < q
          <6>1. w * i + w <= w * q
            BY <1>1, <3>1, <5>2, Multiples
          <6> QED BY <1>1, <2>6, <4>2, <6>1
        <5> QED BY <3>1, <5>1, <5>2
      <4> QED BY <4>1, <4>2, <4>3
    <3> QED BY <1>1, <2>1, <2>4, <2>6, <3>2
  <2> HIDE DEF empty
  <2> DEFINE flat(i) == FlatBar(b.time + i * w, b.close)
  <2>10. \A i \in 1..empty : flat(i) \in BarType /\ flat(i).time = b.time + i * w
    <3> TAKE i \in 1..empty
    <3>1. PICK t \in Int : t = b.time + i * w
      BY <2>9
    <3>2. flat(i) = FlatBar(t, b.close)
      BY <3>1
    <3>3. Whole(b.close) \in Rational
      BY <2>1, WholeType
    <3>4. FlatBar(t, b.close) \in BarType /\ FlatBar(t, b.close).time = t
      BY <2>1, <3>3 DEF FlatBar, BarType
    <3> HIDE DEF flat
    <3> QED BY <3>1, <3>2, <3>4
  <2>11. Len(flats) = empty /\ flats \in Seq(BarType) /\ \A i \in 1..empty : flats[i] = flat(i)
    <3>1. IsColumn(flats, empty) /\ \A i \in 1..empty : flats[i] = flat(i)
      BY DEF IsColumn
    <3> HIDE DEF flats, flat
    <3>2. \A i \in 1..empty : flats[i] \in BarType
      BY <2>10, <3>1
    <3>3. flats \in Seq(BarType) /\ Len(flats) = empty
      BY <2>8, <3>1, <3>2, ColumnType
    <3> QED BY <3>1, <3>3
  <2> HIDE DEF flats, flat
  <2>12. \A i \in 1..empty : /\ flats[i].time = b.time + i * w
                             /\ b.time <= flats[i].time /\ flats[i].time <= bar.time
    BY <2>9, <2>10, <2>11
  <2>13. Ascending(flats)
    <3> SUFFICES ASSUME NEW i \in 1..empty, NEW j \in 1..empty, i < j
                 PROVE  flats[i].time <= flats[j].time
      BY <2>11 DEF Ascending
    <3>1. i \in Nat /\ j \in Nat
      BY <2>8
    <3>2. w * i + w <= w * j /\ w * i \in Int /\ w * j \in Int
      BY <1>1, <3>1, Multiples
    <3>3. i * w = w * i /\ j * w = w * j
      BY <1>1, <3>1
    <3>4. b.time + i * w <= b.time + j * w
      BY <1>1, <2>1, <3>2, <3>3
    <3>5. flats[i].time = b.time + i * w /\ flats[j].time = b.time + j * w
      BY <2>12
    <3> QED BY <3>4, <3>5
  <2> DEFINE all == Append(flats, bar)
  <2>14. flats \o one = all
    BY <2>11, AppendIsConcat DEF one
  <2>15. Len(all) = empty + 1 /\ all \in Seq(BarType) /\ all[empty + 1] = bar
         /\ \A i \in 1..empty : all[i] = flats[i]
    BY <2>8, <2>11
  <2>16. Ascending(all)
    BY <2>11, <2>12, <2>13, AscendingAppend
  <2> HIDE DEF all
  <2>17. \A i \in 1..Len(all) : b.time <= all[i].time /\ all[i].time <= bar.time
    <3> TAKE i \in 1..Len(all)
    <3>1. CASE i = empty + 1
      BY <1>1, <1>6, <2>15, <3>1
    <3>2. CASE i # empty + 1
      <4>1. i \in 1..empty
        BY <2>8, <2>15, <3>2
      <4> QED BY <2>12, <2>15, <4>1
    <3> QED BY <3>1, <3>2
  <2>18. p.prev = one /\ p.out = all
    BY <2>3, <2>14
  <2> HIDE DEF p
  <2>19. FilledTo(p.out, bar)
    BY <2>15, <2>16, <2>17, <2>18 DEF FilledTo
  <2>20. ASSUME NEW a, prev = <<a>>, NEW i \in 1..Len(p.out)
         PROVE  a.time <= p.out[i].time
    <3>1. a = b
      BY <1>6, <2>20
    <3> QED BY <2>17, <2>18, <2>20, <3>1
  <2>21. prev # <<>>
    BY <1>6
  <2> QED BY <1>6, <2>18, <2>19, <2>20, <2>21 DEF one
<1>7. Goal
  <2> HIDE DEF Goal
  <2> QED BY <1>4, <1>5, <1>6
<1> QED BY <1>7

\* What came out so far: in order, and not past the bars that went in.
FillerFine(f, bars) ==
    /\ f.out \in Seq(BarType) /\ Ascending(f.out)
    /\ \A t \in Int : (\A i \in 1..Len(bars) : bars[i].time <= t)
                         => \A i \in 1..Len(f.out) : f.out[i].time <= t
    /\ \/ f.prev = <<>>
       \/ \E b \in BarType : /\ f.prev = <<b>>
                             /\ \E i \in 1..Len(bars) : bars[i] = b
                             /\ \A i \in 1..Len(f.out) : f.out[i].time <= b.time

LEMMA FillerFineStep ==
  ASSUME NEW w \in 1..Day, NEW s \in Sessions, NEW fill, NEW bars \in Seq(BarType),
         NEW bar \in BarType, Ascending(Append(bars, bar)), NEW f, FillerFine(f, bars)
  PROVE  /\ FillerFine(FillerStep(w, s, fill, f, bar), Append(bars, bar))
         /\ PushBar(w, s, fill, f.prev, bar).out \in Seq(BarType)
<1> DEFINE p == PushBar(w, s, fill, f.prev, bar)
           all == f.out \o p.out
           more == Append(bars, bar)
<1>1. bar.time \in Int /\ \A i \in 1..Len(bars) : bars[i].time <= bar.time
  <2>1. \A i \in 1..Len(bars) : bars[i].time <= bar.time
    BY AscendingAppend
  <2> QED BY <2>1 DEF BarType
<1>2. f.out \in Seq(BarType) /\ Ascending(f.out) /\ \A i \in 1..Len(f.out) : f.out[i].time <= bar.time
  BY <1>1 DEF FillerFine
<1>3. /\ FilledTo(p.out, bar)
      /\ p.prev = <<>> \/ p.prev = <<bar>>
      /\ f.prev = <<>> \/ ~fill => p.out = <<bar>>
      /\ \A b : f.prev = <<b>> => \A i \in 1..Len(p.out) : b.time <= p.out[i].time
  <2>1. \/ f.prev = <<>>
        \/ \E b \in BarType : f.prev = <<b>> /\ b.time <= bar.time
    BY <1>1 DEF FillerFine
  <2> HIDE DEF p
  <2> QED BY <2>1, PushBarLaw DEF p
<1> HIDE DEF p
<1>4. p.out \in Seq(BarType) /\ Ascending(p.out) /\ \A i \in 1..Len(p.out) : p.out[i].time <= bar.time
  BY <1>3 DEF FilledTo
<1>5. Ascending(all)
  <2>1. CASE f.prev = <<>>
    <3> DEFINE one == <<bar>>
    <3>1. p.out = one /\ Len(one) = 1 /\ one[1] = bar
      BY <1>3, <2>1
    <3> HIDE DEF one
    <3>2. \A i \in 1..Len(p.out) : bar.time <= p.out[i].time
      BY <1>1, <3>1
    <3> QED BY <1>1, <1>2, <1>4, <3>2, AscendingConcat
  <2>2. CASE f.prev # <<>>
    <3>1. PICK b \in BarType : f.prev = <<b>> /\ \A i \in 1..Len(f.out) : f.out[i].time <= b.time
      BY <2>2 DEF FillerFine
    <3>2. b.time \in Int
      BY DEF BarType
    <3>3. \A i \in 1..Len(p.out) : b.time <= p.out[i].time
      BY <1>3, <3>1
    <3> QED BY <1>2, <1>4, <3>1, <3>2, <3>3, AscendingConcat
  <2> QED BY <2>1, <2>2
<1>6. PICK m \in Nat : m = Len(f.out)
  BY <1>2
<1>7. PICK n \in Nat : n = Len(p.out)
  BY <1>4
<1>8. /\ all \in Seq(BarType) /\ Len(all) = m + n
      /\ \A i \in 1..(m + n) : all[i] = IF i <= m THEN f.out[i] ELSE p.out[i - m]
  <2>1. /\ all \in Seq(BarType) /\ Len(all) = Len(f.out) + Len(p.out)
        /\ \A i \in 1..(Len(f.out) + Len(p.out)) :
              all[i] = IF i <= Len(f.out) THEN f.out[i] ELSE p.out[i - Len(f.out)]
    BY <1>2, <1>4, ConcatProperties
  <2> HIDE DEF all
  <2> QED BY <1>6, <1>7, <2>1
<1> HIDE DEF all
<1>9. \A i \in 1..Len(all) : all[i].time <= bar.time
  <2> TAKE i \in 1..Len(all)
  <2>1. CASE i <= m
    <3>1. i \in 1..m
      BY <1>8, <2>1
    <3> QED BY <1>2, <1>6, <1>8, <2>1, <3>1
  <2>2. CASE i > m
    <3>1. i - m \in 1..n /\ i \in 1..(m + n)
      BY <1>8, <2>2
    <3>2. all[i] = p.out[i - m]
      BY <1>8, <2>2, <3>1
    <3>3. p.out[i - m].time <= bar.time
      BY <1>4, <1>7, <3>1
    <3> QED BY <3>2, <3>3
  <2> QED BY <1>8, <2>1, <2>2
<1>10. PICK l \in Nat : l = Len(bars)
  OBVIOUS
<1>11. Len(more) = l + 1 /\ more[l + 1] = bar
  BY <1>10
<1> HIDE DEF more
<1> DEFINE next == FillerStep(w, s, fill, f, bar)
<1>12. next.prev = p.prev /\ next.out = all
  BY DEF FillerStep, p, all
<1> HIDE DEF next
<1>13. ASSUME NEW t \in Int, \A i \in 1..Len(more) : more[i].time <= t
       PROVE  \A i \in 1..Len(all) : all[i].time <= t
  <2>1. l + 1 \in 1..Len(more)
    BY <1>11
  <2>2. bar.time <= t
    BY <1>11, <1>13, <2>1
  <2>3. \A i \in 1..Len(all) : all[i].time \in Int
    <3> TAKE i \in 1..Len(all)
    <3>1. all[i] \in BarType
      BY <1>8
    <3> QED BY <3>1 DEF BarType
  <2> QED BY <1>1, <1>9, <2>2, <2>3
<1>14. \/ next.prev = <<>>
       \/ \E b \in BarType : /\ next.prev = <<b>>
                             /\ \E i \in 1..Len(more) : more[i] = b
                             /\ \A i \in 1..Len(next.out) : next.out[i].time <= b.time
  <2>1. l + 1 \in 1..Len(more)
    BY <1>11
  <2>2. \E i \in 1..Len(more) : more[i] = bar
    BY <1>11, <2>1
  <2> QED BY <1>3, <1>9, <1>12, <2>2
<1>15. FillerFine(next, more)
  BY <1>5, <1>8, <1>12, <1>13, <1>14 DEF FillerFine
<1> QED BY <1>4, <1>15 DEF next, more, p

LEMMA FillerType ==
  ASSUME NEW w \in 1..Day, NEW s \in Sessions, NEW fill, NEW bars \in Seq(BarType),
         Ascending(bars)
  PROVE  FillerFine(FillerOver(w, s, fill, bars), bars)
<1> DEFINE Good == {t \in Seq(BarType) : Ascending(t) => FillerFine(FillerOver(w, s, fill, t), t)}
<1>1. <<>> \in Good
  <2>1. FillerFine(NoFilling, <<>>)
    <3>1. <<>> \in Seq(BarType) /\ Len(<<>>) = 0
      OBVIOUS
    <3> QED BY <3>1 DEF FillerFine, NoFilling, Ascending
  <2>2. FillerOver(w, s, fill, <<>>) = NoFilling
    BY FillerEmpty
  <2>3. <<>> \in Seq(BarType)
    OBVIOUS
  <2> QED BY <2>1, <2>2, <2>3
<1>2. ASSUME NEW t \in Seq(BarType), NEW bar \in BarType, t \in Good
      PROVE  Append(t, bar) \in Good
  <2>1. Append(t, bar) \in Seq(BarType)
    OBVIOUS
  <2>2. ASSUME Ascending(Append(t, bar))
        PROVE  FillerFine(FillerOver(w, s, fill, Append(t, bar)), Append(t, bar))
    <3>1. Ascending(t)
      BY <2>2, AscendingAppend
    <3>2. FillerFine(FillerOver(w, s, fill, t), t)
      BY <1>2, <3>1
    <3>3. FillerOver(w, s, fill, Append(t, bar))
             = FillerStep(w, s, fill, FillerOver(w, s, fill, t), bar)
      BY FillerAppend
    <3>4. FillerFine(FillerStep(w, s, fill, FillerOver(w, s, fill, t), bar), Append(t, bar))
      BY <2>2, <3>2, FillerFineStep
    <3> QED BY <3>3, <3>4
  <2> QED BY <2>1, <2>2
<1>3. Seq(BarType) \subseteq Good
  <2> HIDE DEF Good
  <2> QED BY <1>1, <1>2, SeqInduction
<1> QED BY <1>3

-----------------------------------------------------------------------------
(***************************************************************************)
(* The adjuster, the indicator, the window and the footer: a row for each  *)
(* bar that comes out of the filler.                                       *)
(***************************************************************************)
BarsOf(list) == [i \in DOMAIN list |-> list[i].bar]
ValuesOf(list) == [i \in DOMAIN list |-> list[i].value]
ClosesOf(list) == {list[i].bar.close : i \in DOMAIN list}
Valued(list) == RowsAt(list, {i \in DOMAIN list : list[i].value # None})

ScaledBars(actions) == {ScaledBar(b, FactorsAt(actions, b.time)) : b \in BarType}

LEMMA ScaledCloses ==
  ASSUME NEW actions \in Seq(Action), NEW bar \in ScaledBars(actions)
  PROVE  bar.close \in Int
<1>1. PICK b \in BarType : bar = ScaledBar(b, FactorsAt(actions, b.time))
  BY DEF ScaledBars
<1>2. b.time \in Int /\ b.close \in Int
  BY DEF BarType
<1> DEFINE c == Past(actions, b.time) + 1
           shares == SharesFrom(actions, c)
<1>3. c \in 1..(Len(actions) + 1)
  <2>1. PICK N \in Nat : N = Len(actions)
    OBVIOUS
  <2>2. Past(actions, b.time) \in 0..N
    BY <1>2, <2>1, PastIs
  <2> QED BY <2>1, <2>2
<1>4. FactorsAt(actions, b.time).price = Flip(shares)
  BY DEF FactorsAt
<1> HIDE DEF c
<1>5. shares \in Positive
  BY <1>3, SharesPositive
<1> HIDE DEF shares
<1>6. Flip(shares).n \in Nat /\ Flip(shares).d \in Nat \ {0}
  BY <1>5 DEF Flip, Positive
<1>7. bar.close = ScalePrice(b.close, Flip(shares))
  BY <1>1, <1>4 DEF ScaledBar
<1>8. \A n \in Nat, d \in Nat \ {0} : (b.close * n) \div d \in Int
  BY <1>2
<1> QED BY <1>6, <1>7, <1>8 DEF ScalePrice

LEMMA AdjustedAppend ==
  ASSUME NEW actions \in Seq(Action), NEW bars \in Seq(BarType), NEW bar \in BarType
  PROVE  /\ Adjusted(actions, bars) \in Seq(ScaledBars(actions))
         /\ Len(Adjusted(actions, bars)) = Len(bars)
         /\ ScaledBar(bar, FactorsAt(actions, bar.time)) \in ScaledBars(actions)
         /\ Adjusted(actions, Append(bars, bar))
               = Append(Adjusted(actions, bars), ScaledBar(bar, FactorsAt(actions, bar.time)))
<1> DEFINE e(b) == ScaledBar(b, FactorsAt(actions, b.time))
           more == Append(bars, bar)
           f == Adjusted(actions, bars)
           g == Adjusted(actions, more)
<1>1. PICK n \in Nat : n = Len(bars)
  OBVIOUS
<1>2. DOMAIN bars = 1..n /\ \A i \in 1..n : bars[i] \in BarType
  BY <1>1
<1>3. /\ DOMAIN more = 1..(n + 1) /\ more[n + 1] = bar
      /\ \A i \in 1..n : more[i] = bars[i]
  BY <1>1
<1> HIDE DEF more
<1>4. /\ \A i \in 1..n : f[i] = e(bars[i])
      /\ \A i \in 1..(n + 1) : g[i] = e(more[i])
  BY <1>2, <1>3 DEF Adjusted
<1>5. IsColumn(f, n) /\ IsColumn(g, n + 1)
  BY <1>2, <1>3 DEF Adjusted, IsColumn
<1> HIDE DEF f, g
<1>6. \A b \in BarType : e(b) \in ScaledBars(actions)
  BY DEF ScaledBars
<1> HIDE DEF e
<1>7. \A i \in 1..n : f[i] \in ScaledBars(actions)
  BY <1>2, <1>4, <1>6
<1>8. f \in Seq(ScaledBars(actions)) /\ Len(f) = n
  BY <1>5, <1>7, ColumnType
<1>9. n + 1 \in 1..(n + 1) /\ \A i \in 1..n : i \in 1..(n + 1)
  OBVIOUS
<1>10. \A i \in 1..n : g[i] = f[i]
  BY <1>3, <1>4, <1>9
<1>11. g[n + 1] = e(bar)
  BY <1>3, <1>4, <1>9
<1>12. g = Append(f, e(bar))
  BY <1>5, <1>10, <1>11, GrownByOne
<1> QED BY <1>1, <1>6, <1>8, <1>12 DEF e, f, g, more

LEMMA FieldsAppend ==
  ASSUME NEW S, NEW list \in Seq(S), NEW row \in S
  PROVE  /\ BarsOf(Append(list, row)) = Append(BarsOf(list), row.bar)
         /\ ValuesOf(Append(list, row)) = Append(ValuesOf(list), row.value)
         /\ ClosesOf(Append(list, row)) = ClosesOf(list) \cup {row.bar.close}
<1> DEFINE more == Append(list, row)
<1>1. PICK n \in Nat : n = Len(list)
  OBVIOUS
<1>2. DOMAIN list = 1..n
  BY <1>1
<1>3. /\ DOMAIN more = 1..(n + 1) /\ more[n + 1] = row
      /\ \A i \in 1..n : more[i] = list[i]
  BY <1>1
<1> HIDE DEF more
<1>9. n + 1 \in 1..(n + 1) /\ \A i \in 1..n : i \in 1..(n + 1)
  OBVIOUS
<1>4. BarsOf(more) = Append(BarsOf(list), row.bar)
  <2>1. IsColumn(BarsOf(list), n) /\ IsColumn(BarsOf(more), n + 1)
    BY <1>2, <1>3 DEF BarsOf, IsColumn
  <2>2. /\ \A i \in 1..n : BarsOf(list)[i] = list[i].bar
        /\ \A i \in 1..(n + 1) : BarsOf(more)[i] = more[i].bar
    BY <1>2, <1>3 DEF BarsOf
  <2>3. BarsOf(more)[n + 1] = row.bar /\ \A i \in 1..n : BarsOf(more)[i] = BarsOf(list)[i]
    BY <1>3, <1>9, <2>2
  <2>4. BarsOf(more) = Append(BarsOf(list), BarsOf(more)[n + 1])
    BY <2>1, <2>3, GrownByOne
  <2> QED BY <2>3, <2>4
<1>5. ValuesOf(more) = Append(ValuesOf(list), row.value)
  <2>1. IsColumn(ValuesOf(list), n) /\ IsColumn(ValuesOf(more), n + 1)
    BY <1>2, <1>3 DEF ValuesOf, IsColumn
  <2>2. /\ \A i \in 1..n : ValuesOf(list)[i] = list[i].value
        /\ \A i \in 1..(n + 1) : ValuesOf(more)[i] = more[i].value
    BY <1>2, <1>3 DEF ValuesOf
  <2>3. ValuesOf(more)[n + 1] = row.value /\ \A i \in 1..n : ValuesOf(more)[i] = ValuesOf(list)[i]
    BY <1>3, <1>9, <2>2
  <2>4. ValuesOf(more) = Append(ValuesOf(list), ValuesOf(more)[n + 1])
    BY <2>1, <2>3, GrownByOne
  <2> QED BY <2>3, <2>4
<1>6. ClosesOf(more) = ClosesOf(list) \cup {row.bar.close}
  <2>1. ClosesOf(more) = {more[i].bar.close : i \in 1..(n + 1)}
    BY <1>3 DEF ClosesOf
  <2>2. ClosesOf(list) = {list[i].bar.close : i \in 1..n}
    BY <1>2 DEF ClosesOf
  <2>3. ASSUME NEW c \in ClosesOf(more) PROVE c \in ClosesOf(list) \cup {row.bar.close}
    <3>1. PICK i \in 1..(n + 1) : c = more[i].bar.close
      BY <2>1
    <3>2. CASE i = n + 1
      BY <1>3, <3>1, <3>2
    <3>3. CASE i # n + 1
      <4>1. i \in 1..n
        BY <3>3
      <4> QED BY <1>3, <2>2, <3>1, <4>1
    <3> QED BY <3>2, <3>3
  <2>4. ASSUME NEW c \in ClosesOf(list) PROVE c \in ClosesOf(more)
    <3>1. PICK i \in 1..n : c = list[i].bar.close
      BY <2>2
    <3> QED BY <1>3, <1>9, <2>1, <3>1
  <2>5. row.bar.close \in ClosesOf(more)
    BY <1>3, <1>9, <2>1
  <2> QED BY <2>3, <2>4, <2>5
<1> QED BY <1>4, <1>5, <1>6 DEF more

\* The footer of some rows.
IsFooter(f, list) ==
    /\ f.bars = Len(list)
    /\ f.values = ValuesOf(Valued(list))
    /\ list = <<>> => f.first = <<>>
    /\ list # <<>> =>
          /\ f.first = <<list[1].bar.time, list[1].bar.close>>
          /\ f.last = <<list[Len(list)].bar.time, list[Len(list)].bar.close>>
          /\ \E h \in ClosesOf(list) : f.high = <<h>> /\ \A k \in ClosesOf(list) : k <= h
          /\ \E l \in ClosesOf(list) : f.low = <<l>> /\ \A k \in ClosesOf(list) : l <= k

LEMMA ValuedAppend ==
  ASSUME NEW S, NEW list \in Seq(S), NEW row \in S
  PROVE  ValuesOf(Valued(Append(list, row)))
            = IF row.value = None THEN ValuesOf(Valued(list))
              ELSE Append(ValuesOf(Valued(list)), row.value)
<1> DEFINE more == Append(list, row)
           P == {i \in DOMAIN more : more[i].value # None}
           Q == {i \in DOMAIN list : list[i].value # None}
<1>1. PICK n \in Nat : n = Len(list)
  OBVIOUS
<1>2. DOMAIN list = 1..n
  BY <1>1
<1>3. /\ DOMAIN more = 1..(n + 1) /\ more[n + 1] = row
      /\ \A i \in 1..n : more[i] = list[i]
  BY <1>1
<1>4. Valued(list) = RowsAt(list, Q) /\ Valued(more) = RowsAt(more, P)
  BY DEF Valued
<1> HIDE DEF more
<1>5. \A i \in 1..n : i \in P <=> i \in Q
  BY <1>2, <1>3
<1>6. n + 1 \in P <=> row.value # None
  BY <1>3
<1> HIDE DEF P, Q
<1>7. Valued(more) = IF n + 1 \in P THEN Append(RowsAt(list, Q), row) ELSE RowsAt(list, Q)
  BY <1>1, <1>4, <1>5, RowsAtAppend DEF more
<1>8. RowsAt(list, Q) \in Seq(S)
  BY RowsAtType
<1> DEFINE taken == RowsAt(list, Q)
<1> HIDE DEF taken
<1>9. ValuesOf(Append(taken, row)) = Append(ValuesOf(taken), row.value)
  BY <1>8, FieldsAppend DEF taken
<1> QED BY <1>4, <1>6, <1>7, <1>9 DEF more, taken

LEMMA FooterLaw ==
  ASSUME NEW S, NEW list \in Seq(S), NEW row \in S, \A r \in S : r.bar.close \in Int,
         NEW f, IsFooter(f, list)
  PROVE  IsFooter(PushFooter(f, row.bar, row.value), Append(list, row))
<1> DEFINE more == Append(list, row)
           c == row.bar.close
           t == row.bar.time
           next == PushFooter(f, row.bar, row.value)
           seen == f.first # <<>>
<1>1. PICK n \in Nat : n = Len(list)
  OBVIOUS
<1>2. /\ Len(more) = n + 1 /\ more[n + 1] = row /\ more # <<>>
      /\ \A i \in 1..n : more[i] = list[i]
  BY <1>1
<1>3. ClosesOf(more) = ClosesOf(list) \cup {c}
  BY FieldsAppend
<1>4. ValuesOf(Valued(more)) = IF row.value = None THEN ValuesOf(Valued(list))
                               ELSE Append(ValuesOf(Valued(list)), row.value)
  BY ValuedAppend
<1> HIDE DEF more
<1>5. c \in Int /\ ClosesOf(list) \subseteq Int
  <2>1. ASSUME NEW k \in ClosesOf(list) PROVE k \in Int
    <3>1. PICK i \in DOMAIN list : k = list[i].bar.close
      BY DEF ClosesOf
    <3>2. list[i] \in S
      OBVIOUS
    <3> QED BY <3>1, <3>2
  <2> QED BY <2>1
<1>6. next = [bars |-> f.bars + 1,
              first |-> IF seen THEN f.first ELSE <<t, c>>,
              last |-> <<t, c>>,
              high |-> <<IF seen THEN Max({f.high[1], c}) ELSE c>>,
              low |-> <<IF seen THEN Min({f.low[1], c}) ELSE c>>,
              values |-> IF row.value = <<>> THEN f.values ELSE Append(f.values, row.value)]
  BY DEF PushFooter
<1>7. f.bars = n /\ f.values = ValuesOf(Valued(list))
  BY <1>1 DEF IsFooter
<1> HIDE DEF next
<1>8. next.bars = n + 1 /\ next.last = <<t, c>>
  BY <1>6, <1>7
<1>9. next.values = ValuesOf(Valued(more))
  BY <1>4, <1>6, <1>7 DEF None
<1> HIDE DEF c, t
<1>10. CASE list = <<>>
  <2>1. ~seen /\ n = 0
    BY <1>1, <1>10 DEF IsFooter
  <2>2. next.first = <<t, c>> /\ next.high = <<c>> /\ next.low = <<c>>
    BY <1>6, <2>1
  <2>3. ClosesOf(more) = {c}
    <3>1. ClosesOf(list) = {}
      BY <1>10 DEF ClosesOf
    <3> QED BY <1>3, <3>1
  <2>4. more[1] = row /\ more[Len(more)] = row
    BY <1>2, <2>1
  <2>5. \E h \in ClosesOf(more) : next.high = <<h>> /\ \A k \in ClosesOf(more) : k <= h
    BY <1>5, <2>2, <2>3
  <2>6. \E l \in ClosesOf(more) : next.low = <<l>> /\ \A k \in ClosesOf(more) : l <= k
    BY <1>5, <2>2, <2>3
  <2>7. next.first = <<more[1].bar.time, more[1].bar.close>>
    BY <2>2, <2>4 DEF c, t
  <2>8. next.last = <<more[Len(more)].bar.time, more[Len(more)].bar.close>>
    BY <1>8, <2>4 DEF c, t
  <2> QED BY <1>2, <1>8, <1>9, <2>5, <2>6, <2>7, <2>8 DEF IsFooter, next, more
<1>11. CASE list # <<>>
  <2>1. /\ f.first = <<list[1].bar.time, list[1].bar.close>>
        /\ \E h \in ClosesOf(list) : f.high = <<h>> /\ \A k \in ClosesOf(list) : k <= h
        /\ \E l \in ClosesOf(list) : f.low = <<l>> /\ \A k \in ClosesOf(list) : l <= k
    BY <1>11 DEF IsFooter
  <2>2. seen
    BY <2>1
  <2>3. PICK h \in ClosesOf(list) : f.high = <<h>> /\ \A k \in ClosesOf(list) : k <= h
    BY <2>1
  <2>4. PICK l \in ClosesOf(list) : f.low = <<l>> /\ \A k \in ClosesOf(list) : l <= k
    BY <2>1
  <2>5. f.high[1] = h /\ f.low[1] = l /\ h \in Int /\ l \in Int
    BY <1>5, <2>3, <2>4
  <2>6. next.high = <<IF h >= c THEN h ELSE c>>
    BY <1>5, <1>6, <2>2, <2>5, MaxPair
  <2>7. next.low = <<IF l <= c THEN l ELSE c>>
    BY <1>5, <1>6, <2>2, <2>5, MinPair
  <2>8. \E x \in ClosesOf(more) : next.high = <<x>> /\ \A k \in ClosesOf(more) : k <= x
    <3>1. CASE h >= c
      BY <1>3, <1>5, <2>3, <2>6, <3>1
    <3>2. CASE ~(h >= c)
      <4>1. \A k \in ClosesOf(list) : k <= c
        BY <1>5, <2>3, <2>5, <3>2
      <4> QED BY <1>3, <1>5, <2>6, <3>2, <4>1
    <3> QED BY <3>1, <3>2
  <2>9. \E x \in ClosesOf(more) : next.low = <<x>> /\ \A k \in ClosesOf(more) : x <= k
    <3>1. CASE l <= c
      BY <1>3, <1>5, <2>4, <2>7, <3>1
    <3>2. CASE ~(l <= c)
      <4>1. \A k \in ClosesOf(list) : c <= k
        BY <1>5, <2>4, <2>5, <3>2
      <4> QED BY <1>3, <1>5, <2>7, <3>2, <4>1
    <3> QED BY <3>1, <3>2
  <2>10. more[1] = list[1] /\ more[Len(more)] = row
    <3>1. n # 0
      BY <1>1, <1>11
    <3>2. 1 \in 1..n
      BY <3>1
    <3> QED BY <1>2, <3>2
  <2>11. next.first = <<more[1].bar.time, more[1].bar.close>>
    BY <1>6, <2>1, <2>2, <2>10
  <2>12. next.last = <<more[Len(more)].bar.time, more[Len(more)].bar.close>>
    BY <1>8, <2>10 DEF c, t
  <2> QED BY <1>2, <1>8, <1>9, <2>8, <2>9, <2>11, <2>12 DEF IsFooter, next, more
<1> QED BY <1>10, <1>11

CursorAfter(actions, bars) ==
    IF bars = <<>> THEN 1 ELSE Past(actions, bars[Len(bars)].time) + 1

\* What the stages behind the filler hold after these bars.
Stage(q, s, bars) ==
    /\ IsColumn(s.rows, Len(bars))
    /\ BarsOf(s.rows) = Adjusted(ActionsOf(q), bars)
    /\ ValuesOf(s.rows) = Compute(q.spec, BarsOf(s.rows))
    /\ Follows(q.spec, s.column, Values(q.spec, BarsOf(s.rows)))
    /\ s.adj = Adjusting(ActionsOf(q), CursorAfter(ActionsOf(q), bars))
    /\ s.window = Newest(s.rows, q.limit)
    /\ IsFooter(s.footer, s.rows)

\* What a query that is read satisfies.
Readable(q) ==
    /\ q.width \in 1..Day
    /\ q.limit \in Nat \ {0}
    /\ SpecAccepted(q.spec) /\ q.spec.period \in Nat
    /\ ActionsOf(q) \in Seq(Action) /\ Sorted(ActionsOf(q))

LEMMA EmitLaw ==
  ASSUME NEW q, Readable(q), NEW bars \in Seq(BarType), NEW bar \in BarType,
         Ascending(Append(bars, bar)), NEW s, Stage(q, s, bars)
  PROVE  Stage(q, Emit(q, s, bar), Append(bars, bar))
<1> DEFINE A == ActionsOf(q)
           t == bar.time
           adj == Advanced(s.adj, t)
           scaled == ScaledBar(bar, FactorsAt(A, t))
           u == Update(q.spec, s.column, scaled)
           row == [bar |-> scaled, value |-> u.out]
           list == s.rows
           longer == Append(list, row)
           next == Emit(q, s, bar)
           more == Append(bars, bar)
<1>1. /\ q.limit \in Nat \ {0} /\ SpecAccepted(q.spec) /\ q.spec.period \in Nat
      /\ A \in Seq(Action) /\ Sorted(A)
  BY DEF Readable
<1>2. /\ IsColumn(list, Len(bars))
      /\ BarsOf(list) = Adjusted(A, bars)
      /\ ValuesOf(list) = Compute(q.spec, BarsOf(list))
      /\ Follows(q.spec, s.column, Values(q.spec, BarsOf(list)))
      /\ s.adj = Adjusting(A, CursorAfter(A, bars))
      /\ s.window = Newest(list, q.limit)
      /\ IsFooter(s.footer, list)
  BY DEF Stage
<1>3. PICK n \in Nat : n = Len(bars)
  OBVIOUS
<1>4. t \in Int /\ \A i \in 1..n : bars[i].time \in Int /\ bars[i].time <= t
  <2>1. \A i \in 1..n : bars[i].time <= t
    BY <1>3, AscendingAppend
  <2>2. ASSUME NEW i \in 1..n PROVE bars[i].time \in Int
    <3>1. bars[i] \in BarType
      BY <1>3
    <3> QED BY <3>1 DEF BarType
  <2> QED BY <2>1, <2>2 DEF BarType
<1> HIDE DEF A, t
<1>5. Len(more) = n + 1 /\ more[n + 1] = bar /\ more # <<>> /\ more \in Seq(BarType)
  BY <1>3
<1> HIDE DEF more
<1>6. CursorAfter(A, more) = Past(A, t) + 1
  BY <1>5 DEF CursorAfter, t
<1>7. CursorAfter(A, bars) \in 1..(Past(A, t) + 1)
  <2>1. PICK N \in Nat : N = Len(A)
    BY <1>1
  <2>2. Past(A, t) \in 0..N
    BY <1>1, <1>4, <2>1, PastIs
  <2>3. CASE bars = <<>>
    BY <2>2, <2>3 DEF CursorAfter
  <2>4. CASE bars # <<>>
    <3>1. PICK last : last = bars[n].time
      OBVIOUS
    <3>2. n \in 1..n
      BY <1>3, <2>4
    <3>3. last \in Int /\ last <= t
      BY <1>4, <3>1, <3>2
    <3>4. Past(A, last) \in 0..N /\ Past(A, last) <= Past(A, t)
      BY <1>1, <1>4, <2>1, <3>3, PastIs, PastOrder
    <3>5. CursorAfter(A, bars) = Past(A, last) + 1
      BY <1>3, <2>4, <3>1 DEF CursorAfter
    <3> QED BY <2>2, <3>4, <3>5
  <2> QED BY <2>3, <2>4
<1>8. adj = Adjusting(A, Past(A, t) + 1) /\ Factors(adj) = FactorsAt(A, t)
  BY <1>1, <1>2, <1>4, <1>7, AdvancedLaw
<1>9. next = [adj |-> adj, column |-> u.state, rows |-> longer,
              window |-> Windowed(q, s.window, row),
              footer |-> PushFooter(s.footer, scaled, u.out)]
  <2>1. adj = Advanced(s.adj, bar.time)
    BY DEF t
  <2> HIDE DEF adj
  <2>2. ScaledBar(bar, Factors(adj)) = scaled
    BY <1>8
  <2> HIDE DEF scaled, next
  <2>3. next = Emit(q, s, bar)
    BY DEF next
  <2> QED BY <2>1, <2>2, <2>3 DEF Emit
<1> HIDE DEF adj, next
<1>10. /\ Adjusted(A, bars) \in Seq(ScaledBars(A)) /\ Len(Adjusted(A, bars)) = n
       /\ scaled \in ScaledBars(A)
       /\ Adjusted(A, more) = Append(Adjusted(A, bars), scaled)
  BY <1>1, <1>3, AdjustedAppend DEF t, more
<1> HIDE DEF scaled
<1>11. /\ Follows(q.spec, u.state, Values(q.spec, Append(BarsOf(list), scaled)))
       /\ Compute(q.spec, Append(BarsOf(list), scaled))
             = Append(Compute(q.spec, BarsOf(list)), u.out)
  <2>1. BarsOf(list) \in Seq(ScaledBars(A))
    BY <1>2, <1>10
  <2> QED BY <1>1, <1>2, <1>10, <2>1, UpdateLaw
<1> HIDE DEF u
<1>12. row.bar = scaled /\ row.value = u.out
  OBVIOUS
<1> HIDE DEF row, list
<1>13. list \in Seq(Terms(list, n)) /\ Len(list) = n
  BY <1>2, <1>3, ColumnIsSeq
<1> DEFINE S == Terms(list, n) \cup {row}
<1>14. list \in Seq(S) /\ row \in S
  <2>1. Terms(list, n) \subseteq S /\ row \in S
    OBVIOUS
  <2> HIDE DEF S
  <2> QED BY <1>13, <2>1, SeqMonotonic
<1>15. \A r \in S : r.bar.close \in Int
  <2>1. row.bar.close \in Int
    BY <1>1, <1>10, <1>12, ScaledCloses
  <2>2. ASSUME NEW r \in Terms(list, n) PROVE r.bar.close \in Int
    <3>1. PICK i \in 1..n : r = list[i]
      BY DEF Terms
    <3>2. BarsOf(list)[i] = r.bar
      BY <1>13, <3>1 DEF BarsOf
    <3>3. Adjusted(A, bars)[i] \in ScaledBars(A)
      BY <1>10
    <3>4. r.bar \in ScaledBars(A)
      BY <1>2, <3>2, <3>3
    <3> QED BY <1>1, <3>4, ScaledCloses
  <2> QED BY <2>1, <2>2
<1> HIDE DEF S
<1>16. /\ BarsOf(longer) = Append(BarsOf(list), scaled)
       /\ ValuesOf(longer) = Append(ValuesOf(list), u.out)
  BY <1>12, <1>14, FieldsAppend
<1>17. IsColumn(longer, n + 1)
  <2>1. longer \in Seq(S) /\ Len(longer) = n + 1
    BY <1>13, <1>14
  <2> HIDE DEF longer
  <2>2. longer = [i \in 1..(n + 1) |-> longer[i]]
    BY <2>1
  <2> QED BY <2>2 DEF IsColumn
<1>18. Windowed(q, s.window, row) = Newest(longer, q.limit)
  <2>1. Newest(longer, q.limit)
           = Append(IF Len(Newest(list, q.limit)) = q.limit THEN Tail(Newest(list, q.limit))
                    ELSE Newest(list, q.limit), row)
    BY <1>1, <1>14, NewestAppend
  <2> QED BY <1>2, <2>1 DEF Windowed
<1>19. IsFooter(PushFooter(s.footer, scaled, u.out), longer)
  BY <1>2, <1>12, <1>14, <1>15, FooterLaw
<1> HIDE DEF longer
<1>20. /\ next.rows = longer /\ next.column = u.state /\ next.adj = adj
       /\ next.window = Newest(longer, q.limit)
       /\ IsFooter(next.footer, longer)
  BY <1>9, <1>18, <1>19
<1>21. BarsOf(longer) = Adjusted(A, more)
  BY <1>2, <1>10, <1>16
<1>22. ValuesOf(longer) = Compute(q.spec, BarsOf(longer))
  BY <1>2, <1>11, <1>16
<1>23. Follows(q.spec, next.column, Values(q.spec, BarsOf(longer)))
  BY <1>11, <1>16, <1>20
<1>24. next.adj = Adjusting(A, CursorAfter(A, more))
  BY <1>6, <1>8, <1>20
<1>25. Stage(q, next, more)
  BY <1>5, <1>17, <1>20, <1>21, <1>22, <1>23, <1>24 DEF Stage, A
<1> QED BY <1>25 DEF next, more

IsEmitting(f, q, s, bars) ==
    /\ f[0] = s
    /\ \A i \in 1..Len(bars) : f[i] = Emit(q, f[i - 1], bars[i])

LEMMA EmitAllRun ==
  ASSUME NEW q, NEW s, NEW bars, Len(bars) \in Nat
  PROVE  \E f : IsEmitting(f, q, s, bars) /\ EmitAll(q, s, bars) = f[Len(bars)]
<1> DEFINE N == Len(bars)
           Step(i, x) == Emit(q, x, bars[i])
           Is(f, m) == f = [i \in 0..m |-> IF i = 0 THEN s ELSE Step(i, f[i - 1])]
           Reached == {m \in 0..N : \E f : Is(f, m)}
           g == CHOOSE f : Is(f, N)
<1>1. EmitAll(q, s, bars) = g[N]
  BY DEF EmitAll
<1> HIDE DEF Step, N, g
<1>2. N \in Nat
  BY DEF N
<1>3. 0 \in Reached
  <2>1. Is([i \in 0..0 |-> s], 0)
    OBVIOUS
  <2>2. \E f : Is(f, 0)
    <3> HIDE DEF Is
    <3> QED BY <2>1
  <2> HIDE DEF Is
  <2> QED BY <1>2, <2>2
<1>4. ASSUME NEW m \in 1..N, m - 1 \in Reached
      PROVE  m \in Reached
  <2>1. PICK f : Is(f, m - 1)
    BY <1>4
  <2> DEFINE h == [i \in 0..m |-> IF i = m THEN Step(m, f[m - 1]) ELSE f[i]]
  <2>2. \A i \in 0..(m - 1) : f[i] = IF i = 0 THEN s ELSE Step(i, f[i - 1])
    BY <2>1
  <2>3. h[m] = Step(m, f[m - 1]) /\ \A i \in 0..(m - 1) : h[i] = f[i]
    BY <1>2
  <2>4. h = [i \in 0..m |-> h[i]]
    OBVIOUS
  <2> HIDE DEF h
  <2>5. ASSUME NEW i \in 0..m
        PROVE  h[i] = IF i = 0 THEN s ELSE Step(i, h[i - 1])
    <3>1. CASE i = m
      <4>1. i # 0 /\ i - 1 \in 0..(m - 1) /\ i - 1 = m - 1
        BY <1>2, <3>1
      <4> QED BY <2>3, <3>1, <4>1
    <3>2. CASE i # m
      <4>1. i \in 0..(m - 1) /\ (i # 0 => i - 1 \in 0..(m - 1))
        BY <1>2, <3>2
      <4> QED BY <2>2, <2>3, <4>1
    <3> QED BY <3>1, <3>2
  <2>6. Is(h, m)
    BY <2>4, <2>5, Zenon
  <2> HIDE DEF Is
  <2> QED BY <1>4, <1>2, <2>6
<1>5. N \in Reached
  <2>1. 0..N \subseteq Reached
    <3> HIDE DEF Reached
    <3> QED BY <1>2, <1>3, <1>4, Induction
  <2> HIDE DEF Reached
  <2> QED BY <1>2, <2>1
<1>6. Is(g, N)
  <2> HIDE DEF Is
  <2> QED BY <1>5 DEF g
<1>7. g[0] = s /\ \A i \in 1..N : g[i] = Step(i, g[i - 1])
  <2>1. \A i \in 0..N : g[i] = IF i = 0 THEN s ELSE Step(i, g[i - 1])
    BY <1>6
  <2>2. 0 \in 0..N /\ \A i \in 1..N : i \in 0..N /\ i # 0
    BY <1>2
  <2> QED BY <2>1, <2>2, Zenon
<1>8. IsEmitting(g, q, s, bars)
  BY <1>7 DEF IsEmitting, Step, N
<1> QED BY <1>1, <1>8 DEF N

LEMMA EmitAllEmpty == \A q, s : EmitAll(q, s, <<>>) = s
<1> TAKE q, s
<1>1. Len(<<>>) = 0
  OBVIOUS
<1>2. PICK f : IsEmitting(f, q, s, <<>>) /\ EmitAll(q, s, <<>>) = f[0]
  BY <1>1, EmitAllRun
<1> QED BY <1>2 DEF IsEmitting

LEMMA EmitAllAppend ==
  ASSUME NEW q, NEW s, NEW S, NEW bars \in Seq(S), NEW bar \in S
  PROVE  EmitAll(q, s, Append(bars, bar)) = Emit(q, EmitAll(q, s, bars), bar)
<1>2. PICK N \in Nat : N = Len(bars)
  OBVIOUS
<1> DEFINE more == Append(bars, bar)
<1>3. Len(more) = N + 1 /\ more[N + 1] = bar /\ \A i \in 1..N : more[i] = bars[i]
  BY <1>2
<1> HIDE DEF more
<1>4. PICK f : IsEmitting(f, q, s, bars) /\ EmitAll(q, s, bars) = f[N]
  BY <1>2, EmitAllRun
<1>5. PICK h : IsEmitting(h, q, s, more) /\ EmitAll(q, s, more) = h[N + 1]
  <2>1. Len(more) = N + 1 /\ Len(more) \in Nat
    BY <1>3
  <2>2. \E h : IsEmitting(h, q, s, more) /\ EmitAll(q, s, more) = h[Len(more)]
    BY <2>1, EmitAllRun
  <2> QED BY <2>1, <2>2, Zenon
<1>6. f[N] = h[N]
  <2>1. f[0] = h[0]
    BY <1>4, <1>5 DEF IsEmitting
  <2>2. ASSUME NEW n \in 1..N, f[n - 1] = h[n - 1] PROVE f[n] = h[n]
    <3>1. f[n] = Emit(q, f[n - 1], bars[n])
      BY <1>2, <1>4 DEF IsEmitting
    <3>2. h[n] = Emit(q, h[n - 1], more[n])
      BY <1>3, <1>5 DEF IsEmitting
    <3> QED BY <1>3, <2>2, <3>1, <3>2
  <2> QED BY <2>1, <2>2, Determined DEF StepAlike
<1>7. h[N + 1] = Emit(q, h[N], bar)
  <2>1. N + 1 \in 1..Len(more) /\ N + 1 - 1 = N
    BY <1>3
  <2>2. h[N + 1] = Emit(q, h[N + 1 - 1], more[N + 1])
    BY <1>5, <2>1 DEF IsEmitting
  <2> QED BY <1>3, <2>1, <2>2
<1> QED BY <1>4, <1>5, <1>6, <1>7 DEF more

LEMMA EmitAllLaw ==
  ASSUME NEW q, Readable(q), NEW s, NEW bars \in Seq(BarType), Stage(q, s, bars),
         NEW new \in Seq(BarType), Ascending(bars \o new)
  PROVE  Stage(q, EmitAll(q, s, new), bars \o new)
<1> DEFINE Good == {t \in Seq(BarType) :
                       Ascending(bars \o t) => Stage(q, EmitAll(q, s, t), bars \o t)}
<1>1. <<>> \in Good
  <2>1. bars \o <<>> = bars /\ <<>> \in Seq(BarType)
    OBVIOUS
  <2>2. EmitAll(q, s, <<>>) = s
    BY EmitAllEmpty
  <2> QED BY <2>1, <2>2
<1>2. ASSUME NEW t \in Seq(BarType), NEW bar \in BarType, t \in Good
      PROVE  Append(t, bar) \in Good
  <2> DEFINE a == bars \o t
             b == bars \o Append(t, bar)
  <2>1. b = Append(a, bar) /\ a \in Seq(BarType)
    BY ConcatAppend
  <2>2. ASSUME Ascending(b) PROVE Stage(q, EmitAll(q, s, Append(t, bar)), b)
    <3>1. Ascending(a)
      <4> HIDE DEF a, b
      <4> QED BY <2>1, <2>2, AscendingAppend
    <3>2. Stage(q, EmitAll(q, s, t), a)
      BY <1>2, <3>1
    <3>3. EmitAll(q, s, Append(t, bar)) = Emit(q, EmitAll(q, s, t), bar)
      BY EmitAllAppend
    <3> HIDE DEF a, b
    <3>4. Ascending(Append(a, bar))
      BY <2>1, <2>2
    <3>5. Stage(q, Emit(q, EmitAll(q, s, t), bar), Append(a, bar))
      BY <2>1, <3>2, <3>4, EmitLaw
    <3> QED BY <2>1, <3>3, <3>5
  <2>3. Append(t, bar) \in Seq(BarType)
    OBVIOUS
  <2> QED BY <2>2, <2>3
<1>3. Seq(BarType) \subseteq Good
  <2> HIDE DEF Good
  <2> QED BY <1>1, <1>2, SeqInduction
<1> QED BY <1>3

-----------------------------------------------------------------------------
(***************************************************************************)
(* The whole chain.                                                        *)
(***************************************************************************)
TickType == [time : Instants, price : Nat, size : Nat]

KeptOf(q, list) == RowsAt(list, {i \in DOMAIN list : Kept(q, list[i])})

InputOf(q, list) == [i \in DOMAIN list |-> [time |-> list[i].time, part |-> RowPart(q, list[i])]]

ResamplerOf(q, list) == ResamplerOver(q.width, SessionOf(q), InputOf(q, KeptOf(q, list)))

FillerOf(q, bars) == FillerOver(q.width, SessionOf(q), q.fill, bars)

\* The bars that went into the filler.
Delivered(q, at, list) ==
    IF at = "done" THEN ResamplerOf(q, list).out \o FinishRows(ResamplerOf(q, list).res)
    ELSE ResamplerOf(q, list).out

Held == [adj |-> chain.adj, column |-> chain.column, rows |-> rows,
         window |-> window, footer |-> footer]

\* Each stage holds what its batch form makes of the rows read so far.
Consistent(q, at, list, res, prev, held) ==
    /\ res = IF at = "done" THEN NoBucket ELSE ResamplerOf(q, list).res
    /\ prev = FillerOf(q, Delivered(q, at, list)).prev
    /\ Stage(q, held, FillerOf(q, Delivered(q, at, list)).out)

IInv ==
    /\ query \in Queries
    /\ phase \in {"refused", "streaming", "done"}
    /\ source \in Seq(TickType) /\ Len(source) <= MaxTicks
    /\ phase = "refused" =>
          /\ source = <<>> /\ rows = <<>> /\ window = <<>> /\ footer = NoFooter
          /\ ~Accepted(query) /\ chain = NoChain(query)
    /\ phase # "refused" =>
          /\ Accepted(query)
          /\ Consistent(query, phase, source, chain.res, chain.prev, Held)

LEMMA AcceptedReadable ==
  ASSUME NEW q \in Queries, Accepted(q)
  PROVE  Readable(q) /\ SessionOf(q) \in Sessions
<1>1. /\ q.width \in 1..Day /\ q.limit \in Nat \ {0}
      /\ SpecAccepted(q.spec) => q.spec.period \in Nat
      /\ Len(q.table) \in Nat /\ DOMAIN q.table = 1..Len(q.table)
      /\ \A i \in DOMAIN q.table : q.table[i].specs \in Seq(ActionSpec)
  BY AnalysisAssumption
<1>2. SpecAccepted(q.spec)
  BY DEF Accepted
<1>3. SpecsOf(q.table, Symbol) \in Seq(ActionSpec)
  <2> DEFINE named == {i \in DOMAIN q.table : q.table[i].name = Symbol}
  <2>1. CASE named = {}
    <3>1. SpecsOf(q.table, Symbol) = <<>>
      BY <2>1 DEF SpecsOf
    <3> QED BY <3>1
  <2>2. CASE named # {}
    <3>1. named \subseteq Nat
      BY <1>1
    <3>2. Min(named) \in named
      <4> HIDE DEF named
      <4> QED BY <2>2, <3>1, MinOfSome
    <3>3. SpecsOf(q.table, Symbol) = q.table[Min(named)].specs
      BY <2>2 DEF SpecsOf
    <3> QED BY <1>1, <3>2, <3>3
  <2> QED BY <2>1, <2>2
<1>4. ActionsOf(q) \in Seq(Action) /\ Sorted(ActionsOf(q))
  <2>1. <<>> \in Seq(Action) /\ Sorted(<<>>)
    BY DEF Sorted
  <2>2. Resolve(q.table, Symbol) \in Seq(Action) /\ Sorted(Resolve(q.table, Symbol))
    BY <1>3, ResolveLaw
  <2> QED BY <2>1, <2>2 DEF ActionsOf
<1>5. SessionOf(q) \in Sessions
  BY DEF SessionOf, Sessions
<1> QED BY <1>1, <1>2, <1>4, <1>5 DEF Readable

LEMMA StageEmpty ==
  ASSUME NEW q, Readable(q), NEW s, s.rows = <<>>, s.window = <<>>, s.footer = NoFooter,
         s.adj = Adjuster(ActionsOf(q)), s.column = NewColumn(q.spec)
  PROVE  Stage(q, s, <<>>)
<1>1. /\ q.limit \in Nat \ {0} /\ SpecAccepted(q.spec) /\ q.spec.period \in Nat
      /\ ActionsOf(q) \in Seq(Action)
  BY DEF Readable
<1>2. Len(<<>>) = 0 /\ DOMAIN <<>> = {} /\ <<>> \in Seq({}) /\ 1..0 = {}
  OBVIOUS
<1>3. IsColumn(<<>>, 0)
  BY DEF IsColumn
<1>4. BarsOf(<<>>) = <<>> /\ ValuesOf(<<>>) = <<>> /\ Adjusted(ActionsOf(q), <<>>) = <<>>
      /\ Values(q.spec, <<>>) = <<>>
  BY DEF BarsOf, ValuesOf, Adjusted, Values
<1>5. Follows(q.spec, NewColumn(q.spec), <<>>) /\ Compute(q.spec, <<>>) = <<>>
  BY <1>1, NewColumnLaw
<1>6. Adjuster(ActionsOf(q)) = Adjusting(ActionsOf(q), CursorAfter(ActionsOf(q), <<>>))
  <2>1. CursorAfter(ActionsOf(q), <<>>) = 1
    BY DEF CursorAfter
  <2> QED BY <1>1, <2>1, AdjusterLaw
<1>7. Newest(<<>>, q.limit) = <<>>
  <2>1. Len(<<>>) <= q.limit
    BY <1>1, <1>2
  <2> QED BY <1>1, <1>2, <2>1, NewestIs
<1>8. IsFooter(NoFooter, <<>>)
  <2>1. Valued(<<>>) = <<>>
    BY RowsAtEmpty DEF Valued
  <2> QED BY <1>2, <1>4, <2>1 DEF IsFooter, NoFooter
<1> QED BY <1>2, <1>3, <1>4, <1>5, <1>6, <1>7, <1>8 DEF Stage

\* The bar a step closes, if it closes one, through the filler.
Through(q, prev, new) ==
    IF new = <<>> THEN [prev |-> prev, out |-> <<>>]
    ELSE PushBar(q.width, SessionOf(q), q.fill, prev, new[1])

LEMMA ThroughLaw ==
  ASSUME NEW q, Readable(q), SessionOf(q) \in Sessions,
         NEW bars \in Seq(BarType), NEW new, Ascending(bars \o new),
         new = <<>> \/ \E bar \in BarType : new = <<bar>>,
         NEW s, Stage(q, s, FillerOf(q, bars).out)
  PROVE  /\ Through(q, FillerOf(q, bars).prev, new).prev = FillerOf(q, bars \o new).prev
         /\ Stage(q, EmitAll(q, s, Through(q, FillerOf(q, bars).prev, new).out),
                  FillerOf(q, bars \o new).out)
<1> DEFINE f == FillerOf(q, bars)
           t == Through(q, f.prev, new)
<1>1. q.width \in 1..Day
  BY DEF Readable
<1>2. CASE new = <<>>
  <2>1. bars \o new = bars
    BY <1>2
  <2>2. t = [prev |-> f.prev, out |-> <<>>]
    BY <1>2 DEF Through
  <2> HIDE DEF t, f
  <2>3. t.prev = f.prev /\ EmitAll(q, s, t.out) = s
    BY <2>2, EmitAllEmpty
  <2> QED BY <2>1, <2>3 DEF t, f
<1>3. ASSUME NEW bar \in BarType, new = <<bar>>
      PROVE  t.prev = FillerOf(q, bars \o new).prev
             /\ Stage(q, EmitAll(q, s, t.out), FillerOf(q, bars \o new).out)
  <2> DEFINE more == Append(bars, bar)
  <2>1. bars \o new = more
    BY <1>3, AppendIsConcat
  <2>2. Ascending(more) /\ more \in Seq(BarType)
    <3>1. more \in Seq(BarType)
      OBVIOUS
    <3> HIDE DEF more
    <3> QED BY <2>1, <3>1
  <2>3. t = PushBar(q.width, SessionOf(q), q.fill, f.prev, bar)
    <3>1. new # <<>> /\ new[1] = bar
      BY <1>3
    <3> HIDE DEF f
    <3> QED BY <3>1 DEF Through
  <2>4. FillerFine(f, bars)
    <3>1. Ascending(bars)
      BY <2>2, AscendingAppend
    <3> QED BY <1>1, <3>1, FillerType DEF FillerOf
  <2>5. FillerOf(q, more) = FillerStep(q.width, SessionOf(q), q.fill, f, bar)
    BY FillerAppend DEF FillerOf
  <2> HIDE DEF t, f
  <2>6. /\ FillerFine(FillerOf(q, more), more)
        /\ t.out \in Seq(BarType)
    BY <1>1, <2>2, <2>3, <2>4, <2>5, FillerFineStep
  <2> DEFINE g == FillerOf(q, more)
  <2> HIDE DEF more
  <2>7. g.prev = t.prev /\ g.out = f.out \o t.out
    <3>1. g = [prev |-> t.prev, out |-> f.out \o t.out]
      BY <2>3, <2>5 DEF FillerStep
    <3> HIDE DEF g
    <3> QED BY <3>1
  <2> HIDE DEF g
  <2>8. Ascending(f.out \o t.out) /\ f.out \in Seq(BarType)
    BY <2>4, <2>6, <2>7 DEF FillerFine, g
  <2>9. Stage(q, EmitAll(q, s, t.out), f.out \o t.out)
    BY <2>6, <2>8, EmitAllLaw DEF f
  <2> QED BY <2>1, <2>7, <2>9 DEF g
<1> QED BY <1>2, <1>3

\* What the filler was fed, and what is still in the resampler, is in order.
LEMMA FinishLaw ==
  ASSUME NEW w, NEW r, ResamplerFine(w, r)
  PROVE  /\ FinishRows(r.res) = <<>> \/ \E bar \in BarType : FinishRows(r.res) = <<bar>>
         /\ Ascending(r.out \o FinishRows(r.res))
         /\ Len(r.res.open) <= 1
<1>1. r.out \in Seq(BarType) /\ Ascending(r.out) /\ IsOpen(w, r.res, r.out)
  BY DEF ResamplerFine
<1>2. CASE r.res = NoBucket
  <2>1. r.res.open = <<>>
    BY <1>2 DEF NoBucket
  <2>2. FinishRows(r.res) = <<>>
    BY <2>1 DEF FinishRows
  <2>3. r.out \o <<>> = r.out
    BY <1>1
  <2>4. Len(r.res.open) <= 1
    BY <2>1
  <2> QED BY <1>1, <2>2, <2>3, <2>4
<1>3. CASE r.res # NoBucket
  <2>1. PICK acc \in AccType : /\ r.res = [open |-> <<acc>>, end |-> acc.time + w]
                               /\ \A i \in 1..Len(r.out) : r.out[i].time <= acc.time
    BY <1>1, <1>3 DEF IsOpen
  <2> DEFINE bar == Closed(acc)
  <2>2. bar \in BarType /\ bar.time = acc.time
    BY ClosedType
  <2>3. r.res.open = <<acc>> /\ r.res.open # <<>> /\ r.res.open[1] = acc /\ Len(r.res.open) = 1
    BY <2>1
  <2>4. FinishRows(r.res) = <<bar>>
    BY <2>3 DEF FinishRows
  <2> HIDE DEF bar
  <2>5. r.out \o <<bar>> = Append(r.out, bar)
    BY <1>1, <2>2, AppendIsConcat
  <2>6. Ascending(Append(r.out, bar))
    BY <1>1, <2>1, <2>2, AscendingAppend
  <2>7. Ascending(r.out \o FinishRows(r.res))
    BY <2>4, <2>5, <2>6
  <2>8. Len(r.res.open) <= 1
    <3>1. 1 <= 1
      OBVIOUS
    <3> QED BY <2>3, <3>1
  <2> QED BY <2>2, <2>4, <2>7, <2>8
<1> QED BY <1>2, <1>3

LEMMA RowPartType ==
  ASSUME NEW q, NEW tick \in TickType
  PROVE  [time |-> tick.time, part |-> RowPart(q, tick)] \in InputType
<1>1. tick.time \in Int /\ tick.price \in Nat /\ tick.size \in Nat
  <2>1. Instants \subseteq Nat
    BY AnalysisAssumption
  <2>2. tick.time \in Instants /\ tick.price \in Nat /\ tick.size \in Nat
    BY DEF TickType
  <2>3. tick.time \in Nat
    BY <2>1, <2>2, Zenon
  <2>4. \A n \in Nat : n \in Int
    OBVIOUS
  <2>5. tick.time \in Int
    BY <2>3, <2>4, Zenon
  <2> QED BY <2>2, <2>5, Zenon
<1>2. TickPart(tick) \in PartType
  BY <1>1, PartTypes
<1>3. BarPart(StoredBar(tick)) \in PartType
  <2>1. Opened(tick.time, TickPart(tick)) \in AccType
    BY <1>1, <1>2 DEF Opened, AccType
  <2>2. StoredBar(tick) \in BarType
    BY <2>1, ClosedType DEF StoredBar
  <2> QED BY <2>2, PartTypes
<1>4. RowPart(q, tick) \in PartType
  BY <1>2, <1>3 DEF RowPart
<1> QED BY <1>1, <1>4 DEF InputType

LEMMA InputAppend ==
  ASSUME NEW q, NEW list \in Seq(TickType), NEW tick \in TickType
  PROVE  /\ InputOf(q, list) \in Seq(InputType)
         /\ InputOf(q, Append(list, tick))
               = Append(InputOf(q, list), [time |-> tick.time, part |-> RowPart(q, tick)])
<1> DEFINE e(k) == [time |-> k.time, part |-> RowPart(q, k)]
           more == Append(list, tick)
           f == InputOf(q, list)
           g == InputOf(q, more)
<1>1. PICK n \in Nat : n = Len(list)
  OBVIOUS
<1>2. DOMAIN list = 1..n /\ \A i \in 1..n : list[i] \in TickType
  BY <1>1
<1>3. /\ DOMAIN more = 1..(n + 1) /\ more[n + 1] = tick
      /\ \A i \in 1..n : more[i] = list[i]
  BY <1>1
<1> HIDE DEF more
<1>4. /\ \A i \in 1..n : f[i] = e(list[i])
      /\ \A i \in 1..(n + 1) : g[i] = e(more[i])
  BY <1>2, <1>3 DEF InputOf
<1>5. IsColumn(f, n) /\ IsColumn(g, n + 1)
  BY <1>2, <1>3 DEF InputOf, IsColumn
<1> HIDE DEF f, g
<1>6. \A k \in TickType : e(k) \in InputType
  BY RowPartType
<1> HIDE DEF e
<1>7. \A i \in 1..n : f[i] \in InputType
  BY <1>2, <1>4, <1>6
<1>8. f \in Seq(InputType)
  BY <1>5, <1>7, ColumnType
<1>9. n + 1 \in 1..(n + 1) /\ \A i \in 1..n : i \in 1..(n + 1)
  OBVIOUS
<1>10. \A i \in 1..n : g[i] = f[i]
  BY <1>3, <1>4, <1>9
<1>11. g[n + 1] = e(tick)
  BY <1>3, <1>4, <1>9
<1>12. g = Append(f, e(tick))
  BY <1>5, <1>10, <1>11, GrownByOne
<1> QED BY <1>8, <1>12 DEF e, f, g, more

LEMMA KeptAppend ==
  ASSUME NEW q, NEW list \in Seq(TickType), NEW tick \in TickType
  PROVE  /\ KeptOf(q, list) \in Seq(TickType)
         /\ KeptOf(q, Append(list, tick))
               = IF Kept(q, tick) THEN Append(KeptOf(q, list), tick) ELSE KeptOf(q, list)
<1> DEFINE more == Append(list, tick)
           P == {i \in DOMAIN more : Kept(q, more[i])}
           Q == {i \in DOMAIN list : Kept(q, list[i])}
<1>1. PICK n \in Nat : n = Len(list)
  OBVIOUS
<1>2. DOMAIN list = 1..n
  BY <1>1
<1>3. /\ DOMAIN more = 1..(n + 1) /\ more[n + 1] = tick
      /\ \A i \in 1..n : more[i] = list[i]
  BY <1>1
<1>4. KeptOf(q, list) = RowsAt(list, Q) /\ KeptOf(q, more) = RowsAt(more, P)
  BY DEF KeptOf
<1> HIDE DEF more
<1>5. \A i \in 1..n : i \in P <=> i \in Q
  BY <1>2, <1>3
<1>6. n + 1 \in P <=> Kept(q, tick)
  BY <1>3
<1> HIDE DEF P, Q
<1>7. KeptOf(q, more) = IF n + 1 \in P THEN Append(RowsAt(list, Q), tick) ELSE RowsAt(list, Q)
  BY <1>1, <1>4, <1>5, RowsAtAppend DEF more
<1>8. RowsAt(list, Q) \in Seq(TickType)
  BY RowsAtType
<1> QED BY <1>4, <1>6, <1>7, <1>8 DEF more

LEMMA ResamplerOfFine ==
  ASSUME NEW q, Readable(q), SessionOf(q) \in Sessions, NEW list \in Seq(TickType)
  PROVE  ResamplerFine(q.width, ResamplerOf(q, list))
<1>1. q.width \in 1..Day
  BY DEF Readable
<1>2. KeptOf(q, list) \in Seq(TickType)
  <2>1. CASE list = <<>>
    <3>1. KeptOf(q, list) = <<>>
      BY <2>1, RowsAtEmpty DEF KeptOf
    <3> QED BY <3>1
  <2>2. CASE list # <<>>
    <3>1. list[1] \in TickType
      BY <2>2
    <3> QED BY <3>1, KeptAppend
  <2> QED BY <2>1, <2>2
<1>3. InputOf(q, KeptOf(q, list)) \in Seq(InputType)
  <2> DEFINE k == KeptOf(q, list)
  <2> HIDE DEF k
  <2>1. CASE k = <<>>
    <3>1. DOMAIN <<>> = {} /\ <<>> \in Seq(InputType)
      OBVIOUS
    <3>2. InputOf(q, <<>>) = <<>>
      BY <3>1 DEF InputOf
    <3> QED BY <2>1, <3>1, <3>2 DEF k
  <2>2. CASE k # <<>>
    <3>1. k[1] \in TickType
      BY <1>2, <2>2 DEF k
    <3> QED BY <1>2, <3>1, InputAppend DEF k
  <2> QED BY <2>1, <2>2
<1> QED BY <1>1, <1>3, ResamplerType DEF ResamplerOf

\* The resampler of a query that read one trade more.
LEMMA ResamplerMore ==
  ASSUME NEW q, Readable(q), SessionOf(q) \in Sessions,
         NEW list \in Seq(TickType), NEW tick \in TickType
  PROVE  /\ ResamplerFine(q.width, ResamplerOf(q, list))
         /\ ResamplerFine(q.width, ResamplerOf(q, Append(list, tick)))
         /\ ResamplerOf(q, Append(list, tick))
               = IF Kept(q, tick)
                 THEN ResamplerStep(q.width, SessionOf(q), ResamplerOf(q, list),
                                    [time |-> tick.time, part |-> RowPart(q, tick)])
                 ELSE ResamplerOf(q, list)
<1> DEFINE k == KeptOf(q, list)
           row == [time |-> tick.time, part |-> RowPart(q, tick)]
           more == Append(list, tick)
<1>1. q.width \in 1..Day
  BY DEF Readable
<1>2. k \in Seq(TickType) /\ KeptOf(q, more) = IF Kept(q, tick) THEN Append(k, tick) ELSE k
  BY KeptAppend
<1>3. more \in Seq(TickType)
  OBVIOUS
<1>4. \A l \in Seq(TickType) : ResamplerFine(q.width, ResamplerOf(q, l))
  BY ResamplerOfFine
<1> HIDE DEF k, more
<1>5. CASE Kept(q, tick)
  <2>1. InputOf(q, k) \in Seq(InputType) /\ InputOf(q, Append(k, tick)) = Append(InputOf(q, k), row)
    BY <1>2, InputAppend
  <2>2. row \in InputType
    BY RowPartType
  <2> HIDE DEF row
  <2>3. ResamplerOver(q.width, SessionOf(q), Append(InputOf(q, k), row))
           = ResamplerStep(q.width, SessionOf(q),
                           ResamplerOver(q.width, SessionOf(q), InputOf(q, k)), row)
    BY <2>1, <2>2, ResamplerAppend
  <2>4. ResamplerOf(q, more) = ResamplerStep(q.width, SessionOf(q), ResamplerOf(q, list), row)
    BY <1>2, <1>5, <2>1, <2>3 DEF ResamplerOf, k
  <2> QED BY <1>3, <1>4, <1>5, <2>4 DEF more, row
<1>6. CASE ~Kept(q, tick)
  <2>1. ResamplerOf(q, more) = ResamplerOf(q, list)
    BY <1>2, <1>6 DEF ResamplerOf, k
  <2> QED BY <1>3, <1>4, <1>6, <2>1 DEF more
<1> QED BY <1>5, <1>6

LEMMA NothingRead ==
  ASSUME NEW q
  PROVE  ResamplerOf(q, <<>>) = NoResampling /\ FillerOf(q, <<>>) = NoFilling
<1>1. DOMAIN <<>> = {} /\ <<>> \in Seq({0})
  OBVIOUS
<1>2. KeptOf(q, <<>>) = <<>>
  BY RowsAtEmpty DEF KeptOf
<1>3. InputOf(q, <<>>) = <<>>
  BY <1>1 DEF InputOf
<1>4. \A row \in {0} : ResamplerOver(q.width, SessionOf(q), <<>>) = NoResampling
  BY <1>1, ResamplerAppend
<1>5. ResamplerOver(q.width, SessionOf(q), <<>>) = NoResampling
  BY <1>4
<1> QED BY <1>2, <1>3, <1>5, FillerEmpty DEF ResamplerOf, FillerOf

LEMMA InitKeeps == Init => IInv
<1> SUFFICES ASSUME Init PROVE IInv
  OBVIOUS
<1>1. /\ query \in Queries /\ source = <<>> /\ rows = <<>> /\ window = <<>> /\ footer = NoFooter
      /\ chain = NoChain(query)
      /\ phase = IF Accepted(query) THEN "streaming" ELSE "refused"
  BY DEF Init
<1>2. source \in Seq(TickType) /\ Len(source) <= MaxTicks
  <2>1. <<>> \in Seq(TickType) /\ Len(<<>>) = 0
    OBVIOUS
  <2>2. MaxTicks \in Nat
    BY AnalysisAssumption
  <2> QED BY <1>1, <2>1, <2>2
<1>3. CASE ~Accepted(query)
  <2>1. phase = "refused"
    BY <1>1, <1>3
  <2> QED BY <1>1, <1>2, <1>3, <2>1 DEF IInv
<1>4. CASE Accepted(query)
  <2>1. phase = "streaming" /\ phase # "refused" /\ phase # "done"
    BY <1>1, <1>4
  <2>2. Readable(query)
    BY <1>1, <1>4, AcceptedReadable
  <2>3. /\ chain.res = NoBucket /\ chain.prev = <<>>
        /\ chain.adj = Adjuster(ActionsOf(query)) /\ chain.column = NewColumn(query.spec)
    BY <1>1, <1>4 DEF NoChain
  <2>4. Delivered(query, phase, source) = <<>> /\ ResamplerOf(query, source) = NoResampling
    BY <1>1, <2>1, NothingRead DEF Delivered, NoResampling
  <2>5. FillerOf(query, Delivered(query, phase, source)) = [prev |-> <<>>, out |-> <<>>]
    BY <2>4, NothingRead DEF NoFilling
  <2>6. /\ Held.rows = <<>> /\ Held.window = <<>> /\ Held.footer = NoFooter
        /\ Held.adj = Adjuster(ActionsOf(query)) /\ Held.column = NewColumn(query.spec)
    BY <1>1, <2>3 DEF Held
  <2>7. Stage(query, Held, <<>>)
    BY <2>2, <2>6, StageEmpty
  <2>8. Consistent(query, phase, source, chain.res, chain.prev, Held)
    BY <2>1, <2>3, <2>4, <2>5, <2>7 DEF Consistent, NoResampling
  <2> QED BY <1>1, <1>2, <1>4, <2>1, <2>8 DEF IInv
<1> QED BY <1>3, <1>4

\* What a query that is being read, or was, holds.
LEMMA Streaming ==
  ASSUME IInv, phase # "refused"
  PROVE  /\ Readable(query) /\ SessionOf(query) \in Sessions
         /\ ResamplerFine(query.width, ResamplerOf(query, source))
         /\ Delivered(query, phase, source) \in Seq(BarType)
         /\ Ascending(Delivered(query, phase, source))
         /\ FillerFine(FillerOf(query, Delivered(query, phase, source)),
                       Delivered(query, phase, source))
         /\ Consistent(query, phase, source, chain.res, chain.prev, Held)
<1> DEFINE R == ResamplerOf(query, source)
           D == Delivered(query, phase, source)
<1>1. /\ query \in Queries /\ Accepted(query) /\ source \in Seq(TickType)
      /\ Consistent(query, phase, source, chain.res, chain.prev, Held)
  BY DEF IInv
<1>2. Readable(query) /\ SessionOf(query) \in Sessions
  BY <1>1, AcceptedReadable
<1>3. ResamplerFine(query.width, R)
  BY <1>1, <1>2, ResamplerOfFine
<1>4. D = IF phase = "done" THEN R.out \o FinishRows(R.res) ELSE R.out
  BY DEF Delivered
<1> HIDE DEF R, D
<1>5. R.out \in Seq(BarType) /\ Ascending(R.out)
  BY <1>3 DEF ResamplerFine
<1>6. /\ FinishRows(R.res) = <<>> \/ \E bar \in BarType : FinishRows(R.res) = <<bar>>
      /\ Ascending(R.out \o FinishRows(R.res))
  BY <1>3, FinishLaw
<1>7. FinishRows(R.res) \in Seq(BarType)
  <2>1. CASE FinishRows(R.res) = <<>>
    BY <2>1
  <2>2. ASSUME NEW bar \in BarType, FinishRows(R.res) = <<bar>>
        PROVE  FinishRows(R.res) \in Seq(BarType)
    BY <2>2
  <2> QED BY <1>6, <2>1, <2>2
<1>8. D \in Seq(BarType) /\ Ascending(D)
  BY <1>4, <1>5, <1>6, <1>7
<1>9. query.width \in 1..Day
  BY <1>2 DEF Readable
<1>10. FillerFine(FillerOf(query, D), D)
  BY <1>2, <1>8, <1>9, FillerType DEF FillerOf
<1> QED BY <1>1, <1>2, <1>3, <1>8, <1>10 DEF R, D

LEMMA StageSame ==
  ASSUME NEW q, NEW s, NEW t, NEW bars, Stage(q, s, bars),
         t.adj = s.adj, t.column = s.column, t.rows = s.rows, t.window = s.window,
         t.footer = s.footer
  PROVE  Stage(q, t, bars)
BY DEF Stage

LEMMA ReadKeeps ==
  ASSUME IInv, NEW time \in Instants, Read(time)
  PROVE  IInv'
<1> DEFINE i == Len(source) + 1
           tick == [time |-> time, price |-> Prices[i], size |-> Sizes[i]]
           part == RowPart(query, tick)
           r == PushRow(query.width, SessionOf(query), chain.res, time, part)
           R == ResamplerOf(query, source)
           more == Append(source, tick)
           N == ResamplerOf(query, more)
<1>1. /\ phase = "streaming" /\ i <= MaxTicks /\ source' = more
      /\ query' = query /\ phase' = phase
      /\ IF Kept(query, tick) THEN Consume(r.res, r.out)
         ELSE chain' = chain /\ rows' = rows /\ window' = window /\ footer' = footer
  BY DEF Read
<1>2. /\ query \in Queries /\ Accepted(query) /\ source \in Seq(TickType)
  BY <1>1 DEF IInv
<1>3. /\ Readable(query) /\ SessionOf(query) \in Sessions
      /\ ResamplerFine(query.width, R)
      /\ Consistent(query, phase, source, chain.res, chain.prev, Held)
  BY <1>1, Streaming
<1>4. /\ chain.res = R.res /\ chain.prev = FillerOf(query, R.out).prev
      /\ Stage(query, Held, FillerOf(query, R.out).out)
  BY <1>1, <1>3 DEF Consistent, Delivered
<1>5. tick \in TickType
  <2>1. PICK n \in Nat : n = Len(source)
    BY <1>2
  <2>2. i \in 1..MaxTicks
    BY <1>1, <2>1, AnalysisAssumption
  <2>3. Prices[i] \in Nat /\ Sizes[i] \in Nat
    <3> HIDE DEF i
    <3>1. Prices[i] \in Nat \ {0} /\ Sizes[i] \in Nat \ {0}
      BY <2>2, AnalysisAssumption
    <3> QED BY <3>1
  <2> HIDE DEF i
  <2> QED BY <2>3 DEF TickType
<1>6. source' \in Seq(TickType) /\ Len(source') <= MaxTicks
  <2>1. Len(more) = i /\ more \in Seq(TickType)
    <3> HIDE DEF tick
    <3> QED BY <1>2, <1>5
  <2> HIDE DEF more, i
  <2> QED BY <1>1, <2>1
<1>7. [time |-> tick.time, part |-> RowPart(query, tick)] = [time |-> time, part |-> part]
  OBVIOUS
<1> HIDE DEF tick
<1>8. N = IF Kept(query, tick)
          THEN ResamplerStep(query.width, SessionOf(query), R, [time |-> time, part |-> part])
          ELSE R
  BY <1>2, <1>3, <1>5, <1>7, ResamplerMore
<1>9. [time |-> time, part |-> part] \in InputType
  BY <1>5, <1>7, RowPartType
<1> HIDE DEF part, R, more, N
<1> DEFINE Goal == /\ chain'.res = N.res /\ chain'.prev = FillerOf(query, N.out).prev
                   /\ Stage(query, Held', FillerOf(query, N.out).out)
<1>10. ASSUME ~Kept(query, tick) PROVE Goal
  <2>1. N = R /\ chain' = chain /\ rows' = rows /\ window' = window /\ footer' = footer
    BY <1>1, <1>8, <1>10
  <2>2. Held' = Held
    BY <2>1 DEF Held
  <2> QED BY <1>4, <2>1, <2>2
<1>11. ASSUME Kept(query, tick) PROVE Goal
  <2>1. Consume(r.res, r.out)
    BY <1>1, <1>11
  <2>2. N = [res |-> r.res, out |-> R.out \o r.out]
    <3> DEFINE row == [time |-> time, part |-> part]
    <3>1. row.time = time /\ row.part = part
      OBVIOUS
    <3> HIDE DEF row
    <3>2. N = ResamplerStep(query.width, SessionOf(query), R, row)
      BY <1>8, <1>11 DEF row
    <3> QED BY <1>4, <3>1, <3>2 DEF ResamplerStep
  <2>3. /\ r.out = <<>> \/ \E bar \in BarType : r.out = <<bar>>
        /\ ResamplerFine(query.width, [res |-> r.res, out |-> R.out \o r.out])
    <3> DEFINE row == [time |-> time, part |-> part]
    <3>1. row.time = time /\ row.part = part
      OBVIOUS
    <3>2. row \in InputType
      BY <1>9
    <3> HIDE DEF row
    <3>3. query.width \in 1..Day
      BY <1>3 DEF Readable
    <3>4. R.out \in Seq(BarType) /\ Ascending(R.out) /\ IsOpen(query.width, R.res, R.out)
      BY <1>3 DEF ResamplerFine
    <3>5. r = PushRow(query.width, SessionOf(query), R.res, row.time, row.part)
      BY <1>4, <3>1
    <3> HIDE DEF r
    <3> DEFINE p == PushRow(query.width, SessionOf(query), R.res, row.time, row.part)
    <3>6. /\ p.out = <<>> \/ \E bar \in BarType : p.out = <<bar>> /\ p.out = FinishRows(R.res)
          /\ ResamplerFine(query.width, [res |-> p.res, out |-> R.out \o p.out])
      BY <1>3, <3>2, <3>3, <3>4, PushRowLaw
    <3> HIDE DEF p
    <3>7. r = p
      BY <3>5 DEF p
    <3> QED BY <3>6, <3>7
  <2> DEFINE t == Through(query, chain.prev, r.out)
             e == EmitAll(query, Held, t.out)
  <2>4. /\ chain' = [res |-> r.res, prev |-> t.prev, adj |-> e.adj, column |-> e.column]
        /\ rows' = e.rows /\ window' = e.window /\ footer' = e.footer
    <3> HIDE DEF r
    <3> QED BY <2>1 DEF Consume, Through, Held
  <2> HIDE DEF r
  <2>5. R.out \in Seq(BarType) /\ Ascending(R.out \o r.out)
    BY <1>3, <2>3 DEF ResamplerFine
  <2>6. t.prev = FillerOf(query, R.out \o r.out).prev
        /\ Stage(query, e, FillerOf(query, R.out \o r.out).out)
    <3>1. PICK new : new = r.out
      OBVIOUS
    <3>2. t = Through(query, FillerOf(query, R.out).prev, new)
      BY <1>4, <3>1
    <3>3. /\ new = <<>> \/ \E bar \in BarType : new = <<bar>>
          /\ Ascending(R.out \o new)
      BY <2>3, <2>5, <3>1
    <3>4. e = EmitAll(query, Held, Through(query, FillerOf(query, R.out).prev, new).out)
      BY <3>2
    <3> HIDE DEF t, e
    <3>5. /\ Through(query, FillerOf(query, R.out).prev, new).prev
                = FillerOf(query, R.out \o new).prev
          /\ Stage(query, EmitAll(query, Held, Through(query, FillerOf(query, R.out).prev, new).out),
                   FillerOf(query, R.out \o new).out)
      BY <1>3, <1>4, <2>5, <3>3, ThroughLaw
    <3> QED BY <3>1, <3>2, <3>4, <3>5
  <2> HIDE DEF t, e
  <2>7. /\ Held'.adj = e.adj /\ Held'.column = e.column /\ Held'.rows = e.rows
        /\ Held'.window = e.window /\ Held'.footer = e.footer
    BY <2>4 DEF Held
  <2>8. Stage(query, Held', FillerOf(query, R.out \o r.out).out)
    BY <2>6, <2>7, StageSame
  <2>9. N.res = r.res /\ N.out = R.out \o r.out
    BY <2>2
  <2>10. chain'.res = r.res /\ chain'.prev = t.prev
    BY <2>4
  <2> QED BY <2>6, <2>8, <2>9, <2>10
<1>12. Goal
  BY <1>10, <1>11
<1>13. Consistent(query', phase', source', chain'.res, chain'.prev, Held')
  <2>1. phase' # "done" /\ ResamplerOf(query', source') = N /\ query' = query
    BY <1>1 DEF N
  <2>2. Delivered(query', phase', source') = N.out
    BY <2>1 DEF Delivered
  <2> QED BY <1>12, <2>1, <2>2 DEF Consistent
<1> QED BY <1>1, <1>2, <1>6, <1>13 DEF IInv

LEMMA FinishKeeps ==
  ASSUME IInv, Finish
  PROVE  IInv'
<1> DEFINE R == ResamplerOf(query, source)
           new == FinishRows(R.res)
           t == Through(query, chain.prev, new)
           e == EmitAll(query, Held, t.out)
<1>1. /\ phase = "streaming" /\ phase' = "done" /\ query' = query /\ source' = source
      /\ Consume(NoBucket, FinishRows(chain.res))
  BY DEF Finish
<1>2. /\ query \in Queries /\ Accepted(query) /\ source \in Seq(TickType)
      /\ Len(source) <= MaxTicks
  BY <1>1 DEF IInv
<1>3. /\ Readable(query) /\ SessionOf(query) \in Sessions
      /\ ResamplerFine(query.width, R)
      /\ Consistent(query, phase, source, chain.res, chain.prev, Held)
  BY <1>1, Streaming
<1>4. /\ chain.res = R.res /\ chain.prev = FillerOf(query, R.out).prev
      /\ Stage(query, Held, FillerOf(query, R.out).out)
  BY <1>1, <1>3 DEF Consistent, Delivered
<1> HIDE DEF R
<1>5. /\ new = <<>> \/ \E bar \in BarType : new = <<bar>>
      /\ Ascending(R.out \o new) /\ R.out \in Seq(BarType)
  BY <1>3, FinishLaw DEF ResamplerFine
<1>6. FinishRows(chain.res) = new
  BY <1>4
<1> HIDE DEF new
<1>7. /\ chain' = [res |-> NoBucket, prev |-> t.prev, adj |-> e.adj, column |-> e.column]
      /\ rows' = e.rows /\ window' = e.window /\ footer' = e.footer
  <2>1. Consume(NoBucket, new)
    BY <1>1, <1>6
  <2> QED BY <2>1 DEF Consume, Through, Held
<1>8. t.prev = FillerOf(query, R.out \o new).prev
      /\ Stage(query, e, FillerOf(query, R.out \o new).out)
  BY <1>3, <1>4, <1>5, ThroughLaw, ZenonT(40)
<1> HIDE DEF t, e
<1>9. /\ Held'.adj = e.adj /\ Held'.column = e.column /\ Held'.rows = e.rows
      /\ Held'.window = e.window /\ Held'.footer = e.footer
  BY <1>7 DEF Held
<1>10. Stage(query, Held', FillerOf(query, R.out \o new).out)
  BY <1>8, <1>9, StageSame
<1>11. Consistent(query', phase', source', chain'.res, chain'.prev, Held')
  <2>1. phase' = "done" /\ ResamplerOf(query', source') = R /\ query' = query
    BY <1>1 DEF R
  <2>2. Delivered(query', phase', source') = R.out \o new
    BY <2>1 DEF Delivered, new
  <2>3. chain'.res = NoBucket /\ chain'.prev = t.prev
    BY <1>7
  <2> QED BY <1>8, <1>10, <2>1, <2>2, <2>3 DEF Consistent
<1> QED BY <1>1, <1>2, <1>11 DEF IInv

\* Each stage holds what its batch form makes of the rows read so far: the
\* resampler (resample.rs), the filler, the adjuster (adjust.rs), the indicator
\* (calc.rs), the rows, the window (server.rs) and the footer (stat.rs).
THEOREM ChainInvariant == Spec => []IInv
<1>1. IInv /\ [Next]_vars => IInv'
  <2> SUFFICES ASSUME IInv, [Next]_vars PROVE IInv'
    OBVIOUS
  <2>1. CASE Finish
    BY <2>1, FinishKeeps
  <2>2. ASSUME NEW time \in Instants, Read(time) PROVE IInv'
    BY <2>2, ReadKeeps
  <2>3. CASE UNCHANGED vars
    <3>1. /\ query' = query /\ phase' = phase /\ source' = source /\ chain' = chain
          /\ rows' = rows /\ window' = window /\ footer' = footer
      BY <2>3 DEF vars
    <3>2. Held' = Held
      BY <3>1 DEF Held
    <3> QED BY <3>1, <3>2 DEF IInv
  <2> QED BY <2>1, <2>2, <2>3 DEF Next
<1> QED BY <1>1, InitKeeps, PTL DEF Spec

LEMMA CursorType ==
  ASSUME NEW actions \in Seq(Action), NEW bars \in Seq(BarType)
  PROVE  /\ CursorAfter(actions, bars) \in 1..(Len(actions) + 1)
         /\ Len(Adjuster(actions).bounds) = Len(actions)
<1>1. PICK N \in Nat : N = Len(actions)
  OBVIOUS
<1>2. CASE bars = <<>>
  <2>1. CursorAfter(actions, bars) = 1
    BY <1>2 DEF CursorAfter
  <2> QED BY <1>1, <2>1, AdjusterLaw
<1>3. CASE bars # <<>>
  <2>1. bars[Len(bars)] \in BarType
    BY <1>3
  <2>2. PICK t \in Int : t = bars[Len(bars)].time
    BY <2>1 DEF BarType
  <2>3. Past(actions, t) \in 0..N
    BY <1>1, PastIs
  <2>4. CursorAfter(actions, bars) = Past(actions, t) + 1
    BY <1>3, <2>2 DEF CursorAfter
  <2> QED BY <1>1, <2>3, <2>4, AdjusterLaw
<1> QED BY <1>2, <1>3

\* What is answered, of a refused query as well.
LEMMA Answered ==
  ASSUME IInv
  PROVE  \E n \in Nat : /\ IsColumn(rows, n)
                        /\ window = Newest(rows, query.limit)
                        /\ IsFooter(footer, rows)
                        /\ ClosesOf(rows) \subseteq Int
                        /\ query.limit \in Nat \ {0}
<1>1. query \in Queries
  BY DEF IInv
<1>2. query.limit \in Nat \ {0}
  BY <1>1, AnalysisAssumption
<1>3. CASE phase = "refused"
  <2>1. rows = <<>> /\ window = <<>> /\ footer = NoFooter
    BY <1>3 DEF IInv
  <2>2. Len(<<>>) = 0 /\ DOMAIN <<>> = {} /\ <<>> \in Seq({}) /\ 1..0 = {}
    OBVIOUS
  <2>3. IsColumn(<<>>, 0)
    BY <2>2 DEF IsColumn
  <2>4. Newest(<<>>, query.limit) = <<>>
    <3>1. Len(<<>>) <= query.limit
      BY <1>2, <2>2
    <3> QED BY <1>2, <2>2, <3>1, NewestIs
  <2>5. IsFooter(NoFooter, <<>>)
    <3>1. Valued(<<>>) = <<>>
      BY RowsAtEmpty DEF Valued
    <3>2. ValuesOf(<<>>) = <<>>
      BY <2>2 DEF ValuesOf
    <3> QED BY <2>2, <3>1, <3>2 DEF IsFooter, NoFooter
  <2>6. ClosesOf(<<>>) \subseteq Int
    BY <2>2 DEF ClosesOf
  <2> QED BY <1>2, <2>1, <2>3, <2>4, <2>5, <2>6
<1>4. CASE phase # "refused"
  <2> DEFINE A == ActionsOf(query)
             bars == FillerOf(query, Delivered(query, phase, source)).out
  <2>1. /\ Readable(query) /\ Stage(query, Held, bars)
        /\ FillerFine(FillerOf(query, Delivered(query, phase, source)),
                      Delivered(query, phase, source))
    BY <1>4, Streaming DEF Consistent
  <2>2. A \in Seq(Action)
    BY <2>1 DEF Readable
  <2>3. bars \in Seq(BarType)
    BY <2>1 DEF FillerFine
  <2> HIDE DEF bars, A
  <2>4. /\ IsColumn(rows, Len(bars)) /\ BarsOf(rows) = Adjusted(A, bars)
        /\ window = Newest(rows, query.limit) /\ IsFooter(footer, rows)
    BY <2>1 DEF Stage, Held, A
  <2>5. PICK n \in Nat : n = Len(bars)
    BY <2>3
  <2>6. rows \in Seq(Terms(rows, n)) /\ Len(rows) = n
    BY <2>4, <2>5, ColumnIsSeq
  <2>7. Adjusted(A, bars) \in Seq(ScaledBars(A)) /\ Len(Adjusted(A, bars)) = n
    <3>1. CASE bars = <<>>
      <4>1. Adjusted(A, bars) = <<>> /\ n = 0
        <5>1. DOMAIN <<>> = {} /\ Len(<<>>) = 0
          OBVIOUS
        <5> QED BY <2>5, <3>1, <5>1 DEF Adjusted
      <4> QED BY <4>1
    <3>2. CASE bars # <<>>
      <4>1. bars[1] \in BarType
        BY <2>3, <3>2
      <4> QED BY <2>2, <2>3, <2>5, <4>1, AdjustedAppend
    <3> QED BY <3>1, <3>2
  <2>8. ASSUME NEW c \in ClosesOf(rows) PROVE c \in Int
    <3>1. PICK i \in DOMAIN rows : c = rows[i].bar.close
      BY DEF ClosesOf
    <3>2. i \in 1..n
      BY <2>6, <3>1
    <3>3. BarsOf(rows)[i] = rows[i].bar
      BY <3>1 DEF BarsOf
    <3>4. Adjusted(A, bars)[i] \in ScaledBars(A)
      BY <2>7, <3>2
    <3>5. rows[i].bar \in ScaledBars(A)
      BY <2>4, <3>3, <3>4
    <3>6. rows[i].bar.close \in Int
      BY <2>2, <3>5, ScaledCloses
    <3> QED BY <3>1, <3>6
  <2> QED BY <1>2, <2>4, <2>5, <2>8
<1> QED BY <1>3, <1>4

LEMMA InvTypes == IInv => TypeOK
<1> SUFFICES ASSUME IInv PROVE TypeOK
  OBVIOUS
<1>1. /\ query \in Queries /\ phase \in {"refused", "streaming", "done"}
      /\ source \in Seq([time : Instants, price : Nat, size : Nat]) /\ Len(source) <= MaxTicks
      /\ phase = "refused" => source = <<>> /\ rows = <<>>
  BY DEF IInv, TickType
<1>2. Len(window) <= query.limit
  <2>1. PICK n \in Nat : /\ IsColumn(rows, n) /\ window = Newest(rows, query.limit)
                         /\ query.limit \in Nat \ {0}
    BY Answered
  <2>2. rows \in Seq(Terms(rows, n)) /\ Len(rows) = n
    BY <2>1, ColumnIsSeq
  <2>3. Len(Newest(rows, query.limit)) = IF Len(rows) <= query.limit THEN Len(rows)
                                         ELSE query.limit
    BY <2>1, <2>2, NewestIs
  <2> QED BY <2>1, <2>2, <2>3
<1> DEFINE Goal == /\ Len(chain.res.open) <= 1 /\ Len(chain.prev) <= 1
                   /\ chain.adj.cursor \in 1..(Len(chain.adj.bounds) + 1)
<1>3. ASSUME phase = "refused" PROVE Goal
  <2>1. chain = NoChain(query) /\ ~Accepted(query)
    BY <1>3 DEF IInv
  <2>2. chain.res.open = <<>> /\ chain.prev = <<>> /\ chain.adj = Adjuster(<<>>)
    BY <2>1 DEF NoChain, NoBucket
  <2>3. <<>> \in Seq(Action) /\ Len(<<>>) = 0 /\ <<>> \in Seq(BarType)
    OBVIOUS
  <2>4. Adjuster(<<>>).cursor = 1 /\ Len(Adjuster(<<>>).bounds) = 0
    <3>1. PICK none \in Seq(Action) : none = <<>>
      BY <2>3
    <3>2. Adjuster(none) = Adjusting(none, 1) /\ Len(Adjuster(none).bounds) = Len(none)
      BY AdjusterLaw
    <3>3. Adjusting(none, 1).cursor = 1
      BY DEF Adjusting
    <3>4. Len(none) = 0
      BY <2>3, <3>1
    <3> QED BY <3>1, <3>2, <3>3, <3>4
  <2>5. Len(chain.res.open) <= 1 /\ Len(chain.prev) <= 1
    BY <2>2, <2>3
  <2>6. chain.adj.cursor \in 1..(Len(chain.adj.bounds) + 1)
    BY <2>2, <2>4
  <2> QED BY <2>5, <2>6
<1>4. ASSUME phase # "refused" PROVE Goal
  <2> DEFINE A == ActionsOf(query)
             R == ResamplerOf(query, source)
             D == Delivered(query, phase, source)
             F == FillerOf(query, D)
  <2>1. /\ Readable(query) /\ ResamplerFine(query.width, R) /\ FillerFine(F, D)
        /\ chain.res = IF phase = "done" THEN NoBucket ELSE R.res
        /\ chain.prev = F.prev /\ Stage(query, Held, F.out)
    BY <1>4, Streaming DEF Consistent
  <2>2. A \in Seq(Action)
    BY <2>1 DEF Readable
  <2>3. chain.adj = Adjusting(A, CursorAfter(A, F.out))
    BY <2>1 DEF Stage, Held
  <2> HIDE DEF A, R, D, F
  <2>4. F.out \in Seq(BarType) /\ (F.prev = <<>> \/ \E b \in BarType : F.prev = <<b>>)
    BY <2>1 DEF FillerFine
  <2>5. Len(chain.res.open) <= 1
    <3>1. CASE phase = "done"
      <4>1. chain.res.open = <<>>
        BY <2>1, <3>1 DEF NoBucket
      <4> QED BY <4>1
    <3>2. CASE phase # "done"
      BY <2>1, <3>2, FinishLaw
    <3> QED BY <3>1, <3>2
  <2>6. Len(chain.prev) <= 1
    <3>1. CASE F.prev = <<>>
      BY <2>1, <3>1
    <3>2. ASSUME NEW b \in BarType, F.prev = <<b>> PROVE Len(chain.prev) <= 1
      <4>1. Len(<<b>>) = 1 /\ 1 <= 1
        OBVIOUS
      <4> QED BY <2>1, <3>2, <4>1
    <3> QED BY <2>4, <3>1, <3>2
  <2>7. chain.adj.cursor \in 1..(Len(chain.adj.bounds) + 1)
    <3>1. /\ CursorAfter(A, F.out) \in 1..(Len(A) + 1)
          /\ Len(Adjuster(A).bounds) = Len(A)
      BY <2>2, <2>4, CursorType
    <3> QED BY <2>3, <3>1 DEF Adjusting
  <2> QED BY <2>5, <2>6, <2>7
<1>5. Goal
  BY <1>3, <1>4
<1> QED BY <1>1, <1>2, <1>5 DEF TypeOK

\* Every variable of a streamed request keeps its type at every length of the
\* source: one open bucket at most, a cursor within the table of actions, and a
\* window no longer than its limit (feed.rs, server.rs).
THEOREM AnalysisTypes == Spec => []TypeOK
BY ChainInvariant, InvTypes, PTL

\* At every moment the indicator column that was streamed is the batch form over
\* the bars so far, for every period, series and table of actions (calc.rs:
\* "streamed and buffered output are identical").
THEOREM StreamedIsBatch == Spec => []ColumnIsBatch
<1>1. IInv => ColumnIsBatch
  <2> SUFFICES ASSUME IInv, phase # "refused"
               PROVE  ValuesOf(rows) = Compute(query.spec, BarsOf(rows))
    BY DEF ColumnIsBatch, ValuesOf, BarsOf
  <2>1. Stage(query, Held, FillerOf(query, Delivered(query, phase, source)).out)
    BY Streaming DEF Consistent
  <2> QED BY <2>1 DEF Stage, Held
<1> QED BY <1>1, ChainInvariant, PTL

\* The raw bars of a finished request are what the filler put out, in order, and
\* adjust_bars scales each by the factors of its time.
LEMMA RawBarsLaw ==
  ASSUME IInv, phase = "done"
  PROVE  /\ RawBars = FillerOf(query, Delivered(query, phase, source)).out
         /\ RawBars \in Seq(BarType) /\ Ascending(RawBars)
         /\ ActionsOf(query) \in Seq(Action)
         /\ AdjustBars(RawBars, ActionsOf(query)) = Adjusted(ActionsOf(query), RawBars)
<1> DEFINE R == ResamplerOf(query, source)
           D == R.out \o FinishRows(R.res)
           F == FillerOf(query, D)
<1>1. /\ Readable(query) /\ FillerFine(F, D)
      /\ Delivered(query, phase, source) = D
  BY Streaming DEF Delivered
<1>2. RawBars = F.out
  <2>1. KeptTicks = KeptOf(query, source)
    BY DEF KeptTicks, KeptOf
  <2>2. R = ResamplerOver(query.width, SessionOf(query), InputOf(query, KeptTicks))
    BY <2>1 DEF ResamplerOf
  <2> HIDE DEF R
  <2>3. RawBars = Resampled(query.width, SessionOf(query), query.fill,
                            InputOf(query, KeptTicks))
    BY DEF RawBars, InputOf
  <2> QED BY <2>2, <2>3 DEF Resampled, FillerOf
<1> HIDE DEF R, D, F
<1>3. F.out \in Seq(BarType) /\ Ascending(F.out)
  BY <1>1 DEF FillerFine
<1>4. ASSUME NEW i \in 1..Len(F.out) PROVE F.out[i].time \in Int
  <2>1. F.out[i] \in BarType
    BY <1>3
  <2> QED BY <2>1 DEF BarType
<1>5. ActionsOf(query) \in Seq(Action)
  BY <1>1 DEF Readable
<1>6. AdjustBars(F.out, ActionsOf(query)) = Adjusted(ActionsOf(query), F.out)
  BY <1>3, <1>4, <1>5, AdjustBarsLaw
<1>7. F = FillerOf(query, Delivered(query, phase, source))
  BY <1>1 DEF F
<1> QED BY <1>2, <1>3, <1>5, <1>6, <1>7

\* The bars of a finished request, adjusted one at a time by a cursor that only
\* moves forward, are adjust_bars of the whole raw series, whatever the table
\* (adjust.rs, Adjuster against adjust_bars).
THEOREM AdjustedIsMaterialized == Spec => []StreamedIsMaterialized
<1>1. IInv => StreamedIsMaterialized
  <2> SUFFICES ASSUME IInv, phase = "done"
               PROVE  BarsOf(rows) = AdjustBars(RawBars, ActionsOf(query))
    BY DEF StreamedIsMaterialized, BarsOf
  <2>1. Stage(query, Held, FillerOf(query, Delivered(query, phase, source)).out)
    BY Streaming DEF Consistent
  <2>2. BarsOf(rows) = Adjusted(ActionsOf(query), FillerOf(query, Delivered(query, phase, source)).out)
    BY <2>1 DEF Stage, Held
  <2> QED BY <2>2, RawBarsLaw
<1> QED BY <1>1, ChainInvariant, PTL

LEMMA InvAnswers == IInv => AnswersAreOfTheRows
<1> SUFFICES ASSUME IInv PROVE AnswersAreOfTheRows
  OBVIOUS
<1> DEFINE closes == {rows[i].bar.close : i \in DOMAIN rows}
<1>1. PICK n \in Nat : /\ IsColumn(rows, n)
                       /\ window = Newest(rows, query.limit)
                       /\ IsFooter(footer, rows)
                       /\ ClosesOf(rows) \subseteq Int
                       /\ query.limit \in Nat \ {0}
  BY Answered
<1>2. rows \in Seq(Terms(rows, n)) /\ Len(rows) = n
  BY <1>1, ColumnIsSeq
<1>3. closes = ClosesOf(rows)
  BY DEF ClosesOf
<1>4. window = SubSeq(rows, Max({1, Len(rows) - query.limit + 1}), Len(rows))
  <2> DEFINE m == n - query.limit + 1
  <2>1. m \in Int
    BY <1>1
  <2>2. Max({1, m}) = IF 1 >= m THEN 1 ELSE m
    BY <2>1, MaxPair
  <2>3. (IF n <= query.limit THEN 1 ELSE m) = IF 1 >= m THEN 1 ELSE m
    BY <1>1
  <2>4. Newest(rows, query.limit) = SubSeq(rows, IF n <= query.limit THEN 1 ELSE m, n)
    BY <1>2 DEF Newest
  <2> HIDE DEF m
  <2>5. window = SubSeq(rows, Max({1, m}), n)
    BY <1>1, <2>2, <2>3, <2>4
  <2> QED BY <1>2, <2>5 DEF m
<1>5. footer.bars = Len(rows) /\ footer.values = ValuesOf(Valued(rows))
  BY <1>1 DEF IsFooter
<1>6. ASSUME rows # <<>>
      PROVE  /\ footer.first = <<Head(rows).bar.time, Head(rows).bar.close>>
             /\ footer.last = <<Last(rows).bar.time, Last(rows).bar.close>>
             /\ footer.high = <<Max(closes)>> /\ footer.low = <<Min(closes)>>
  <2>1. /\ footer.first = <<rows[1].bar.time, rows[1].bar.close>>
        /\ footer.last = <<rows[Len(rows)].bar.time, rows[Len(rows)].bar.close>>
        /\ \E h \in ClosesOf(rows) : footer.high = <<h>> /\ \A k \in ClosesOf(rows) : k <= h
        /\ \E l \in ClosesOf(rows) : footer.low = <<l>> /\ \A k \in ClosesOf(rows) : l <= k
    BY <1>1, <1>6 DEF IsFooter
  <2> HIDE DEF closes
  <2>2. footer.high = <<Max(closes)>>
    <3>1. PICK h \in ClosesOf(rows) : footer.high = <<h>> /\ \A k \in ClosesOf(rows) : k <= h
      BY <2>1
    <3>2. Max(ClosesOf(rows)) = h
      BY <1>1, <3>1, MaxAt
    <3> QED BY <1>3, <3>1, <3>2
  <2>3. footer.low = <<Min(closes)>>
    <3>1. PICK l \in ClosesOf(rows) : footer.low = <<l>> /\ \A k \in ClosesOf(rows) : l <= k
      BY <2>1
    <3>2. Min(ClosesOf(rows)) = l
      BY <1>1, <3>1, MinAt
    <3> QED BY <1>3, <3>1, <3>2
  <2>4. Head(rows) = rows[1]
    BY <1>2, <1>6
  <2>5. Last(rows) = rows[Len(rows)]
    BY DEF Last
  <2> QED BY <2>1, <2>2, <2>3, <2>4, <2>5
<1>7. footer.values = [i \in DOMAIN Valued(rows) |-> Valued(rows)[i].value]
  BY <1>5 DEF ValuesOf
<1> QED BY <1>4, <1>5, <1>6, <1>7 DEF AnswersAreOfTheRows, Valued

\* What is answered from a bounded memory is about all of the rows, however many:
\* the window of a tool holds the last ones (server.rs), and the footer's path
\* and values are those of every row (stat.rs, SummaryCollector).
THEOREM AnswersOfTheRows == Spec => []AnswersAreOfTheRows
BY ChainInvariant, InvAnswers, PTL

-----------------------------------------------------------------------------
(***************************************************************************)
(* RowsAreTheMarket, from here on.  Quotients are numbers: one does not    *)
(* depend on the fraction it is taken of, and sums and products of them    *)
(* are those of the fractions.                                             *)
(***************************************************************************)

LEMMA Products ==
  ASSUME NEW a \in Nat \ {0}, NEW b \in Nat \ {0}
  PROVE  a * b \in Nat \ {0}
<1>1. a * b \in Int /\ a * b >= 0
  BY Multiples
<1>2. a * 0 + a <= a * b
  BY Multiples
<1>3. a * 0 = 0
  OBVIOUS
<1> QED BY <1>1, <1>2, <1>3

LEMMA ScaledDivision ==
  ASSUME NEW n \in Int, NEW d \in Nat \ {0}, NEW c \in Nat \ {0}
  PROVE  /\ (c * n) \div (c * d) = n \div d
         /\ (c * n) % (c * d) = c * (n % d)
<1>1. PICK q \in Int : q = n \div d
  OBVIOUS
<1>2. PICK r \in Int : r = n % d
  OBVIOUS
<1>3. n = d * q + r /\ 0 <= r /\ r < d
  BY <1>1, <1>2
<1>4. PICK e \in Nat \ {0} : e = c * d
  BY Products
<1>5. PICK x \in Int : x = d * q
  OBVIOUS
<1>6. c * n = c * x + c * r
  BY <1>3, <1>5, Multiples
<1>7. c * x = e * q
  BY <1>4, <1>5
<1>8. PICK f \in Int : f = c * r
  OBVIOUS
<1>9. 0 <= f /\ f < e
  <2>1. c * r >= 0
    BY <1>3, Multiples
  <2>2. c * r + c <= c * d
    BY <1>3, Multiples
  <2> QED BY <1>4, <1>8, <2>1, <2>2
<1>10. PICK m \in Int : m = c * n
  OBVIOUS
<1>11. PICK z \in Int : z = e * q
  OBVIOUS
<1>12. m = z + f
  BY <1>6, <1>7, <1>8, <1>10, <1>11
<1>13. e * q <= m /\ m < e * q + e
  BY <1>9, <1>11, <1>12
<1>14. m \div e = q
  BY <1>13, QuotientBounds
<1>15. m % e = f
  <2>1. m = e * (m \div e) + (m % e) /\ m % e \in Int
    OBVIOUS
  <2> QED BY <1>11, <1>12, <1>14, <2>1
<1> QED BY <1>1, <1>2, <1>4, <1>8, <1>10, <1>14, <1>15

\* The divisor divides both.
LEMMA DivisorDivides ==
  ASSUME NEW n \in Int, NEW d \in Nat \ {0}
  PROVE  n % Divisor[<<n, d>>] = 0 /\ d % Divisor[<<n, d>>] = 0
<1> DEFINE Fits(a, b) == a % Divisor[<<a, b>>] = 0 /\ b % Divisor[<<a, b>>] = 0
           Done == {m \in 0..d : \A b \in 1..m : \A a \in Int : Fits(a, b)}
<1>1. 0 \in Done
  OBVIOUS
<1>2. ASSUME NEW m \in 1..d, m - 1 \in Done
      PROVE  m \in Done
  <2> SUFFICES ASSUME NEW b \in 1..m, NEW a \in Int PROVE Fits(a, b)
    OBVIOUS
  <2>1. CASE b # m
    <3>1. b \in 1..(m - 1)
      BY <2>1
    <3> QED BY <1>2, <3>1
  <2>2. CASE b = m
    <3>1. b \in Nat \ {0}
      OBVIOUS
    <3>2. PICK r \in Int : r = a % b
      BY <3>1
    <3>3. r \in 0..(b - 1)
      BY <3>1, <3>2
    <3>4. Divisor[<<a, b>>] = IF r = 0 THEN b ELSE Divisor[<<b, r>>]
      BY <3>1, <3>2, DivisorLaw
    <3>5. CASE r = 0
      <4>1. b = b * 1
        OBVIOUS
      <4>2. (b * 1) % b = 0
        BY <3>1, MultipleMod
      <4> QED BY <3>2, <3>4, <3>5, <4>1, <4>2
    <3>6. CASE r # 0
      <4>1. r \in 1..(m - 1) /\ r \in Nat \ {0} /\ b \in Int
        BY <2>2, <3>1, <3>3, <3>6
      <4>2. Fits(b, r)
        BY <1>2, <4>1
      <4>3. PICK k \in Nat \ {0} : k = Divisor[<<b, r>>]
        BY <4>1, DivisorType
      <4>4. b % k = 0 /\ r % k = 0
        BY <4>2, <4>3
      <4>5. a % k = 0
        BY <3>1, <3>2, <4>4, DividesRest
      <4>6. Divisor[<<a, b>>] = k
        BY <3>4, <3>6, <4>3
      <4> HIDE DEF Done
      <4> QED BY <4>4, <4>5, <4>6
    <3> QED BY <3>5, <3>6
  <2> QED BY <2>1, <2>2
<1>3. d \in Done
  <2>1. 0..d \subseteq Done
    <3> HIDE DEF Done
    <3> QED BY <1>1, <1>2, Induction
  <2> QED BY <2>1
<1> QED BY <1>3

\* A common factor is one of the divisor.
LEMMA DivisorScaled ==
  ASSUME NEW c \in Nat \ {0}, NEW n \in Int, NEW d \in Nat \ {0}
  PROVE  Divisor[<<c * n, c * d>>] = c * Divisor[<<n, d>>]
<1> DEFINE Fits(a, b) == Divisor[<<c * a, c * b>>] = c * Divisor[<<a, b>>]
           Done == {m \in 0..d : \A b \in 1..m : \A a \in Int : Fits(a, b)}
<1>1. 0 \in Done
  OBVIOUS
<1>2. ASSUME NEW m \in 1..d, m - 1 \in Done
      PROVE  m \in Done
  <2> SUFFICES ASSUME NEW b \in 1..m, NEW a \in Int PROVE Fits(a, b)
    OBVIOUS
  <2>1. CASE b # m
    <3>1. b \in 1..(m - 1)
      BY <2>1
    <3> QED BY <1>2, <3>1
  <2>2. CASE b = m
    <3>1. b \in Nat \ {0}
      OBVIOUS
    <3>2. PICK r \in Int : r = a % b
      BY <3>1
    <3>3. r \in 0..(b - 1)
      BY <3>1, <3>2
    <3>4. Divisor[<<a, b>>] = IF r = 0 THEN b ELSE Divisor[<<b, r>>]
      BY <3>1, <3>2, DivisorLaw
    <3>5. PICK e \in Nat \ {0} : e = c * b
      BY <3>1, Products
    <3>6. PICK x \in Int : x = c * a
      OBVIOUS
    <3>7. x % e = c * r
      BY <3>1, <3>2, <3>5, <3>6, ScaledDivision
    <3>8. Divisor[<<x, e>>] = IF x % e = 0 THEN e ELSE Divisor[<<e, x % e>>]
      BY DivisorLaw
    <3>9. CASE r = 0
      <4>1. x % e = 0
        BY <3>7, <3>9
      <4> QED BY <3>4, <3>5, <3>6, <3>8, <3>9, <4>1
    <3>10. CASE r # 0
      <4>1. r \in 1..(m - 1) /\ r \in Nat \ {0} /\ b \in Int
        BY <2>2, <3>1, <3>3, <3>10
      <4>2. Fits(b, r)
        BY <1>2, <4>1
      <4>3. c * r # 0
        BY <4>1, Products
      <4> HIDE DEF Done
      <4>4. Divisor[<<x, e>>] = Divisor[<<c * b, c * r>>]
        BY <3>5, <3>7, <3>8, <4>3
      <4>5. Divisor[<<a, b>>] = Divisor[<<b, r>>]
        BY <3>4, <3>10
      <4> QED BY <3>5, <3>6, <4>2, <4>4, <4>5
    <3> HIDE DEF Done
    <3> QED BY <3>9, <3>10
  <2> QED BY <2>1, <2>2
<1>3. d \in Done
  <2>1. 0..d \subseteq Done
    <3> HIDE DEF Done
    <3> QED BY <1>1, <1>2, Induction
  <2> QED BY <2>1
<1> QED BY <1>3

LEMMA QuotientScaled ==
  ASSUME NEW c \in Nat \ {0}, NEW n \in Int, NEW d \in Nat \ {0}
  PROVE  Quotient(c * n, c * d) = Quotient(n, d)
<1>1. PICK k \in Nat \ {0} : k = Divisor[<<n, d>>]
  BY DivisorType
<1>2. PICK x \in Int : x = c * n
  OBVIOUS
<1>3. PICK e \in Nat \ {0} : e = c * d
  BY Products
<1>4. Divisor[<<x, e>>] = c * k
  BY <1>1, <1>2, <1>3, DivisorScaled
<1>5. x \div (c * k) = n \div k /\ e \div (c * k) = d \div k
  <2>1. (c * n) \div (c * k) = n \div k
    BY <1>1, ScaledDivision, ZenonT(40)
  <2>2. (c * d) \div (c * k) = d \div k
    <3>1. d \in Int
      OBVIOUS
    <3> QED BY <1>1, <3>1, ScaledDivision, ZenonT(40)
  <2> QED BY <1>2, <1>3, <2>1, <2>2
<1>6. Quotient(x, e) = [n |-> x \div (c * k), d |-> e \div (c * k)]
  BY <1>3, <1>4 DEF Quotient
<1>7. Quotient(n, d) = [n |-> n \div k, d |-> d \div k]
  BY <1>1 DEF Quotient
<1> QED BY <1>2, <1>3, <1>5, <1>6, <1>7

\* Two fractions of one value are one quotient.
LEMMA QuotientSame ==
  ASSUME NEW n \in Int, NEW d \in Nat \ {0}, NEW m \in Int, NEW e \in Nat \ {0},
         n * e = m * d
  PROVE  Quotient(n, d) = Quotient(m, e)
<1>1. Quotient(e * n, e * d) = Quotient(n, d)
  BY QuotientScaled
<1>2. Quotient(d * m, d * e) = Quotient(m, e)
  BY QuotientScaled
<1>3. e * n = n * e /\ d * m = m * d /\ e * d = d * e
  OBVIOUS
<1>4. e * n = d * m
  BY <1>3
<1> QED BY <1>1, <1>2, <1>3, <1>4

\* And its own parts have that value.
LEMMA QuotientIs ==
  ASSUME NEW n \in Int, NEW d \in Nat \ {0}
  PROVE  /\ Quotient(n, d).n \in Int /\ Quotient(n, d).d \in Nat \ {0}
         /\ Quotient(n, d).n * d = n * Quotient(n, d).d
         /\ n > 0 => Quotient(n, d).n > 0
<1>1. PICK k \in Nat \ {0} : k = Divisor[<<n, d>>] /\ k \in 1..d
  BY DivisorType
<1>2. n % k = 0 /\ d % k = 0
  BY <1>1, DivisorDivides
<1>3. PICK a \in Int : n = k * a
  BY <1>2, WholeMultiple
<1>4. PICK b \in Int : d = k * b
  BY <1>2, WholeMultiple
<1>5. n \div k = a /\ d \div k = b
  <2>1. k * a <= n /\ n < k * a + k
    BY <1>3
  <2>2. k * b <= d /\ d < k * b + k
    BY <1>4
  <2> QED BY <2>1, <2>2, QuotientBounds
<1>6. b > 0
  <2>1. CASE b <= 0
    <3>1. k * b <= 0
      <4>1. k * b < k * 0 + k
        <5>1. k * b <= k * 0
          <6>1. CASE b = 0
            BY <6>1
          <6>2. CASE b < 0
            <7>1. k * b + k <= k * 0
              BY <6>2, Multiples
            <7>2. k * b \in Int /\ k * 0 = 0
              OBVIOUS
            <7> QED BY <7>1, <7>2
          <6> QED BY <2>1, <6>1, <6>2
        <5>2. k * b \in Int /\ k * 0 = 0
          OBVIOUS
        <5> QED BY <5>1, <5>2
      <4> QED BY <1>4, <4>1
    <3> QED BY <1>4, <3>1
  <2> QED BY <2>1
<1>7. Quotient(n, d) = [n |-> a, d |-> b]
  BY <1>1, <1>5 DEF Quotient
<1>8. a * d = n * b
  BY <1>3, <1>4
<1>9. n > 0 => a > 0
  BY <1>1, <1>5, <1>7, QuotientType DEF Positive
<1> QED BY <1>6, <1>7, <1>8, <1>9

LEMMA PlusQuotients ==
  ASSUME NEW a \in Int, NEW b \in Nat \ {0}, NEW c \in Int, NEW d \in Nat \ {0}
  PROVE  Plus(Quotient(a, b), Quotient(c, d)) = Quotient(a * d + c * b, b * d)
<1>1. PICK x \in Int : x = Quotient(a, b).n
  BY QuotientIs
<1>2. PICK y \in Nat \ {0} : y = Quotient(a, b).d
  BY QuotientIs
<1>3. PICK u \in Int : u = Quotient(c, d).n
  BY QuotientIs
<1>4. PICK v \in Nat \ {0} : v = Quotient(c, d).d
  BY QuotientIs
<1>5. x * b = a * y
  BY <1>1, <1>2, QuotientIs
<1>6. u * d = c * v
  BY <1>3, <1>4, QuotientIs
<1>7. Plus(Quotient(a, b), Quotient(c, d)) = Quotient(x * v + u * y, y * v)
  BY <1>1, <1>2, <1>3, <1>4 DEF Plus
<1>8. (x * v + u * y) * (b * d) = (a * d + c * b) * (y * v)
  <2>1. (x * v) * (b * d) = (x * b) * (v * d)
    OBVIOUS
  <2>2. (u * y) * (b * d) = (u * d) * (y * b)
    OBVIOUS
  <2>3. (a * y) * (v * d) = (a * d) * (y * v)
    OBVIOUS
  <2>4. (c * v) * (y * b) = (c * b) * (y * v)
    OBVIOUS
  <2>5. PICK f \in Int : f = x * v
    OBVIOUS
  <2>6. PICK g \in Int : g = u * y
    OBVIOUS
  <2>7. PICK h \in Int : h = a * d
    OBVIOUS
  <2>8. PICK k \in Int : k = c * b
    OBVIOUS
  <2>9. f * (b * d) = h * (y * v)
    BY <1>5, <2>1, <2>3, <2>5, <2>7
  <2>10. g * (b * d) = k * (y * v)
    BY <1>6, <2>2, <2>4, <2>6, <2>8
  <2>11. PICK r \in Int : r = b * d
    OBVIOUS
  <2>12. PICK s \in Int : s = y * v
    OBVIOUS
  <2>13. (f + g) * r = (h + k) * s
    <3>1. f * r = h * s /\ g * r = k * s
      BY <2>9, <2>10, <2>11, <2>12
    <3>2. (f + g) * r = f * r + g * r /\ (h + k) * s = h * s + k * s
      OBVIOUS
    <3> QED BY <3>1, <3>2
  <2> QED BY <2>5, <2>6, <2>7, <2>8, <2>11, <2>12, <2>13
<1>9. PICK n \in Int : n = x * v + u * y
  OBVIOUS
<1>10. PICK m \in Int : m = a * d + c * b
  OBVIOUS
<1>11. PICK e \in Nat \ {0} : e = y * v
  BY Products
<1>12. PICK f \in Nat \ {0} : f = b * d
  BY Products
<1>13. n * f = m * e
  BY <1>8, <1>9, <1>10, <1>11, <1>12
<1> QED BY <1>7, <1>9, <1>10, <1>11, <1>12, <1>13, QuotientSame

LEMMA TimesQuotients ==
  ASSUME NEW a \in Int, NEW b \in Nat \ {0}, NEW c \in Int, NEW d \in Nat \ {0}
  PROVE  Times(Quotient(a, b), Quotient(c, d)) = Quotient(a * c, b * d)
<1>1. PICK x \in Int : x = Quotient(a, b).n
  BY QuotientIs
<1>2. PICK y \in Nat \ {0} : y = Quotient(a, b).d
  BY QuotientIs
<1>3. PICK u \in Int : u = Quotient(c, d).n
  BY QuotientIs
<1>4. PICK v \in Nat \ {0} : v = Quotient(c, d).d
  BY QuotientIs
<1>5. x * b = a * y
  BY <1>1, <1>2, QuotientIs
<1>6. u * d = c * v
  BY <1>3, <1>4, QuotientIs
<1>7. Times(Quotient(a, b), Quotient(c, d)) = Quotient(x * u, y * v)
  BY <1>1, <1>2, <1>3, <1>4 DEF Times
<1>8. (x * u) * (b * d) = (a * c) * (y * v)
  <2>1. (x * u) * (b * d) = (x * b) * (u * d)
    OBVIOUS
  <2>2. (a * y) * (c * v) = (a * c) * (y * v)
    OBVIOUS
  <2> QED BY <1>5, <1>6, <2>1, <2>2
<1>9. PICK n \in Int : n = x * u
  OBVIOUS
<1>10. PICK m \in Int : m = a * c
  OBVIOUS
<1>11. PICK e \in Nat \ {0} : e = y * v
  BY Products
<1>12. PICK f \in Nat \ {0} : f = b * d
  BY Products
<1>13. n * f = m * e
  BY <1>8, <1>9, <1>10, <1>11, <1>12
<1> QED BY <1>7, <1>9, <1>10, <1>11, <1>12, <1>13, QuotientSame

LEMMA WholeIs ==
  ASSUME NEW n \in Int
  PROVE  Quotient(n, 1) = Whole(n)
<1>1. PICK k \in Nat \ {0} : k = Divisor[<<n, 1>>] /\ k \in 1..1
  BY DivisorType
<1>2. k = 1
  BY <1>1
<1>3. n \div 1 = n /\ 1 \div 1 = 1
  OBVIOUS
<1> QED BY <1>1, <1>2, <1>3 DEF Quotient, Whole

\* Quotients over one divisor.
LEMMA PlusAlike ==
  ASSUME NEW a \in Int, NEW c \in Int, NEW d \in Nat \ {0}
  PROVE  Plus(Quotient(a, d), Quotient(c, d)) = Quotient(a + c, d)
<1>1. Plus(Quotient(a, d), Quotient(c, d)) = Quotient(a * d + c * d, d * d)
  BY PlusQuotients
<1>2. PICK b \in Int : b = a + c
  OBVIOUS
<1>3. a * d + c * d = d * b
  BY <1>2
<1>4. Quotient(d * b, d * d) = Quotient(b, d)
  BY QuotientScaled
<1> QED BY <1>1, <1>2, <1>3, <1>4

LEMMA WholePlus ==
  ASSUME NEW a \in Int, NEW c \in Int
  PROVE  Plus(Whole(a), Whole(c)) = Whole(a + c)
<1>1. 1 \in Nat \ {0} /\ a + c \in Int
  OBVIOUS
<1>2. Plus(Quotient(a, 1), Quotient(c, 1)) = Quotient(a + c, 1)
  BY <1>1, PlusAlike
<1>3. Quotient(a + c, 1) = Whole(a + c)
  BY <1>1, WholeIs
<1> QED BY <1>2, <1>3, WholeIs

\* A whole number of parts.
LEMMA WholeTimes ==
  ASSUME NEW a \in Int, NEW f \in Positive
  PROVE  Times(Whole(a), f) = Quotient(a * f.n, f.d)
<1>1. f.n \in Nat \ {0} /\ f.d \in Nat \ {0}
  BY DEF Positive
<1>2. 1 * f.d = f.d
  BY <1>1
<1> QED BY <1>2 DEF Times, Whole

-----------------------------------------------------------------------------
(* Sums over a sequence.                                                   *)

IsTotal(f, terms) ==
    /\ f[0] = Whole(0)
    /\ \A i \in 1..Len(terms) : f[i] = Plus(f[i - 1], terms[i])

LEMMA TotalRun ==
  ASSUME NEW terms, Len(terms) \in Nat
  PROVE  \E f : IsTotal(f, terms) /\ Total(terms) = f[Len(terms)]
<1> DEFINE N == Len(terms)
           Step(i, x) == Plus(x, terms[i])
           Is(f, m) == f = [i \in 0..m |-> IF i = 0 THEN Whole(0) ELSE Step(i, f[i - 1])]
           Reached == {m \in 0..N : \E f : Is(f, m)}
           g == CHOOSE f : Is(f, N)
<1>1. Total(terms) = g[N]
  BY DEF Total
<1> HIDE DEF Step, N, g
<1>2. N \in Nat
  BY DEF N
<1>3. 0 \in Reached
  <2>1. Is([i \in 0..0 |-> Whole(0)], 0)
    OBVIOUS
  <2>2. \E f : Is(f, 0)
    <3> HIDE DEF Is
    <3> QED BY <2>1
  <2> HIDE DEF Is
  <2> QED BY <1>2, <2>2
<1>4. ASSUME NEW m \in 1..N, m - 1 \in Reached
      PROVE  m \in Reached
  <2>1. PICK f : Is(f, m - 1)
    BY <1>4
  <2> DEFINE h == [i \in 0..m |-> IF i = m THEN Step(m, f[m - 1]) ELSE f[i]]
  <2>2. \A i \in 0..(m - 1) : f[i] = IF i = 0 THEN Whole(0) ELSE Step(i, f[i - 1])
    BY <2>1
  <2>3. h[m] = Step(m, f[m - 1]) /\ \A i \in 0..(m - 1) : h[i] = f[i]
    BY <1>2
  <2>4. h = [i \in 0..m |-> h[i]]
    OBVIOUS
  <2> HIDE DEF h
  <2>5. ASSUME NEW i \in 0..m
        PROVE  h[i] = IF i = 0 THEN Whole(0) ELSE Step(i, h[i - 1])
    <3>1. CASE i = m
      <4>1. i # 0 /\ i - 1 \in 0..(m - 1) /\ i - 1 = m - 1
        BY <1>2, <3>1
      <4> QED BY <2>3, <3>1, <4>1
    <3>2. CASE i # m
      <4>1. i \in 0..(m - 1) /\ (i # 0 => i - 1 \in 0..(m - 1))
        BY <1>2, <3>2
      <4> QED BY <2>2, <2>3, <4>1
    <3> QED BY <3>1, <3>2
  <2>6. Is(h, m)
    BY <2>4, <2>5, Zenon
  <2> HIDE DEF Is
  <2> QED BY <1>4, <1>2, <2>6
<1>5. N \in Reached
  <2>1. 0..N \subseteq Reached
    <3> HIDE DEF Reached
    <3> QED BY <1>2, <1>3, <1>4, Induction
  <2> HIDE DEF Reached
  <2> QED BY <1>2, <2>1
<1>6. Is(g, N)
  <2> HIDE DEF Is
  <2> QED BY <1>5 DEF g
<1>7. g[0] = Whole(0) /\ \A i \in 1..N : g[i] = Step(i, g[i - 1])
  <2>1. \A i \in 0..N : g[i] = IF i = 0 THEN Whole(0) ELSE Step(i, g[i - 1])
    BY <1>6
  <2>2. 0 \in 0..N /\ \A i \in 1..N : i \in 0..N /\ i # 0
    BY <1>2
  <2> QED BY <2>1, <2>2, Zenon
<1>8. IsTotal(g, terms)
  BY <1>7 DEF IsTotal, Step, N
<1> QED BY <1>1, <1>8 DEF N

LEMMA TotalAppend ==
  ASSUME NEW S, NEW terms \in Seq(S), NEW term \in S
  PROVE  /\ Total(<<>>) = Whole(0)
         /\ Total(Append(terms, term))
               = Plus(Total(terms), term)
<1>1. Total(<<>>) = Whole(0)
  <2>1. Len(<<>>) = 0
    OBVIOUS
  <2>2. PICK f : IsTotal(f, <<>>) /\ Total(<<>>) = f[0]
    BY <2>1, TotalRun
  <2> QED BY <2>2 DEF IsTotal
<1>2. PICK N \in Nat : N = Len(terms)
  OBVIOUS
<1> DEFINE more == Append(terms, term)
<1>3. Len(more) = N + 1 /\ more[N + 1] = term /\ \A i \in 1..N : more[i] = terms[i]
  BY <1>2
<1> HIDE DEF more
<1>4. PICK f : IsTotal(f, terms) /\ Total(terms) = f[N]
  BY <1>2, TotalRun
<1>5. PICK h : IsTotal(h, more) /\ Total(more) = h[N + 1]
  <2>1. Len(more) = N + 1 /\ Len(more) \in Nat
    BY <1>3
  <2>2. \E h : IsTotal(h, more) /\ Total(more) = h[Len(more)]
    BY <2>1, TotalRun
  <2> QED BY <2>1, <2>2, Zenon
<1>6. f[N] = h[N]
  <2>1. f[0] = h[0]
    BY <1>4, <1>5 DEF IsTotal
  <2>2. ASSUME NEW n \in 1..N, f[n - 1] = h[n - 1] PROVE f[n] = h[n]
    <3>1. f[n] = Plus(f[n - 1], terms[n])
      BY <1>2, <1>4 DEF IsTotal
    <3>2. h[n] = Plus(h[n - 1], more[n])
      BY <1>3, <1>5 DEF IsTotal
    <3> QED BY <1>3, <2>2, <3>1, <3>2
  <2> QED BY <2>1, <2>2, Determined DEF StepAlike
<1>7. h[N + 1] = Plus(h[N], term)
  <2>1. N + 1 \in 1..Len(more) /\ N + 1 - 1 = N
    BY <1>3
  <2>2. h[N + 1] = Plus(h[N + 1 - 1], more[N + 1])
    BY <1>5, <2>1 DEF IsTotal
  <2> QED BY <1>3, <2>1, <2>2
<1> QED BY <1>1, <1>4, <1>5, <1>6, <1>7 DEF more


\* The sum of whole numbers.
Added(numbers) == Total([i \in DOMAIN numbers |-> Whole(numbers[i])]).n

LEMMA AddedLaw ==
  /\ Added(<<>>) = 0
  /\ \A numbers \in Seq(Nat) :
        /\ Added(numbers) \in Nat
        /\ Total([i \in DOMAIN numbers |-> Whole(numbers[i])]) = Whole(Added(numbers))
        /\ \A n \in Nat : Added(Append(numbers, n)) = Added(numbers) + n
<1> DEFINE W(s) == [i \in DOMAIN s |-> Whole(s[i])]
           Good == {s \in Seq(Nat) : Added(s) \in Nat /\ Total(W(s)) = Whole(Added(s))}
<1>1. Total(W(<<>>)) = Whole(0) /\ Added(<<>>) = 0
  <2>1. W(<<>>) = <<>> /\ <<>> \in Seq({0})
    OBVIOUS
  <2>2. Total(<<>>) = Whole(0)
    <3>1. \A e \in {0} : Total(<<>>) = Whole(0)
      BY <2>1, TotalAppend
    <3> QED BY <3>1
  <2>3. Total(W(<<>>)) = Whole(0)
    BY <2>1, <2>2
  <2> QED BY <2>3 DEF Added, Whole
<1>2. ASSUME NEW s \in Seq(Nat), NEW n \in Nat
      PROVE  Total(W(Append(s, n))) = Plus(Total(W(s)), Whole(n))
  <2>1. PICK m \in Nat : m = Len(s)
    OBVIOUS
  <2>2. W(s) \in Seq({Whole(k) : k \in Nat})
    OBVIOUS
  <2>3. Whole(n) \in {Whole(k) : k \in Nat}
    OBVIOUS
  <2>4. W(Append(s, n)) = Append(W(s), Whole(n))
    OBVIOUS
  <2> HIDE DEF W
  <2> QED BY <2>2, <2>3, <2>4, TotalAppend
<1>3. ASSUME NEW s \in Seq(Nat), s \in Good, NEW n \in Nat
      PROVE  Append(s, n) \in Good /\ Added(Append(s, n)) = Added(s) + n
  <2>1. Total(W(Append(s, n))) = Plus(Whole(Added(s)), Whole(n)) /\ Added(s) \in Nat
    BY <1>2, <1>3
  <2>2. Plus(Whole(Added(s)), Whole(n)) = Whole(Added(s) + n)
    BY <2>1, WholePlus
  <2>3. Added(Append(s, n)) = Added(s) + n
    <3>1. Added(Append(s, n)) = Total(W(Append(s, n))).n
      BY DEF Added
    <3>2. PICK k \in Nat : k = Added(s)
      BY <2>1
    <3> HIDE DEF W
    <3>3. Total(W(Append(s, n))) = Whole(k + n)
      BY <2>1, <2>2, <3>2
    <3> QED BY <3>1, <3>2, <3>3 DEF Whole
  <2>4. Append(s, n) \in Seq(Nat)
    OBVIOUS
  <2>5. Added(s) + n \in Nat
    BY <2>1
  <2>6. Total(W(Append(s, n))) = Whole(Added(Append(s, n)))
    BY <2>1, <2>2, <2>3
  <2> HIDE DEF W
  <2> QED BY <2>3, <2>4, <2>5, <2>6
<1>4. <<>> \in Good
  <2>1. Added(<<>>) \in Nat
    BY <1>1
  <2>2. <<>> \in Seq(Nat)
    OBVIOUS
  <2>3. Total(W(<<>>)) = Whole(Added(<<>>))
    BY <1>1, Zenon
  <2> HIDE DEF W
  <2> QED BY <2>1, <2>2, <2>3
<1>5. Seq(Nat) \subseteq Good
  <2>1. \A s \in Seq(Nat) : \A n \in Nat : s \in Good => Append(s, n) \in Good
    BY <1>3
  <2> HIDE DEF Good
  <2> QED BY <1>4, <2>1, SeqInduction
<1> QED BY <1>1, <1>3, <1>5

LEMMA AddedPositive ==
  ASSUME NEW numbers \in Seq(Nat), numbers # <<>>, \A i \in 1..Len(numbers) : numbers[i] > 0
  PROVE  Added(numbers) > 0
<1> DEFINE s == SubSeq(numbers, 1, Len(numbers) - 1)
           n == numbers[Len(numbers)]
<1>1. s \in Seq(Nat) /\ n \in Nat /\ n > 0
  OBVIOUS
<1>2. numbers = Append(s, n)
  OBVIOUS
<1> HIDE DEF s, n
<1>3. Added(numbers) = Added(s) + n /\ Added(s) \in Nat
  BY <1>1, <1>2, AddedLaw
<1> QED BY <1>1, <1>3

\* A sum of fractions of one whole.
LEMMA FractionsTotal ==
  ASSUME NEW n \in Nat, NEW d \in Nat \ {0}, NEW numbers \in Seq(Nat)
  PROVE  Total([i \in DOMAIN numbers |-> Quotient(numbers[i] * n, d)])
            = Quotient(Added(numbers) * n, d)
<1> DEFINE Q(k) == Quotient(k * n, d)
           W(s) == [i \in DOMAIN s |-> Q(s[i])]
           Good == {s \in Seq(Nat) : Total(W(s)) = Q(Added(s))}
<1>1. <<>> \in Good
  <2>1. W(<<>>) = <<>> /\ <<>> \in Seq({0}) /\ <<>> \in Seq(Nat)
    OBVIOUS
  <2>2. Total(<<>>) = Whole(0)
    <3>1. \A e \in {0} : Total(<<>>) = Whole(0)
      BY <2>1, TotalAppend
    <3> QED BY <3>1
  <2>3. Q(0) = Whole(0)
    <3>1. 0 * n = 0 /\ 1 \in Nat \ {0} /\ 0 * 1 = 0 * d
      OBVIOUS
    <3>2. Quotient(0, d) = Quotient(0, 1)
      BY <3>1, QuotientSame
    <3>3. Quotient(0, 1) = Whole(0)
      BY WholeIs
    <3> QED BY <3>1, <3>2, <3>3
  <2>4. Added(<<>>) = 0
    BY AddedLaw
  <2> HIDE DEF Q
  <2>5. Total(W(<<>>)) = Q(Added(<<>>))
    BY <2>1, <2>2, <2>3, <2>4
  <2> HIDE DEF W
  <2> QED BY <2>1, <2>5
<1>2. ASSUME NEW s \in Seq(Nat), s \in Good, NEW k \in Nat
      PROVE  Append(s, k) \in Good
  <2>1. Total(W(Append(s, k))) = Plus(Total(W(s)), Q(k))
    <3> HIDE DEF Q
    <3>1. W(s) \in Seq({Q(j) : j \in Nat})
      <4>1. PICK m \in Nat : m = Len(s) /\ DOMAIN s = 1..m /\ \A i \in 1..m : s[i] \in Nat
        OBVIOUS
      <4>2. DOMAIN W(s) = 1..m /\ \A i \in 1..m : W(s)[i] \in {Q(j) : j \in Nat}
        BY <4>1
      <4>3. IsColumn(W(s), m)
        BY <4>1 DEF IsColumn
      <4> HIDE DEF W
      <4> QED BY <4>2, <4>3, ColumnType
    <3>2. Q(k) \in {Q(j) : j \in Nat}
      OBVIOUS
    <3>3. W(Append(s, k)) = Append(W(s), Q(k))
      OBVIOUS
    <3> HIDE DEF W
    <3> QED BY <3>1, <3>2, <3>3, TotalAppend
  <2>2. PICK m \in Nat : m = Added(s)
    BY AddedLaw
  <2>3. Added(Append(s, k)) = m + k
    BY <2>2, AddedLaw
  <2>4. Plus(Q(m), Q(k)) = Q(m + k)
    <3>1. PICK a \in Int : a = m * n
      OBVIOUS
    <3>2. PICK b \in Int : b = k * n
      OBVIOUS
    <3>3. (m + k) * n = a + b
      BY <3>1, <3>2
    <3>4. Plus(Quotient(a, d), Quotient(b, d)) = Quotient(a + b, d)
      BY PlusAlike
    <3> QED BY <3>1, <3>2, <3>3, <3>4
  <2>5. Total(W(s)) = Q(m)
    BY <1>2, <2>2
  <2>6. Append(s, k) \in Seq(Nat)
    OBVIOUS
  <2> HIDE DEF W, Q
  <2> QED BY <2>1, <2>3, <2>4, <2>5, <2>6
<1>3. Seq(Nat) \subseteq Good
  <2> HIDE DEF Good
  <2> QED BY <1>1, <1>2, SeqInduction
<1> QED BY <1>3

-----------------------------------------------------------------------------
(* The accumulator holds what its trades come to.                          *)

Trade == [time : Int, price : Nat, size : Nat \ {0}]
\* A trade whose size a reverse split may have made too small for one share.
Share == [time : Int, price : Nat, size : Nat]

SizesIn(ticks) == [i \in DOMAIN ticks |-> ticks[i].size]
AmountsIn(ticks) == [i \in DOMAIN ticks |-> ticks[i].price * ticks[i].size]
PricesIn(ticks) == {ticks[i].price : i \in DOMAIN ticks}

\* What an accumulator holds of these trades.
Gathered(ticks) ==
    [open |-> ticks[1].price, high |-> Max(PricesIn(ticks)), low |-> Min(PricesIn(ticks)),
     close |-> ticks[Len(ticks)].price, volume |-> Added(SizesIn(ticks)),
     mass |-> Whole(Added(AmountsIn(ticks))), trades |-> Len(ticks)]

BarAt(start, ticks) == Closed([time |-> start, part |-> Gathered(ticks)])

LEMMA SharesAppend ==
  ASSUME NEW ticks \in Seq(Share), NEW tick \in Share
  PROVE  /\ SizesIn(ticks) \in Seq(Nat) /\ AmountsIn(ticks) \in Seq(Nat)
         /\ SizesIn(Append(ticks, tick)) = Append(SizesIn(ticks), tick.size)
         /\ AmountsIn(Append(ticks, tick)) = Append(AmountsIn(ticks), tick.price * tick.size)
         /\ PricesIn(Append(ticks, tick)) = PricesIn(ticks) \cup {tick.price}
         /\ tick.size \in Nat /\ tick.price \in Nat /\ tick.price * tick.size \in Nat
<1> DEFINE more == Append(ticks, tick)
<1>1. PICK n \in Nat : n = Len(ticks) /\ DOMAIN ticks = 1..n
  OBVIOUS
<1>2. /\ Len(more) = n + 1 /\ DOMAIN more = 1..(n + 1) /\ more[n + 1] = tick
      /\ \A i \in 1..n : more[i] = ticks[i]
  BY <1>1
<1>3. \A x \in Share : x.size \in Nat /\ x.price \in Nat /\ x.price * x.size \in Nat
  <2> TAKE x \in Share
  <2>1. x.size \in Nat /\ x.price \in Nat
    BY DEF Share
  <2>2. \A a, b \in Nat : a * b \in Nat
    <3> TAKE a, b \in Nat
    <3>1. a * b \in Int
      OBVIOUS
    <3>2. CASE a = 0
      BY <3>2
    <3>3. CASE b = 0
      BY <3>3
    <3>4. CASE a # 0 /\ b # 0
      <4>1. a \in Nat \ {0} /\ b \in Nat \ {0}
        BY <3>4
      <4> QED BY <4>1, Products
    <3> QED BY <3>2, <3>3, <3>4
  <2> QED BY <2>1, <2>2
<1>4. \A i \in 1..n : ticks[i] \in Share
  BY <1>1
<1> HIDE DEF more
<1>5. SizesIn(ticks) \in Seq(Nat) /\ SizesIn(more) = Append(SizesIn(ticks), tick.size)
  <2> DEFINE f == SizesIn(ticks)
             g == SizesIn(more)
  <2>1. DOMAIN f = 1..n /\ \A i \in 1..n : f[i] = ticks[i].size
    BY <1>1 DEF SizesIn
  <2>2. DOMAIN g = 1..(n + 1) /\ \A i \in 1..(n + 1) : g[i] = more[i].size
    BY <1>2 DEF SizesIn
  <2>3. IsColumn(f, n) /\ IsColumn(g, n + 1)
    BY <1>1, <1>2 DEF IsColumn, SizesIn
  <2> HIDE DEF f, g
  <2>4. \A i \in 1..n : f[i] \in Nat
    BY <1>3, <1>4, <2>1
  <2>5. f \in Seq(Nat)
    BY <2>3, <2>4, ColumnType
  <2>6. \A i \in 1..n : g[i] = f[i]
    BY <1>2, <2>1, <2>2
  <2>7. g = Append(f, g[n + 1])
    BY <2>3, <2>6, GrownByOne
  <2>8. g[n + 1] = tick.size
    <3>1. n + 1 \in 1..(n + 1)
      OBVIOUS
    <3> QED BY <1>2, <2>2, <3>1
  <2> QED BY <2>5, <2>7, <2>8 DEF f, g
<1>6. /\ AmountsIn(ticks) \in Seq(Nat)
      /\ AmountsIn(more) = Append(AmountsIn(ticks), tick.price * tick.size)
  <2> DEFINE f == AmountsIn(ticks)
             g == AmountsIn(more)
  <2>1. DOMAIN f = 1..n /\ \A i \in 1..n : f[i] = ticks[i].price * ticks[i].size
    BY <1>1 DEF AmountsIn
  <2>2. DOMAIN g = 1..(n + 1) /\ \A i \in 1..(n + 1) : g[i] = more[i].price * more[i].size
    BY <1>2 DEF AmountsIn
  <2>3. IsColumn(f, n) /\ IsColumn(g, n + 1)
    BY <1>1, <1>2 DEF IsColumn, AmountsIn
  <2> HIDE DEF f, g
  <2>4. \A i \in 1..n : f[i] \in Nat
    BY <1>3, <1>4, <2>1
  <2>5. f \in Seq(Nat)
    BY <2>3, <2>4, ColumnType
  <2>6. \A i \in 1..n : g[i] = f[i]
    BY <1>2, <2>1, <2>2
  <2>7. g = Append(f, g[n + 1])
    BY <2>3, <2>6, GrownByOne
  <2>8. g[n + 1] = tick.price * tick.size
    <3>1. n + 1 \in 1..(n + 1)
      OBVIOUS
    <3> QED BY <1>2, <2>2, <3>1
  <2> QED BY <2>5, <2>7, <2>8 DEF f, g
<1>7. PricesIn(more) = PricesIn(ticks) \cup {tick.price}
  <2>1. \A i \in 1..n : i \in 1..(n + 1)
    OBVIOUS
  <2>2. \A i \in 1..(n + 1) : i \in 1..n \/ i = n + 1
    OBVIOUS
  <2>3. n + 1 \in 1..(n + 1)
    OBVIOUS
  <2> QED BY <1>1, <1>2, <2>1, <2>2, <2>3 DEF PricesIn
<1> QED BY <1>3, <1>5, <1>6, <1>7 DEF more

LEMMA TradeIsShare ==
  ASSUME NEW ticks \in Seq(Trade)
  PROVE  ticks \in Seq(Share)
<1>1. Trade \subseteq Share
  BY DEF Trade, Share
<1> QED BY <1>1

LEMMA TradesAppend ==
  ASSUME NEW ticks \in Seq(Trade), NEW tick \in Trade
  PROVE  /\ SizesIn(ticks) \in Seq(Nat) /\ AmountsIn(ticks) \in Seq(Nat)
         /\ SizesIn(Append(ticks, tick)) = Append(SizesIn(ticks), tick.size)
         /\ AmountsIn(Append(ticks, tick)) = Append(AmountsIn(ticks), tick.price * tick.size)
         /\ PricesIn(Append(ticks, tick)) = PricesIn(ticks) \cup {tick.price}
         /\ tick.size \in Nat \ {0} /\ tick.price \in Nat /\ tick.price * tick.size \in Nat
<1>1. tick \in Share /\ tick.size \in Nat \ {0}
  BY DEF Trade, Share
<1> QED BY <1>1, SharesAppend, TradeIsShare

\* The highest and the lowest price are prices.
LEMMA ShareBounds ==
  ASSUME NEW ticks \in Seq(Share), ticks # <<>>
  PROVE  /\ PricesIn(ticks) \subseteq Nat
         /\ Max(PricesIn(ticks)) \in PricesIn(ticks) /\ Min(PricesIn(ticks)) \in PricesIn(ticks)
         /\ \A p \in PricesIn(ticks) : Min(PricesIn(ticks)) <= p /\ p <= Max(PricesIn(ticks))
<1> DEFINE Good == {t \in Seq(Share) :
                       /\ PricesIn(t) \subseteq Nat
                       /\ t # <<>> => \E m \in PricesIn(t), l \in PricesIn(t) :
                                         \A p \in PricesIn(t) : l <= p /\ p <= m}
<1>1. <<>> \in Good
  <2>1. PricesIn(<<>>) = {} /\ <<>> \in Seq(Share)
    BY DEF PricesIn
  <2> QED BY <2>1
<1>2. ASSUME NEW t \in Seq(Share), t \in Good, NEW tick \in Share
      PROVE  Append(t, tick) \in Good
  <2>1. PricesIn(Append(t, tick)) = PricesIn(t) \cup {tick.price} /\ tick.price \in Nat
    BY SharesAppend
  <2>2. Append(t, tick) \in Seq(Share)
    OBVIOUS
  <2>3. PICK more : more = Append(t, tick)
    OBVIOUS
  <2>4. PICK P : P = PricesIn(t)
    OBVIOUS
  <2>5. PICK c \in Nat : c = tick.price
    BY <2>1
  <2>6. P \subseteq Nat
    BY <1>2, <2>4
  <2>7. \E m \in P \cup {c}, l \in P \cup {c} : \A p \in P \cup {c} : l <= p /\ p <= m
    <3>1. CASE t = <<>>
      <4>1. P = {}
        BY <2>4, <3>1 DEF PricesIn
      <4> QED BY <4>1
    <3>2. CASE t # <<>>
      <4>1. PICK m \in P, l \in P : \A p \in P : l <= p /\ p <= m
        BY <1>2, <2>4, <3>2
      <4>2. PICK h \in P \cup {c} : h >= m /\ h >= c
        BY <2>6
      <4>3. PICK k \in P \cup {c} : k <= l /\ k <= c
        BY <2>6
      <4>4. \A p \in P \cup {c} : k <= p /\ p <= h
        BY <2>6, <4>1, <4>2, <4>3
      <4> QED BY <4>4
    <3> QED BY <3>1, <3>2
  <2> QED BY <2>1, <2>2, <2>4, <2>5, <2>6, <2>7
<1>3. Seq(Share) \subseteq Good
  <2> HIDE DEF Good
  <2> QED BY <1>1, <1>2, SeqInduction
<1>4. PICK P : P = PricesIn(ticks)
  OBVIOUS
<1>5. P \subseteq Nat /\ \E m \in P, l \in P : \A p \in P : l <= p /\ p <= m
  BY <1>3, <1>4
<1>6. PICK m \in P, l \in P : \A p \in P : l <= p /\ p <= m
  BY <1>5
<1>7. P \subseteq Int
  BY <1>5
<1>8. Max(P) = m
  BY <1>6, <1>7, MaxAt
<1>9. Min(P) = l
  BY <1>6, <1>7, MinAt
<1> QED BY <1>4, <1>5, <1>6, <1>8, <1>9

LEMMA PriceBounds ==
  ASSUME NEW ticks \in Seq(Trade), ticks # <<>>
  PROVE  /\ PricesIn(ticks) \subseteq Nat
         /\ Max(PricesIn(ticks)) \in PricesIn(ticks) /\ Min(PricesIn(ticks)) \in PricesIn(ticks)
         /\ \A p \in PricesIn(ticks) : Min(PricesIn(ticks)) <= p /\ p <= Max(PricesIn(ticks))
BY ShareBounds, TradeIsShare

LEMMA GatheredType ==
  ASSUME NEW ticks \in Seq(Trade), ticks # <<>>
  PROVE  Gathered(ticks) \in PartType /\ Added(SizesIn(ticks)) \in Nat \ {0}
         /\ Added(AmountsIn(ticks)) \in Nat
<1>1. PICK n \in Nat \ {0} : n = Len(ticks)
  OBVIOUS
<1>2. /\ Max(PricesIn(ticks)) \in Int /\ Min(PricesIn(ticks)) \in Int
  BY PriceBounds
<1>3. ticks[1] \in Trade /\ ticks[n] \in Trade
  BY <1>1
<1>4. ticks[1].price \in Int /\ ticks[n].price \in Int
  BY <1>3 DEF Trade
<1>5. SizesIn(ticks) \in Seq(Nat) /\ AmountsIn(ticks) \in Seq(Nat)
  BY <1>3, TradesAppend
<1>6. Added(SizesIn(ticks)) > 0
  <2>1. DOMAIN SizesIn(ticks) = 1..n /\ \A i \in 1..n : SizesIn(ticks)[i] = ticks[i].size
    BY <1>1 DEF SizesIn
  <2>2. Len(SizesIn(ticks)) = n /\ SizesIn(ticks) # <<>>
    BY <1>5, <2>1
  <2>3. \A i \in 1..n : ticks[i].size > 0
    <3> TAKE i \in 1..n
    <3>1. ticks[i] \in Trade
      BY <1>1
    <3> QED BY <3>1 DEF Trade
  <2> QED BY <1>5, <2>1, <2>2, <2>3, AddedPositive
<1>7. Added(SizesIn(ticks)) \in Nat /\ Added(AmountsIn(ticks)) \in Nat
  BY <1>5, AddedLaw
<1>8. Whole(Added(AmountsIn(ticks))) \in Rational
  BY <1>7, WholeType
<1> QED BY <1>1, <1>2, <1>4, <1>6, <1>7, <1>8 DEF Gathered, PartType

LEMMA GatheredOne ==
  ASSUME NEW tick \in Trade
  PROVE  Gathered(<<tick>>) = TickPart(tick)
<1> DEFINE one == <<tick>>
<1>1. one = Append(<<>>, tick) /\ Len(one) = 1 /\ one[1] = tick
  OBVIOUS
<1>2. /\ SizesIn(one) = Append(SizesIn(<<>>), tick.size)
      /\ AmountsIn(one) = Append(AmountsIn(<<>>), tick.price * tick.size)
      /\ PricesIn(one) = PricesIn(<<>>) \cup {tick.price}
      /\ tick.size \in Nat /\ tick.price \in Nat /\ tick.price * tick.size \in Nat
  <2>1. <<>> \in Seq(Trade)
    OBVIOUS
  <2> QED BY <1>1, <2>1, TradesAppend
<1>3. SizesIn(<<>>) = <<>> /\ AmountsIn(<<>>) = <<>> /\ PricesIn(<<>>) = {}
  BY DEF SizesIn, AmountsIn, PricesIn
<1>4. \A n \in Nat : Added(Append(<<>>, n)) = n
  <2>1. <<>> \in Seq(Nat)
    OBVIOUS
  <2>2. ASSUME NEW n \in Nat PROVE Added(Append(<<>>, n)) = n
    <3>1. Added(Append(<<>>, n)) = 0 + n
      BY <2>1, AddedLaw
    <3> QED BY <3>1
  <2> QED BY <2>2
<1>5. Added(SizesIn(one)) = tick.size /\ Added(AmountsIn(one)) = tick.price * tick.size
  BY <1>2, <1>3, <1>4
<1>6. PricesIn(one) = {tick.price}
  BY <1>2, <1>3
<1>7. Max(PricesIn(one)) = tick.price /\ Min(PricesIn(one)) = tick.price
  <2>1. PICK p \in Nat : p = tick.price
    BY <1>2
  <2>2. {p} \subseteq Int /\ p \in {p} /\ \A k \in {p} : k <= p /\ p <= k
    OBVIOUS
  <2>3. Max({p}) = p /\ Min({p}) = p
    BY <2>2, MaxAt, MinAt
  <2> QED BY <1>6, <2>1, <2>3
<1> HIDE DEF one
<1>8. Gathered(one) = TickPart(tick)
  BY <1>1, <1>5, <1>7 DEF Gathered, TickPart
<1> QED BY <1>8 DEF one

LEMMA GatheredMore ==
  ASSUME NEW ticks \in Seq(Trade), ticks # <<>>, NEW tick \in Trade, NEW start
  PROVE  Updated([time |-> start, part |-> Gathered(ticks)], TickPart(tick))
            = [time |-> start, part |-> Gathered(Append(ticks, tick))]
<1> DEFINE more == Append(ticks, tick)
           P == PricesIn(ticks)
           c == tick.price
<1>1. PICK n \in Nat \ {0} : n = Len(ticks)
  OBVIOUS
<1>2. Len(more) = n + 1 /\ more[1] = ticks[1] /\ more[n + 1] = tick
  BY <1>1
<1>3. /\ SizesIn(ticks) \in Seq(Nat) /\ AmountsIn(ticks) \in Seq(Nat)
      /\ SizesIn(more) = Append(SizesIn(ticks), tick.size)
      /\ AmountsIn(more) = Append(AmountsIn(ticks), c * tick.size)
      /\ PricesIn(more) = P \cup {c}
      /\ tick.size \in Nat /\ c \in Nat /\ c * tick.size \in Nat
  BY TradesAppend
<1>4. /\ P \subseteq Nat /\ Max(P) \in P /\ Min(P) \in P
      /\ \A p \in P : Min(P) <= p /\ p <= Max(P)
  BY PriceBounds
<1> HIDE DEF more, P, c
<1>5. PICK h \in Nat : h = Max(P)
  BY <1>4
<1>6. PICK l \in Nat : l = Min(P)
  BY <1>4
<1>7. Max(P \cup {c}) = Max({h, c})
  <2> DEFINE m == IF h >= c THEN h ELSE c
  <2>1. m \in P \cup {c} /\ \A k \in P \cup {c} : k <= m
    BY <1>3, <1>4, <1>5
  <2>2. P \cup {c} \subseteq Int
    BY <1>3, <1>4
  <2>3. Max({h, c}) = m
    <3>1. h \in Int /\ c \in Int
      BY <1>3
    <3> QED BY <3>1, MaxPair
  <2> HIDE DEF m
  <2> QED BY <2>1, <2>2, <2>3, MaxAt
<1>8. Min(P \cup {c}) = Min({l, c})
  <2> DEFINE m == IF l <= c THEN l ELSE c
  <2>1. m \in P \cup {c} /\ \A k \in P \cup {c} : m <= k
    BY <1>3, <1>4, <1>6
  <2>2. P \cup {c} \subseteq Int
    BY <1>3, <1>4
  <2>3. Min({l, c}) = m
    <3>1. l \in Int /\ c \in Int
      BY <1>3
    <3> QED BY <3>1, MinPair
  <2> HIDE DEF m
  <2> QED BY <2>1, <2>2, <2>3, MinAt
<1>9. Added(SizesIn(more)) = Added(SizesIn(ticks)) + tick.size
  BY <1>3, AddedLaw
<1>10. Plus(Whole(Added(AmountsIn(ticks))), Whole(c * tick.size)) = Whole(Added(AmountsIn(more)))
  <2>1. PICK a \in Nat : a = Added(AmountsIn(ticks))
    BY <1>3, AddedLaw
  <2>2. PICK b \in Nat : b = c * tick.size
    BY <1>3
  <2>3. Added(AmountsIn(more)) = a + b
    BY <1>3, <2>1, <2>2, AddedLaw
  <2>4. a \in Int /\ b \in Int
    OBVIOUS
  <2>5. Plus(Whole(a), Whole(b)) = Whole(a + b)
    BY <2>4, WholePlus
  <2> QED BY <2>1, <2>2, <2>3, <2>5
<1>11. PICK g : g = Gathered(ticks)
  OBVIOUS
<1>12. /\ g.open = ticks[1].price /\ g.high = h /\ g.low = l
       /\ g.volume = Added(SizesIn(ticks)) /\ g.mass = Whole(Added(AmountsIn(ticks)))
       /\ g.trades = n
  BY <1>1, <1>5, <1>6, <1>11 DEF Gathered, P
<1>13. PICK x : x = TickPart(tick)
  OBVIOUS
<1>14. /\ x.high = c /\ x.low = c /\ x.close = c /\ x.volume = tick.size
       /\ x.mass = Whole(c * tick.size) /\ x.trades = 1
  BY <1>13 DEF TickPart, c
<1>15. Updated([time |-> start, part |-> g], x)
          = [time |-> start,
             part |-> [open |-> g.open, high |-> Max({g.high, x.high}),
                       low |-> Min({g.low, x.low}), close |-> x.close,
                       volume |-> g.volume + x.volume,
                       mass |-> Plus(g.mass, x.mass), trades |-> g.trades + x.trades]]
  BY DEF Updated
<1>16. Gathered(more) = [open |-> g.open, high |-> Max({h, c}), low |-> Min({l, c}), close |-> c,
                         volume |-> g.volume + x.volume, mass |-> Plus(g.mass, x.mass),
                         trades |-> g.trades + x.trades]
  BY <1>2, <1>3, <1>7, <1>8, <1>9, <1>10, <1>12, <1>14 DEF Gathered, c
<1> QED BY <1>11, <1>12, <1>13, <1>14, <1>15, <1>16 DEF more

-----------------------------------------------------------------------------
(* The trades of a bucket in shares of today, and the bar of them.         *)

\* A trade in shares of today: a share of then is f of them.
Grown(f, tick) ==
    [time |-> tick.time, price |-> ScalePrice(tick.price, Flip(f)),
     size |-> Times(Whole(tick.size), f)]


LEMMA PriceExact ==
  ASSUME NEW f \in Positive, NEW p \in Nat, FineFor(f, p)
  PROVE  ScalePrice(p, Flip(f)) \in Int /\ ScalePrice(p, Flip(f)) * f.n = p * f.d
<1>1. PICK n \in Nat \ {0} : n = f.n
  BY DEF Positive
<1>2. PICK d \in Nat \ {0} : d = f.d
  BY DEF Positive
<1>3. PICK x \in Int : x = p * d
  OBVIOUS
<1>4. x % n = 0
  BY <1>1, <1>2, <1>3 DEF FineFor
<1>5. PICK c \in Int : x = n * c
  BY <1>4, WholeMultiple
<1>6. x \div n = c
  <2>1. n * c <= x /\ x < n * c + n
    BY <1>5
  <2> QED BY <2>1, QuotientBounds
<1>7. Flip(f).n = d /\ Flip(f).d = n
  BY <1>1, <1>2 DEF Flip
<1>8. ScalePrice(p, Flip(f)) = c
  BY <1>3, <1>6, <1>7 DEF ScalePrice
<1>9. c * n = n * c
  OBVIOUS
<1> QED BY <1>1, <1>2, <1>3, <1>5, <1>8, <1>9

LEMMA PriceOrder ==
  ASSUME NEW g \in Positive, NEW a \in Int, NEW b \in Int, a <= b
  PROVE  ScalePrice(a, g) \in Int /\ ScalePrice(a, g) <= ScalePrice(b, g)
<1>1. PICK n \in Nat \ {0} : n = g.n
  BY DEF Positive
<1>2. PICK d \in Nat \ {0} : d = g.d
  BY DEF Positive
<1>3. PICK x \in Int : x = a * n
  OBVIOUS
<1>4. PICK y \in Int : y = b * n
  OBVIOUS
<1>5. x <= y
  <2>1. a * n = n * a /\ b * n = n * b
    OBVIOUS
  <2>2. CASE a = b
    BY <1>3, <1>4, <2>2
  <2>3. CASE a < b
    <3>1. n * a + n <= n * b
      BY <2>3, Multiples
    <3>2. x + n <= y
      BY <1>3, <1>4, <2>1, <3>1
    <3> QED BY <3>2
  <2> QED BY <2>2, <2>3
<1>6. PICK u \in Int : u = x \div d
  BY Division
<1>7. PICK v \in Int : v = y \div d
  BY Division
<1>8. d * u <= x /\ y < d * v + d
  BY <1>6, <1>7, Division
<1>9. PICK e \in Int : e = d * u
  OBVIOUS
<1>10. PICK h \in Int : h = d * v
  OBVIOUS
<1>11. e < h + d
  BY <1>5, <1>8, <1>9, <1>10
<1>12. u <= v
  BY <1>9, <1>10, <1>11, Multiples
<1>13. ScalePrice(a, g) = u /\ ScalePrice(b, g) = v
  BY <1>1, <1>2, <1>3, <1>4, <1>6, <1>7 DEF ScalePrice
<1> QED BY <1>12, <1>13

\* A split changes neither what was paid nor, over all, the market's value.
LEMMA SameValue ==
  ASSUME NEW f \in Positive, NEW tick \in Trade, FineFor(f, tick.price)
  PROVE  LET grown == Grown(f, tick)
         IN  /\ grown.size = Quotient(tick.size * f.n, f.d)
             /\ Times(Whole(grown.price), grown.size) = Whole(tick.price * tick.size)
<1>1. PICK n \in Nat \ {0} : n = f.n
  BY DEF Positive
<1>2. PICK d \in Nat \ {0} : d = f.d
  BY DEF Positive
<1>3. PICK p \in Nat : p = tick.price
  BY DEF Trade
<1>4. PICK s \in Nat \ {0} : s = tick.size
  BY DEF Trade
<1>5. PICK c \in Int : c = ScalePrice(p, Flip(f)) /\ c * n = p * d
  BY <1>1, <1>2, <1>3, PriceExact
<1>6. PICK x \in Int : x = s * n
  OBVIOUS
<1>7. Times(Whole(s), f) = Quotient(x, d)
  <2>1. s \in Int
    OBVIOUS
  <2> QED BY <1>1, <1>2, <1>6, <2>1, WholeTimes
<1>8. Times(Whole(c), Quotient(x, d)) = Quotient(c * x, 1 * d)
  <2>1. 1 \in Nat \ {0}
    OBVIOUS
  <2>2. Whole(c) = Quotient(c, 1)
    BY WholeIs
  <2> QED BY <2>1, <2>2, TimesQuotients
<1>9. Quotient(c * x, d) = Quotient(p * s, 1)
  <2>1. c * x = (c * n) * s
    BY <1>6
  <2>2. (p * d) * s = (p * s) * d
    OBVIOUS
  <2>3. PICK y \in Int : y = c * x
    OBVIOUS
  <2>4. PICK z \in Int : z = p * s
    OBVIOUS
  <2>5. y * 1 = z * d
    BY <1>5, <2>1, <2>2, <2>3, <2>4
  <2>6. 1 \in Nat \ {0}
    OBVIOUS
  <2>7. Quotient(y, d) = Quotient(z, 1)
    BY <2>5, <2>6, QuotientSame
  <2> QED BY <2>3, <2>4, <2>7
<1>10. Quotient(p * s, 1) = Whole(p * s)
  <2>1. p * s \in Int
    OBVIOUS
  <2> QED BY <2>1, WholeIs
<1>11. 1 * d = d
  OBVIOUS
<1>12. Times(Whole(c), Quotient(x, d)) = Whole(p * s)
  BY <1>8, <1>9, <1>10, <1>11
<1>13. Grown(f, tick).size = Quotient(x, d) /\ Grown(f, tick).price = c
  BY <1>3, <1>4, <1>5, <1>7 DEF Grown
<1> QED BY <1>1, <1>2, <1>3, <1>4, <1>6, <1>12, <1>13

LEMMA BarAtIs ==
  ASSUME NEW ticks \in Seq(Trade), ticks # <<>>, NEW start \in Int
  PROVE  /\ BarAt(start, ticks) \in BarType
         /\ BarAt(start, ticks)
               = [time |-> start, open |-> ticks[1].price, high |-> Max(PricesIn(ticks)),
                  low |-> Min(PricesIn(ticks)), close |-> ticks[Len(ticks)].price,
                  volume |-> Added(SizesIn(ticks)),
                  vwap |-> Quotient(Added(AmountsIn(ticks)), Added(SizesIn(ticks))),
                  trades |-> Len(ticks)]
<1>1. Gathered(ticks) \in PartType /\ Added(SizesIn(ticks)) \in Nat \ {0}
      /\ Added(AmountsIn(ticks)) \in Nat
  BY GatheredType
<1>2. PICK V \in Nat \ {0} : V = Added(SizesIn(ticks))
  BY <1>1
<1>3. PICK M \in Int : M = Added(AmountsIn(ticks))
  BY <1>1
<1>4. Times(Whole(M), Quotient(1, V)) = Quotient(M, V)
  <2>1. 1 \in Nat \ {0} /\ 1 \in Int /\ M * 1 = M /\ 1 * V = V
    OBVIOUS
  <2>2. Whole(M) = Quotient(M, 1)
    BY WholeIs
  <2>3. Times(Quotient(M, 1), Quotient(1, V)) = Quotient(M * 1, 1 * V)
    BY <2>1, TimesQuotients
  <2> QED BY <2>1, <2>2, <2>3
<1>5. PICK g : g = Gathered(ticks)
  OBVIOUS
<1>6. /\ g.open = ticks[1].price /\ g.high = Max(PricesIn(ticks)) /\ g.low = Min(PricesIn(ticks))
      /\ g.close = ticks[Len(ticks)].price /\ g.volume = V /\ g.mass = Whole(M)
      /\ g.trades = Len(ticks)
  BY <1>2, <1>3, <1>5 DEF Gathered
<1>7. Closed([time |-> start, part |-> g])
         = [time |-> start, open |-> g.open, high |-> g.high, low |-> g.low,
            close |-> g.close, volume |-> g.volume, vwap |-> Times(g.mass, Quotient(1, g.volume)),
            trades |-> g.trades]
  <2>1. g.volume # 0
    BY <1>6
  <2> QED BY <2>1 DEF Closed
<1>8. [time |-> start, part |-> g] \in AccType
  BY <1>1, <1>5 DEF AccType
<1>9. Closed([time |-> start, part |-> g]) \in BarType
  BY <1>8, ClosedType
<1> QED BY <1>2, <1>3, <1>4, <1>5, <1>6, <1>7, <1>9 DEF BarAt

\* Shares to the nearest one.
LEMMA SharesNear ==
  ASSUME NEW f \in Positive, NEW V \in Nat
  PROVE  /\ ScaleShares(V, f) \in Int
         /\ LET off == Plus(Whole(ScaleShares(V, f)),
                            Times(Whole(-1), Quotient(V * f.n, f.d)))
            IN  2 * off.n \in (-off.d)..off.d
<1>1. PICK n \in Nat \ {0} : n = f.n
  BY DEF Positive
<1>2. PICK d \in Nat \ {0} : d = f.d
  BY DEF Positive
<1>3. PICK x \in Int : x = V * n
  OBVIOUS
<1>4. PICK e \in Nat \ {0} : e = 2 * d
  OBVIOUS
<1>5. PICK y \in Int : y = 2 * x + d
  OBVIOUS
<1>6. PICK v \in Int : v = y \div e
  BY Division
<1>7. PICK z \in Int : z = d * v
  OBVIOUS
<1>8. 2 * z <= y /\ y < 2 * z + 2 * d
  <2>1. e * v <= y /\ y < e * v + e
    BY <1>6, Division
  <2>2. e * v = 2 * z
    BY <1>4, <1>7
  <2> QED BY <1>4, <2>1, <2>2
<1>9. ScaleShares(V, f) = v
  <2>1. 2 * V * f.n + f.d = y
    <3>1. 2 * V * n = 2 * x
      BY <1>3
    <3> QED BY <1>1, <1>2, <1>5, <3>1
  <2> QED BY <1>2, <1>4, <1>6, <2>1 DEF ScaleShares
<1>10. Times(Whole(-1), Quotient(x, d)) = Quotient(-x, d)
  <2>1. 1 \in Nat \ {0} /\ -1 \in Int /\ (-1) * x = -x /\ 1 * d = d
    OBVIOUS
  <2>2. Whole(-1) = Quotient(-1, 1)
    BY <2>1, WholeIs
  <2>3. Times(Quotient(-1, 1), Quotient(x, d)) = Quotient((-1) * x, 1 * d)
    BY <2>1, TimesQuotients
  <2> QED BY <2>1, <2>2, <2>3
<1>11. Plus(Whole(v), Quotient(-x, d)) = Quotient(z - x, d)
  <2>1. 1 \in Nat \ {0} /\ -x \in Int
    OBVIOUS
  <2>2. Whole(v) = Quotient(v, 1)
    BY WholeIs
  <2>3. Plus(Quotient(v, 1), Quotient(-x, d)) = Quotient(v * d + (-x) * 1, 1 * d)
    BY <2>1, PlusQuotients
  <2>4. v * d + (-x) * 1 = z - x /\ 1 * d = d
    BY <1>7
  <2> QED BY <2>2, <2>3, <2>4
<1>12. PICK k \in Int : k = z - x /\ 2 * k <= d /\ -d < 2 * k
  BY <1>5, <1>7, <1>8
<1>13. PICK off : off = Quotient(k, d)
  OBVIOUS
<1>14. off.n \in Int /\ off.d \in Nat \ {0} /\ off.n * d = k * off.d
  BY <1>13, QuotientIs
<1>15. PICK a \in Int : a = off.n
  BY <1>14
<1>16. PICK b \in Nat \ {0} : b = off.d
  BY <1>14
<1>17. 2 * a \in (-b)..b
  <2>1. d * (2 * a) = b * (2 * k)
    <3>1. a * d = k * b
      BY <1>14, <1>15, <1>16
    <3>2. d * (2 * a) = 2 * (a * d) /\ b * (2 * k) = 2 * (k * b)
      OBVIOUS
    <3> QED BY <3>1, <3>2
  <2>2. 2 * a <= b
    <3>1. PICK m \in Int : m = 2 * k
      OBVIOUS
    <3>2. b * m <= b * d
      <4>1. m <= d
        BY <1>12, <3>1
      <4>2. CASE m = d
        BY <4>2
      <4>3. CASE m < d
        <5>1. b * m + b <= b * d /\ b * m \in Int /\ b * d \in Int
          BY <4>3, Multiples
        <5> QED BY <5>1
      <4> QED BY <4>1, <4>2, <4>3
    <3>3. d * (2 * a) <= d * b
      <4>1. b * d = d * b
        OBVIOUS
      <4> QED BY <2>1, <3>1, <3>2, <4>1
    <3>4. PICK c \in Int : c = 2 * a
      OBVIOUS
    <3>5. d * c < d * b + d
      <4>1. d * c \in Int /\ d * b \in Int
        OBVIOUS
      <4> QED BY <3>3, <3>4, <4>1
    <3>6. c <= b
      BY <3>5, Multiples
    <3> QED BY <3>4, <3>6
  <2>3. -b <= 2 * a
    <3>1. PICK m \in Int : m = -(2 * k)
      OBVIOUS
    <3>2. b * m <= b * d
      <4>1. m < d
        BY <1>12, <3>1
      <4>2. b * m + b <= b * d /\ b * m \in Int /\ b * d \in Int
        BY <4>1, Multiples
      <4> QED BY <4>2
    <3>3. d * (-(2 * a)) <= d * b
      <4>1. b * d = d * b
        OBVIOUS
      <4>2. b * m = -(b * (2 * k)) /\ d * (-(2 * a)) = -(d * (2 * a))
        BY <3>1
      <4> QED BY <2>1, <3>2, <4>1, <4>2
    <3>4. PICK c \in Int : c = -(2 * a)
      OBVIOUS
    <3>5. d * c < d * b + d
      <4>1. d * c \in Int /\ d * b \in Int
        OBVIOUS
      <4> QED BY <3>3, <3>4, <4>1
    <3>6. c <= b
      BY <3>5, Multiples
    <3> QED BY <3>4, <3>6
  <2>4. 2 * a \in Int /\ -b \in Int
    OBVIOUS
  <2> QED BY <2>2, <2>3, <2>4
<1>18. Plus(Whole(v), Times(Whole(-1), Quotient(x, d))) = off
  BY <1>10, <1>11, <1>12, <1>13
<1> QED BY <1>1, <1>2, <1>3, <1>9, <1>15, <1>16, <1>17, <1>18

LEMMA Cancel ==
  ASSUME NEW v \in Nat \ {0}, NEW x \in Int, NEW y \in Int, v * x = v * y
  PROVE  x = y
<1>1. CASE x < y
  <2>1. v * x + v <= v * y /\ v * x \in Int
    BY <1>1, Multiples
  <2> QED BY <2>1
<1>2. CASE y < x
  <2>1. v * y + v <= v * x /\ v * y \in Int
    BY <1>2, Multiples
  <2> QED BY <2>1
<1> QED BY <1>1, <1>2

ScaledPrices(S, g) == {ScalePrice(p, g) : p \in S}

LEMMA GrownAt ==
  ASSUME NEW f \in Positive, NEW ticks \in Seq(Trade), ticks # <<>>,
         NEW grown, grown = [i \in DOMAIN ticks |-> Grown(f, ticks[i])]
  PROVE  /\ DOMAIN grown = DOMAIN ticks /\ Len(grown) = Len(ticks) /\ grown # <<>>
         /\ Head(grown) = Grown(f, ticks[1]) /\ Last(grown) = Grown(f, ticks[Len(ticks)])
         /\ PricesIn(grown) = ScaledPrices(PricesIn(ticks), Flip(f))
<1>1. PICK n \in Nat : n = Len(ticks) /\ DOMAIN ticks = 1..n /\ n # 0
  OBVIOUS
<1>2. grown = [i \in 1..n |-> Grown(f, ticks[i])]
  BY <1>1
<1> DEFINE G(i) == Grown(f, ticks[i])
<1> HIDE DEF G
<1>3. grown = [i \in 1..n |-> G(i)]
  BY <1>2 DEF G
<1>4. Len(grown) = n /\ DOMAIN grown = 1..n /\ \A i \in 1..n : grown[i] = G(i)
  BY <1>3
<1>5. grown # <<>>
  BY <1>1, <1>4
<1>6. 1 \in 1..n /\ n \in 1..n
  BY <1>1
<1>7. Head(grown) = grown[1]
  <2>1. grown \in Seq({G(i) : i \in 1..n})
    BY <1>3
  <2> QED BY <2>1, <1>5
<1>8. Last(grown) = grown[n]
  BY <1>4 DEF Last
<1>9. \A i \in 1..n : G(i).price = ScalePrice(ticks[i].price, Flip(f))
  BY DEF G, Grown
<1>10. {grown[i].price : i \in 1..n} = {ScalePrice(ticks[i].price, Flip(f)) : i \in 1..n}
  BY <1>4, <1>9
<1>11. {ScalePrice(ticks[i].price, Flip(f)) : i \in 1..n}
          = {ScalePrice(p, Flip(f)) : p \in PricesIn(ticks)}
  BY <1>1 DEF PricesIn
<1>12. PricesIn(grown) = ScaledPrices(PricesIn(ticks), Flip(f))
  BY <1>4, <1>10, <1>11 DEF PricesIn, ScaledPrices
<1> QED BY <1>1, <1>4, <1>5, <1>6, <1>7, <1>8, <1>12 DEF G

\* The highest and the lowest price stay the highest and the lowest.
LEMMA GrownBounds ==
  ASSUME NEW g \in Positive, NEW S, S \subseteq Int, NEW h \in S, NEW l \in S,
         \A p \in S : l <= p /\ p <= h
  PROVE  /\ Max(ScaledPrices(S, g)) = ScalePrice(h, g)
         /\ Min(ScaledPrices(S, g)) = ScalePrice(l, g)
<1> DEFINE T == ScaledPrices(S, g)
<1>1. \A p \in S : ScalePrice(p, g) \in Int
                   /\ ScalePrice(l, g) <= ScalePrice(p, g) /\ ScalePrice(p, g) <= ScalePrice(h, g)
  BY PriceOrder
<1>2. T \subseteq Int /\ ScalePrice(h, g) \in T /\ ScalePrice(l, g) \in T
  BY <1>1 DEF ScaledPrices
<1>3. \A k \in T : k <= ScalePrice(h, g) /\ ScalePrice(l, g) <= k
  BY <1>1 DEF ScaledPrices
<1> HIDE DEF T
<1>4. Max(T) = ScalePrice(h, g)
  BY <1>2, <1>3, MaxAt
<1>5. Min(T) = ScalePrice(l, g)
  BY <1>2, <1>3, MinAt
<1> QED BY <1>4, <1>5 DEF T

\* What was traded, and what was paid for it.
LEMMA GrownSums ==
  ASSUME NEW f \in Positive, NEW ticks \in Seq(Trade), ticks # <<>>,
         \A i \in 1..Len(ticks) : FineFor(f, ticks[i].price),
         NEW grown, grown = [i \in DOMAIN ticks |-> Grown(f, ticks[i])]
  PROVE  /\ SizeOf(grown) = Quotient(Added(SizesIn(ticks)) * f.n, f.d)
         /\ MassOf(grown) = Whole(Added(AmountsIn(ticks)))
<1>1. PICK n \in Nat : n = Len(ticks) /\ DOMAIN ticks = 1..n /\ n # 0
  OBVIOUS
<1>2. PICK N \in Nat : N = f.n
  BY DEF Positive
<1>3. PICK d \in Nat \ {0} : d = f.d
  BY DEF Positive
<1>4. DOMAIN grown = 1..n /\ \A i \in 1..n : grown[i] = Grown(f, ticks[i])
  BY <1>1
<1>5. \A i \in 1..n : ticks[i] \in Trade /\ FineFor(f, ticks[i].price)
  BY <1>1
<1>6. \A i \in 1..n : /\ grown[i].size = Quotient(ticks[i].size * N, d)
                      /\ Times(Whole(grown[i].price), grown[i].size)
                            = Whole(ticks[i].price * ticks[i].size)
  BY <1>2, <1>3, <1>4, <1>5, SameValue
<1>7. PICK sizes : sizes = SizesIn(ticks)
  OBVIOUS
<1>8. PICK amounts : amounts = AmountsIn(ticks)
  OBVIOUS
<1>9. DOMAIN sizes = 1..n /\ \A i \in 1..n : sizes[i] = ticks[i].size
  BY <1>1, <1>7 DEF SizesIn
<1>10. DOMAIN amounts = 1..n /\ \A i \in 1..n : amounts[i] = ticks[i].price * ticks[i].size
  BY <1>1, <1>8 DEF AmountsIn
<1>11. sizes \in Seq(Nat) /\ amounts \in Seq(Nat)
  <2>1. ticks[1] \in Trade
    BY <1>1, <1>5
  <2> QED BY <1>7, <1>8, <2>1, TradesAppend
<1>12. [i \in DOMAIN grown |-> grown[i].size] = [i \in DOMAIN sizes |-> Quotient(sizes[i] * N, d)]
  BY <1>4, <1>6, <1>9
<1>13. [i \in DOMAIN grown |-> Times(Whole(grown[i].price), grown[i].size)]
          = [i \in DOMAIN amounts |-> Whole(amounts[i])]
  BY <1>4, <1>6, <1>10
<1>14. SizeOf(grown) = Quotient(Added(sizes) * N, d)
  BY <1>11, <1>12, FractionsTotal DEF SizeOf
<1>15. MassOf(grown) = Whole(Added(amounts))
  BY <1>11, <1>13, AddedLaw DEF MassOf
<1> QED BY <1>2, <1>3, <1>7, <1>8, <1>14, <1>15

\* The average price over the shares of today.
LEMMA AverageToday ==
  ASSUME NEW f \in Positive, NEW M \in Nat, NEW V \in Nat \ {0}
  PROVE  /\ Quotient(M, V) # NaN
         /\ Times(Quotient(M, V), Flip(f)) = Times(Whole(M), Flip(Quotient(V * f.n, f.d)))
<1>1. PICK n \in Nat \ {0} : n = f.n
  BY DEF Positive
<1>2. PICK d \in Nat \ {0} : d = f.d
  BY DEF Positive
<1>3. PICK x \in Nat \ {0} : x = V * n
  BY Products
<1>4. PICK q : q = Quotient(M, V)
  OBVIOUS
<1>5. q.n \in Int /\ q.d \in Nat \ {0} /\ q.n * V = M * q.d
  BY <1>4, QuotientIs
<1>6. PICK a \in Int : a = q.n
  BY <1>5
<1>7. PICK b \in Nat \ {0} : b = q.d
  BY <1>5
<1>8. PICK r : r = Quotient(x, d)
  OBVIOUS
<1>9. r.n \in Int /\ r.d \in Nat \ {0} /\ r.n * d = x * r.d /\ r.n > 0
  <2>1. x \in Int /\ x > 0
    OBVIOUS
  <2> QED BY <1>8, <2>1, QuotientIs
<1>10. PICK u \in Nat \ {0} : u = r.n
  BY <1>9
<1>11. PICK v \in Nat \ {0} : v = r.d
  BY <1>9
<1>12. a * V = M * b /\ u * d = x * v
  BY <1>5, <1>6, <1>7, <1>9, <1>10, <1>11
<1>13. Times(q, Flip(f)) = Quotient(a * d, b * n)
  BY <1>1, <1>2, <1>6, <1>7 DEF Times, Flip
<1>14. Times(Whole(M), Flip(r)) = Quotient(M * v, 1 * u)
  BY <1>10, <1>11 DEF Times, Flip, Whole
<1>15. (a * d) * u = (M * v) * (b * n)
  <2>1. PICK l \in Int : l = (a * d) * u
    OBVIOUS
  <2>2. PICK k \in Int : k = (M * v) * (b * n)
    OBVIOUS
  <2>3. V * l = (a * V) * (u * d)
    BY <2>1
  <2>4. (M * b) * (x * v) = (M * b) * ((V * n) * v)
    BY <1>3
  <2>5. V * k = (M * b) * ((V * n) * v)
    BY <2>2
  <2>6. V * l = V * k
    BY <1>12, <2>3, <2>4, <2>5
  <2>7. l = k
    BY <2>6, Cancel
  <2> QED BY <2>1, <2>2, <2>7
<1>16. Quotient(a * d, b * n) = Quotient(M * v, u)
  <2>1. PICK l \in Int : l = a * d
    OBVIOUS
  <2>2. PICK k \in Int : k = M * v
    OBVIOUS
  <2>3. PICK e \in Nat \ {0} : e = b * n
    BY Products
  <2>4. l * u = k * e
    BY <1>15, <2>1, <2>2, <2>3
  <2>5. Quotient(l, e) = Quotient(k, u)
    BY <2>4, QuotientSame
  <2> QED BY <2>1, <2>2, <2>3, <2>5
<1>17. 1 * u = u
  OBVIOUS
<1>18. q # NaN
  BY <1>5 DEF NaN
<1> QED BY <1>1, <1>2, <1>3, <1>4, <1>8, <1>13, <1>14, <1>16, <1>17, <1>18

\* A bar that is scaled is the bar of its trades in shares of today.
LEMMA ScaledIsBar ==
  ASSUME NEW f \in Positive, NEW ticks \in Seq(Trade), ticks # <<>>, NEW start \in Int,
         \A i \in 1..Len(ticks) : FineFor(f, ticks[i].price)
  PROVE  IsBarOf(ScaledBar(BarAt(start, ticks), [price |-> Flip(f), volume |-> f]),
                 [i \in DOMAIN ticks |-> Grown(f, ticks[i])])
<1>1. PICK grown : grown = [i \in DOMAIN ticks |-> Grown(f, ticks[i])]
  OBVIOUS
<1>2. PICK g : g = Flip(f)
  OBVIOUS
<1>3. g \in Positive
  BY <1>2 DEF Flip, Positive
<1>4. PICK bar : bar = BarAt(start, ticks)
  OBVIOUS
<1>5. PICK V \in Nat \ {0} : V = Added(SizesIn(ticks))
  BY GatheredType
<1>6. PICK M \in Nat : M = Added(AmountsIn(ticks))
  BY GatheredType
<1>7. PICK h \in PricesIn(ticks) : h = Max(PricesIn(ticks))
  BY PriceBounds
<1>8. PICK l \in PricesIn(ticks) : l = Min(PricesIn(ticks))
  BY PriceBounds
<1>9. PricesIn(ticks) \subseteq Int /\ \A p \in PricesIn(ticks) : l <= p /\ p <= h
  BY <1>7, <1>8, PriceBounds
<1>10. /\ bar.open = ticks[1].price /\ bar.close = ticks[Len(ticks)].price
       /\ bar.high = h /\ bar.low = l /\ bar.volume = V /\ bar.vwap = Quotient(M, V)
       /\ bar.trades = Len(ticks)
  BY <1>4, <1>5, <1>6, <1>7, <1>8, BarAtIs
<1>11. PICK scaled : scaled = ScaledBar(bar, [price |-> g, volume |-> f])
  OBVIOUS
<1>12. /\ scaled.open = ScalePrice(bar.open, g) /\ scaled.close = ScalePrice(bar.close, g)
       /\ scaled.high = ScalePrice(bar.high, g) /\ scaled.low = ScalePrice(bar.low, g)
       /\ scaled.volume = ScaleShares(bar.volume, f) /\ scaled.trades = bar.trades
       /\ scaled.vwap = IF bar.vwap = NaN THEN NaN ELSE Times(bar.vwap, g)
  BY <1>11 DEF ScaledBar
<1>13. /\ Len(grown) = Len(ticks)
       /\ Head(grown) = Grown(f, ticks[1]) /\ Last(grown) = Grown(f, ticks[Len(ticks)])
       /\ PricesIn(grown) = ScaledPrices(PricesIn(ticks), g)
  BY <1>1, <1>2, GrownAt
<1>14. \A x : Grown(f, x).price = ScalePrice(x.price, g)
  BY <1>2 DEF Grown
<1>15. /\ Max(ScaledPrices(PricesIn(ticks), g)) = ScalePrice(h, g)
       /\ Min(ScaledPrices(PricesIn(ticks), g)) = ScalePrice(l, g)
  BY <1>3, <1>9, GrownBounds
<1>16. PICK x \in Int : x = V * f.n
  BY DEF Positive
<1>17. SizeOf(grown) = Quotient(x, f.d) /\ MassOf(grown) = Whole(M)
  BY <1>1, <1>5, <1>6, <1>16, GrownSums
<1>18. scaled.vwap = Times(MassOf(grown), Flip(SizeOf(grown)))
  <2>1. Quotient(M, V) # NaN /\ Times(Quotient(M, V), g) = Times(Whole(M), Flip(Quotient(x, f.d)))
    BY <1>2, <1>16, AverageToday
  <2> QED BY <1>10, <1>12, <1>17, <2>1
<1>19. PICK off : off = Plus(Whole(ScaleShares(V, f)), Times(Whole(-1), Quotient(x, f.d)))
  OBVIOUS
<1>20. 2 * off.n \in (-off.d)..off.d
  BY <1>16, <1>19, SharesNear
<1>21. off = Plus(Whole(scaled.volume), Times(Whole(-1), SizeOf(grown)))
  BY <1>10, <1>12, <1>17, <1>19
<1>22. IsBarOf(scaled, grown)
  <2>1. scaled.trades = Len(grown)
    BY <1>10, <1>12, <1>13
  <2>2. scaled.open = Head(grown).price /\ scaled.close = Last(grown).price
    BY <1>10, <1>12, <1>13, <1>14
  <2>3. scaled.high = Max(PricesIn(grown)) /\ scaled.low = Min(PricesIn(grown))
    BY <1>10, <1>12, <1>13, <1>15
  <2> QED BY <1>18, <1>20, <1>21, <2>1, <2>2, <2>3 DEF IsBarOf, PricesIn
<1> QED BY <1>1, <1>2, <1>4, <1>11, <1>22

-----------------------------------------------------------------------------
(***************************************************************************)
(* The resampler: of the trades of an ordered source, each bucket's in one *)
(* bar, and the last bucket's in the open accumulator.                     *)
(***************************************************************************)

Printed == TickType \cap Trade
FitBuckets ==
    /\ query.width \in 1..Day
    /\ SessionOf(query) \in Sessions
    /\ Even(query.width, SessionOf(query))
Ordered(ticks) ==
    /\ \A i, j \in 1..Len(ticks) : i < j => ticks[i].time <= ticks[j].time
    /\ \A i \in 1..Len(ticks) : Belongs(SessionOf(query), ticks[i].time)
StartsOf(ticks) == {BucketOf(ticks[i]) : i \in DOMAIN ticks}
TimesOf(bars) == {bars[i].time : i \in DOMAIN bars}
\* Each is the bar of all the trades of its bucket.
AreBuckets(bars, ticks) ==
    \A j \in 1..Len(bars) : bars[j] = BarAt(bars[j].time, TicksIn(ticks, bars[j].time))
BarsOfBuckets(bars, ticks) ==
    /\ bars \in Seq(BarType)
    /\ InOrder(bars)
    /\ AreBuckets(bars, ticks)
    /\ TimesOf(bars) = StartsOf(ticks)

\* A bar that holds one trade brings the same to its bucket as the trade.
LEMMA RowPartSame ==
  ASSUME NEW q, NEW tick \in Trade
  PROVE  RowPart(q, tick) = TickPart(tick)
<1>1. PICK p \in Nat : p = tick.price
  BY DEF Trade
<1>2. PICK s \in Nat \ {0} : s = tick.size
  BY DEF Trade
<1>3. PICK x \in Int : x = p * s
  OBVIOUS
<1>4. PICK part : part = TickPart(tick)
  OBVIOUS
<1>5. /\ part.open = p /\ part.high = p /\ part.low = p /\ part.close = p
      /\ part.volume = s /\ part.mass = Whole(x) /\ part.trades = 1
  BY <1>1, <1>2, <1>3, <1>4 DEF TickPart
<1>6. PICK bar : bar = StoredBar(tick)
  OBVIOUS
<1>7. /\ bar.open = p /\ bar.high = p /\ bar.low = p /\ bar.close = p
      /\ bar.volume = s /\ bar.vwap = Times(Whole(x), Quotient(1, s)) /\ bar.trades = 1
  <2>1. s # 0
    OBVIOUS
  <2> QED BY <1>4, <1>5, <1>6, <2>1 DEF StoredBar, Closed, Opened
<1>8. Times(Whole(x), Quotient(1, s)) = Whole(p)
  <2>1. 1 \in Nat \ {0} /\ 1 \in Int /\ x * 1 = x /\ 1 * s = s /\ p \in Int
    OBVIOUS
  <2>2. Whole(x) = Quotient(x, 1) /\ Whole(p) = Quotient(p, 1)
    BY <2>1, WholeIs
  <2>3. Times(Quotient(x, 1), Quotient(1, s)) = Quotient(x * 1, 1 * s)
    BY <2>1, TimesQuotients
  <2>4. x * 1 = p * s
    BY <1>3
  <2>5. Quotient(x, s) = Quotient(p, 1)
    BY <2>1, <2>4, QuotientSame
  <2> QED BY <2>1, <2>2, <2>3, <2>5
<1>9. PriceMass(bar) = Whole(x)
  <2>1. bar.vwap.d = 1
    BY <1>7, <1>8 DEF Whole
  <2>2. Times(Whole(p), Whole(s)) = Quotient(p * s, 1 * 1)
    BY DEF Times, Whole
  <2>3. Quotient(x, 1) = Whole(x) /\ 1 * 1 = 1
    BY WholeIs
  <2> QED BY <1>3, <1>7, <1>8, <2>1, <2>2, <2>3 DEF PriceMass
<1>10. BarPart(bar) = part
  BY <1>1, <1>2, <1>3, <1>4, <1>7, <1>9 DEF BarPart, TickPart
<1> QED BY <1>4, <1>6, <1>10 DEF RowPart

LEMMA TicksInAppend ==
  ASSUME NEW S, NEW ticks \in Seq(S), NEW tick \in S, NEW start
  PROVE  /\ TicksIn(<<>>, start) = <<>> /\ StartsOf(<<>>) = {}
         /\ TicksIn(ticks, start) \in Seq(S)
         /\ TicksIn(Append(ticks, tick), start)
               = IF BucketOf(tick) = start THEN Append(TicksIn(ticks, start), tick)
                 ELSE TicksIn(ticks, start)
         /\ StartsOf(Append(ticks, tick)) = StartsOf(ticks) \cup {BucketOf(tick)}
<1> DEFINE more == Append(ticks, tick)
           P == {i \in DOMAIN more : BucketOf(more[i]) = start}
           Q == {i \in DOMAIN ticks : BucketOf(ticks[i]) = start}
<1>1. PICK n \in Nat : n = Len(ticks) /\ DOMAIN ticks = 1..n
  OBVIOUS
<1>2. /\ DOMAIN more = 1..(n + 1) /\ more[n + 1] = tick
      /\ \A i \in 1..n : more[i] = ticks[i]
  BY <1>1
<1> HIDE DEF more
<1>3. \A i \in 1..n : i \in P <=> i \in Q
  BY <1>1, <1>2
<1>4. n + 1 \in P <=> BucketOf(tick) = start
  BY <1>2
<1>5. TicksIn(more, start) = RowsAt(more, P) /\ TicksIn(ticks, start) = RowsAt(ticks, Q)
  BY DEF TicksIn
<1>6. TicksIn(<<>>, start) = <<>>
  BY RowsAtEmpty DEF TicksIn
<1>7. StartsOf(<<>>) = {}
  BY DEF StartsOf
<1>8. StartsOf(more) = StartsOf(ticks) \cup {BucketOf(tick)}
  BY <1>1, <1>2 DEF StartsOf
<1> HIDE DEF P, Q
<1>9. RowsAt(more, P) = IF n + 1 \in P THEN Append(RowsAt(ticks, Q), tick) ELSE RowsAt(ticks, Q)
  BY <1>1, <1>3, RowsAtAppend DEF more
<1>10. RowsAt(ticks, Q) \in Seq(S)
  BY RowsAtType
<1> QED BY <1>4, <1>5, <1>6, <1>7, <1>8, <1>9, <1>10 DEF more

LEMMA TicksInSome ==
  ASSUME NEW S, NEW ticks \in Seq(S), NEW start
  PROVE  TicksIn(ticks, start) = <<>> <=> start \notin StartsOf(ticks)
<1> DEFINE T == {t \in Seq(S) : TicksIn(t, start) = <<>> <=> start \notin StartsOf(t)}
<1>1. <<>> \in T
  <2>1. TicksIn(<<>>, start) = <<>>
    BY RowsAtEmpty DEF TicksIn
  <2>2. StartsOf(<<>>) = {}
    BY DEF StartsOf
  <2> QED BY <2>1, <2>2
<1>2. ASSUME NEW t \in Seq(S), NEW e \in S, t \in T PROVE Append(t, e) \in T
  <2>1. /\ TicksIn(t, start) \in Seq(S)
        /\ TicksIn(Append(t, e), start)
              = IF BucketOf(e) = start THEN Append(TicksIn(t, start), e)
                ELSE TicksIn(t, start)
        /\ StartsOf(Append(t, e)) = StartsOf(t) \cup {BucketOf(e)}
    BY TicksInAppend
  <2>2. Append(TicksIn(t, start), e) # <<>>
    BY <2>1
  <2>3. Append(t, e) \in Seq(S)
    OBVIOUS
  <2> QED BY <1>2, <2>1, <2>2, <2>3
<1> HIDE DEF T
<1>3. Seq(S) \subseteq T
  BY <1>1, <1>2, SeqInduction
<1> QED BY <1>3 DEF T

\* What the resampler holds when it has read these trades.
Gathering(ticks, r) ==
    IF ticks = <<>> THEN r = NoResampling
    ELSE LET start == BucketOf(ticks[Len(ticks)])
         IN  /\ r.res = [open |-> <<[time |-> start, part |-> Gathered(TicksIn(ticks, start))]>>,
                         end |-> start + query.width]
             /\ r.out \in Seq(BarType)
             /\ InOrder(r.out)
             /\ AreBuckets(r.out, ticks)
             /\ TimesOf(r.out) \cup {start} = StartsOf(ticks)
             /\ \A j \in 1..Len(r.out) : r.out[j].time < start

LEMMA BarTimes ==
  ASSUME NEW bars \in Seq(BarType), NEW bar \in BarType
  PROVE  /\ \A j \in 1..Len(bars) : bars[j] \in BarType /\ bars[j].time \in Int
         /\ TimesOf(Append(bars, bar)) = TimesOf(bars) \cup {bar.time}
<1>1. PICK n \in Nat : n = Len(bars) /\ DOMAIN bars = 1..n
  OBVIOUS
<1> DEFINE more == Append(bars, bar)
<1>2. /\ DOMAIN more = 1..(n + 1) /\ more[n + 1] = bar
      /\ \A i \in 1..n : more[i] = bars[i]
  BY <1>1
<1> HIDE DEF more
<1>3. TimesOf(more) = TimesOf(bars) \cup {bar.time}
  BY <1>1, <1>2 DEF TimesOf
<1>4. \A b \in BarType : b.time \in Int
  BY DEF BarType
<1> QED BY <1>1, <1>3, <1>4 DEF more

LEMMA BucketsNext ==
  ASSUME FitBuckets, NEW ticks \in Seq(Trade), NEW tick \in Trade, Ordered(Append(ticks, tick))
  PROVE  /\ Ordered(ticks)
         /\ BucketOf(tick) \in Int /\ BucketOf(tick) <= tick.time
         /\ tick.time < BucketOf(tick) + query.width
         /\ ticks # <<>> =>
               LET start == BucketOf(ticks[Len(ticks)])
               IN  start \in Int /\ Beside(query.width, start, BucketOf(tick))
<1>1. PICK n \in Nat : n = Len(ticks) /\ DOMAIN ticks = 1..n
  OBVIOUS
<1> DEFINE more == Append(ticks, tick)
<1>2. /\ Len(more) = n + 1 /\ more[n + 1] = tick
      /\ \A i \in 1..n : more[i] = ticks[i]
  BY <1>1
<1> HIDE DEF more
<1>3. /\ \A i, j \in 1..(n + 1) : i < j => more[i].time <= more[j].time
      /\ \A i \in 1..(n + 1) : Belongs(SessionOf(query), more[i].time)
  BY <1>2 DEF Ordered, more
<1>4. \A i \in 1..n : i \in 1..(n + 1) /\ i < n + 1
  BY <1>1
<1>5. Ordered(ticks)
  BY <1>1, <1>2, <1>3, <1>4 DEF Ordered
<1>6. \A t \in Trade : t.time \in Int
  BY DEF Trade
<1>7. \A t \in Trade : /\ BucketOf(t) \in Int /\ BucketOf(t) <= t.time
                       /\ t.time < BucketOf(t) + query.width
  BY <1>6, BucketStartBounds DEF FitBuckets, BucketOf
<1>8. ASSUME n # 0 PROVE Beside(query.width, BucketOf(ticks[n]), BucketOf(tick))
  <2>1. n \in 1..n /\ n + 1 \in 1..(n + 1)
    BY <1>8
  <2>2. ticks[n] \in Trade /\ more[n] = ticks[n]
    BY <1>1, <1>2, <2>1
  <2>3. ticks[n].time \in Int /\ tick.time \in Int
    BY <1>6, <2>2
  <2>4. ticks[n].time <= tick.time
    BY <1>2, <1>3, <1>4, <2>1, <2>2
  <2>5. Belongs(SessionOf(query), ticks[n].time) /\ Belongs(SessionOf(query), tick.time)
    BY <1>2, <1>3, <1>4, <2>1, <2>2
  <2> QED BY <2>3, <2>4, <2>5, BucketsBeside DEF FitBuckets, BucketOf
<1>9. ticks # <<>> => n # 0 /\ ticks[n] \in Trade
  BY <1>1
<1> QED BY <1>1, <1>5, <1>7, <1>8, <1>9

LEMMA GatherNext ==
  ASSUME FitBuckets, NEW ticks \in Seq(Trade), NEW tick \in Trade, Ordered(Append(ticks, tick)),
         NEW r, Gathering(ticks, r)
  PROVE  Gathering(Append(ticks, tick),
                   ResamplerStep(query.width, SessionOf(query), r,
                                 [time |-> tick.time, part |-> TickPart(tick)]))
<1> DEFINE row == [time |-> tick.time, part |-> TickPart(tick)]
           w == query.width
           s == SessionOf(query)
           next == BucketOf(tick)
           more == Append(ticks, tick)
           after == ResamplerStep(w, s, r, row)
<1>1. PICK push : push = PushRow(w, s, r.res, tick.time, TickPart(tick))
  OBVIOUS
<1>2. after = [res |-> push.res, out |-> r.out \o push.out]
  BY <1>1 DEF ResamplerStep
<1>3. BucketStart(w, s, tick.time) = next
  BY DEF BucketOf
<1>4. PICK b \in Int : b = next
  BY BucketsNext
<1>5. PICK c \in Int : c = tick.time
  BY DEF Trade
<1>6. PICK v \in Nat \ {0} : v = w
  BY HoursType DEF FitBuckets
<1>7. b <= c /\ c < b + v
  BY <1>4, <1>5, <1>6, BucketsNext
<1>8. more # <<>> /\ more[Len(more)] = tick
  OBVIOUS
<1>9. \A start : /\ TicksIn(ticks, start) \in Seq(Trade)
                 /\ TicksIn(more, start)
                       = IF next = start THEN Append(TicksIn(ticks, start), tick)
                         ELSE TicksIn(ticks, start)
  BY TicksInAppend
<1>10. StartsOf(more) = StartsOf(ticks) \cup {next} /\ StartsOf(<<>>) = {}
  BY TicksInAppend
<1> HIDE DEF more, next, after
<1>11. CASE ticks = <<>>
  <2>1. r.res.open = <<>> /\ r.out = <<>> /\ r.res = NoBucket
    BY <1>11 DEF Gathering, NoResampling, NoBucket
  <2>2. push = [res |-> [open |-> <<Opened(b, TickPart(tick))>>, end |-> b + v], out |-> <<>>]
    BY <1>1, <1>3, <1>4, <1>6, <2>1 DEF PushRow, NextBucketStart, FinishRows
  <2>3. TicksIn(more, b) = <<tick>>
    <3>1. TicksIn(<<>>, b) = <<>>
      BY TicksInAppend
    <3> QED BY <1>4, <1>9, <1>11, <3>1
  <2>4. Gathered(<<tick>>) = TickPart(tick)
    BY GatheredOne
  <2>5. after.res = [open |-> <<[time |-> b, part |-> Gathered(TicksIn(more, b))]>>, end |-> b + v]
    BY <1>2, <2>2, <2>3, <2>4 DEF Opened
  <2>6. after.out = <<>>
    BY <1>2, <2>1, <2>2
  <2>7. /\ <<>> \in Seq(BarType) /\ InOrder(<<>>) /\ AreBuckets(<<>>, more)
        /\ TimesOf(<<>>) = {} /\ 1..Len(<<>>) = {}
    BY DEF InOrder, AreBuckets, TimesOf
  <2>8. StartsOf(more) = {b}
    BY <1>4, <1>10, <1>11
  <2> QED BY <1>4, <1>6, <1>8, <2>5, <2>6, <2>7, <2>8 DEF Gathering, after, more, next
<1>12. CASE ticks # <<>>
  <2>1. PICK a \in Int : a = BucketOf(ticks[Len(ticks)]) /\ Beside(v, a, b)
    BY <1>4, <1>6, <1>12, BucketsNext DEF next
  <2>2. PICK held : held = TicksIn(ticks, a)
    OBVIOUS
  <2>3. PICK out \in Seq(BarType) : out = r.out
    BY <1>12 DEF Gathering
  <2>4. /\ r.res = [open |-> <<[time |-> a, part |-> Gathered(held)]>>, end |-> a + v]
        /\ InOrder(out) /\ AreBuckets(out, ticks)
        /\ TimesOf(out) \cup {a} = StartsOf(ticks)
        /\ \A j \in 1..Len(out) : out[j].time < a
    BY <1>6, <1>12, <2>1, <2>2, <2>3 DEF Gathering
  <2>5. held \in Seq(Trade) /\ held # <<>>
    <3>1. a \in StartsOf(ticks)
      BY <2>4
    <3> QED BY <1>9, <2>2, <3>1, TicksInSome
  <2>6. \A j \in 1..Len(out) : out[j] \in BarType /\ out[j].time \in Int
    BY <2>3, BarTimes
  <2>7. CASE c < a + v
    <3>1. a = b
      BY <1>7, <2>1, <2>7 DEF Beside
    <3>2. push = [res |-> [open |-> <<Updated([time |-> a, part |-> Gathered(held)], TickPart(tick))>>,
                           end |-> a + v], out |-> <<>>]
      BY <1>1, <1>5, <2>4, <2>7 DEF PushRow
    <3>3. Updated([time |-> a, part |-> Gathered(held)], TickPart(tick))
             = [time |-> a, part |-> Gathered(Append(held, tick))]
      BY <2>5, GatheredMore
    <3>4. TicksIn(more, a) = Append(held, tick)
      BY <1>4, <1>9, <2>2, <3>1
    <3>5. after.res = [open |-> <<[time |-> a, part |-> Gathered(TicksIn(more, a))]>>, end |-> a + v]
      BY <1>2, <3>2, <3>3, <3>4
    <3>6. after.out = out
      BY <1>2, <2>3, <3>2
    <3>7. AreBuckets(out, more)
      <4> SUFFICES ASSUME NEW j \in 1..Len(out)
                   PROVE  out[j] = BarAt(out[j].time, TicksIn(more, out[j].time))
        BY DEF AreBuckets
      <4>1. out[j].time # b
        BY <2>4, <2>6, <3>1
      <4>2. TicksIn(more, out[j].time) = TicksIn(ticks, out[j].time)
        BY <1>4, <1>9, <4>1
      <4> QED BY <2>4, <4>2 DEF AreBuckets
    <3>8. TimesOf(out) \cup {a} = StartsOf(more)
      BY <1>4, <1>10, <2>4, <3>1
    <3> QED BY <1>4, <1>6, <1>8, <2>3, <2>4, <3>1, <3>5, <3>6, <3>7, <3>8
            DEF Gathering, after, more, next
  <2>8. CASE ~(c < a + v)
    <3>1. a + v <= b
      BY <1>7, <2>1, <2>8 DEF Beside
    <3>2. PICK bar : bar = BarAt(a, held)
      OBVIOUS
    <3>3. bar \in BarType /\ bar.time = a
      BY <2>5, <3>2, BarAtIs
    <3>4. FinishRows(r.res) = <<bar>>
      BY <2>4, <3>2 DEF FinishRows, BarAt
    <3>5. push = [res |-> [open |-> <<Opened(b, TickPart(tick))>>, end |-> b + v], out |-> <<bar>>]
      BY <1>1, <1>3, <1>4, <1>5, <1>6, <2>4, <2>8, <3>4 DEF PushRow, NextBucketStart
    <3>6. b \notin StartsOf(ticks)
      <4>1. a # b
        BY <3>1
      <4>2. b \notin TimesOf(out)
        <5>1. DOMAIN out = 1..Len(out)
          BY <2>3
        <5>2. \A j \in 1..Len(out) : out[j].time # b
          BY <2>4, <2>6, <3>1
        <5> QED BY <5>1, <5>2 DEF TimesOf
      <4> QED BY <2>4, <4>1, <4>2
    <3>7. TicksIn(more, b) = <<tick>>
      <4>1. TicksIn(ticks, b) = <<>>
        BY <3>6, TicksInSome
      <4>2. TicksIn(more, b) = Append(<<>>, tick)
        BY <1>4, <1>9, <4>1
      <4> QED BY <4>2
    <3>8. Gathered(<<tick>>) = TickPart(tick)
      BY GatheredOne
    <3>9. after.res = [open |-> <<[time |-> b, part |-> Gathered(TicksIn(more, b))]>>, end |-> b + v]
      BY <1>2, <3>5, <3>7, <3>8 DEF Opened
    <3>10. after.out = Append(out, bar)
      BY <1>2, <2>3, <3>5
    <3>11. PICK all \in Seq(BarType) : all = Append(out, bar)
      <4>1. Append(out, bar) \in Seq(BarType)
        BY <2>3, <3>3
      <4> QED BY <4>1
    <3>12. InOrder(all)
      BY <2>3, <2>4, <3>3, <3>11, InOrderAppend
    <3>13. \A j \in 1..Len(all) : all[j] = IF j \in 1..Len(out) THEN out[j] ELSE bar
      BY <2>3, <3>3, <3>11
    <3>14. \A j \in 1..Len(all) : all[j].time <= a /\ all[j].time \in Int
      BY <2>4, <2>6, <3>3, <3>13
    <3>15. AreBuckets(all, more)
      <4> SUFFICES ASSUME NEW j \in 1..Len(all)
                   PROVE  all[j] = BarAt(all[j].time, TicksIn(more, all[j].time))
        BY DEF AreBuckets
      <4>1. all[j].time # b
        BY <3>1, <3>14
      <4>2. TicksIn(more, all[j].time) = TicksIn(ticks, all[j].time)
        BY <1>4, <1>9, <4>1
      <4>3. CASE j \in 1..Len(out)
        BY <2>4, <3>13, <4>2, <4>3 DEF AreBuckets
      <4>4. CASE j \notin 1..Len(out)
        BY <2>2, <3>2, <3>3, <3>13, <4>2, <4>4
      <4> QED BY <4>3, <4>4
    <3>16. TimesOf(all) \cup {b} = StartsOf(more)
      <4>1. TimesOf(all) = TimesOf(out) \cup {a}
        BY <2>3, <3>3, <3>11, BarTimes
      <4> QED BY <1>4, <1>10, <2>4, <4>1
    <3>17. \A j \in 1..Len(all) : all[j].time < b
      BY <3>1, <3>14
    <3> QED BY <1>4, <1>6, <1>8, <3>9, <3>10, <3>11, <3>12, <3>15, <3>16, <3>17
            DEF Gathering, after, more, next
  <2> QED BY <2>7, <2>8
<1> QED BY <1>11, <1>12 DEF after, more, next

ResampledFrom(ticks) == ResamplerOver(query.width, SessionOf(query), InputOf(query, ticks))

LEMMA ResamplerGathers ==
  ASSUME FitBuckets, NEW ticks \in Seq(Printed), Ordered(ticks)
  PROVE  Gathering(ticks, ResampledFrom(ticks))
<1> DEFINE T == {t \in Seq(Printed) : Ordered(t) => Gathering(t, ResampledFrom(t))}
<1>1. <<>> \in T
  <2>1. InputOf(query, <<>>) = <<>>
    BY DEF InputOf
  <2>2. ResamplerOver(query.width, SessionOf(query), <<>>) = NoResampling
    <3>1. <<>> \in Seq({0}) /\ 0 \in {0}
      OBVIOUS
    <3> QED BY <3>1, ResamplerAppend
  <2> QED BY <2>1, <2>2 DEF Gathering, ResampledFrom
<1>2. ASSUME NEW t \in Seq(Printed), NEW e \in Printed, t \in T PROVE Append(t, e) \in T
  <2>1. t \in Seq(Trade) /\ e \in Trade /\ t \in Seq(TickType) /\ e \in TickType
    BY DEF Printed
  <2>2. SUFFICES ASSUME Ordered(Append(t, e))
                 PROVE  Gathering(Append(t, e), ResampledFrom(Append(t, e)))
    <3>1. Append(t, e) \in Seq(Printed)
      OBVIOUS
    <3> QED BY <3>1
  <2>3. Ordered(t)
    BY <2>1, <2>2, BucketsNext
  <2>4. Gathering(t, ResampledFrom(t))
    BY <1>2, <2>3
  <2> DEFINE row == [time |-> e.time, part |-> TickPart(e)]
  <2>5. /\ InputOf(query, t) \in Seq(InputType)
        /\ InputOf(query, Append(t, e)) = Append(InputOf(query, t), row)
        /\ row \in InputType
    <3>1. RowPart(query, e) = TickPart(e)
      BY <2>1, RowPartSame
    <3>2. [time |-> e.time, part |-> RowPart(query, e)] \in InputType
      BY <2>1, RowPartType
    <3> QED BY <2>1, <3>1, <3>2, InputAppend
  <2>6. ResampledFrom(Append(t, e))
           = ResamplerStep(query.width, SessionOf(query), ResampledFrom(t), row)
    <3> HIDE DEF row
    <3>1. PICK input \in Seq(InputType) : input = InputOf(query, t)
      BY <2>5
    <3>2. ResamplerOver(query.width, SessionOf(query), Append(input, row))
             = ResamplerStep(query.width, SessionOf(query),
                             ResamplerOver(query.width, SessionOf(query), input), row)
      BY <2>5, <3>1, ResamplerAppend
    <3> QED BY <2>5, <3>1, <3>2 DEF ResampledFrom
  <2>7. Gathering(Append(t, e), ResamplerStep(query.width, SessionOf(query), ResampledFrom(t), row))
    BY <2>1, <2>2, <2>4, GatherNext
  <2> QED BY <2>6, <2>7
<1> HIDE DEF T
<1>3. Seq(Printed) \subseteq T
  BY <1>1, <1>2, SeqInduction
<1> QED BY <1>3 DEF T

\* At the end each bucket has been delivered, once, in order and whole.
LEMMA ResamplerDelivers ==
  ASSUME FitBuckets, NEW ticks \in Seq(Printed), Ordered(ticks)
  PROVE  BarsOfBuckets(ResampledFrom(ticks).out \o FinishRows(ResampledFrom(ticks).res), ticks)
<1>1. PICK r : r = ResampledFrom(ticks) /\ Gathering(ticks, r)
  BY ResamplerGathers
<1>2. ticks \in Seq(Trade)
  BY DEF Printed
<1>3. CASE ticks = <<>>
  <2>1. r.out \o FinishRows(r.res) = <<>>
    BY <1>1, <1>3 DEF Gathering, NoResampling, NoBucket, FinishRows
  <2>2. BarsOfBuckets(<<>>, <<>>)
    BY DEF BarsOfBuckets, InOrder, AreBuckets, TimesOf, StartsOf
  <2> QED BY <1>1, <1>3, <2>1, <2>2
<1>4. CASE ticks # <<>>
  <2>1. PICK n \in Nat : n = Len(ticks) /\ n # 0 /\ DOMAIN ticks = 1..n /\ ticks[n] \in Trade
    BY <1>2, <1>4
  <2>2. PICK a \in Int : a = BucketOf(ticks[n])
    <3>1. ticks[n].time \in Int
      BY <2>1 DEF Trade
    <3>2. BucketOf(ticks[n]) \in Int
      BY <3>1, BucketStartBounds DEF FitBuckets, BucketOf
    <3> QED BY <3>2
  <2>3. PICK held : held = TicksIn(ticks, a)
    OBVIOUS
  <2>4. PICK out \in Seq(BarType) : out = r.out
    BY <1>1, <1>4 DEF Gathering
  <2>5. /\ r.res.open = <<[time |-> a, part |-> Gathered(held)]>>
        /\ InOrder(out) /\ AreBuckets(out, ticks)
        /\ TimesOf(out) \cup {a} = StartsOf(ticks)
        /\ \A j \in 1..Len(out) : out[j].time < a
    BY <1>1, <1>4, <2>1, <2>2, <2>3, <2>4 DEF Gathering
  <2>6. held \in Seq(Trade) /\ held # <<>>
    <3>1. a \in StartsOf(ticks)
      BY <2>5
    <3>2. TicksIn(ticks, a) \in Seq(Trade)
      BY <1>2, <2>1, TicksInAppend
    <3> QED BY <1>2, <2>3, <3>1, <3>2, TicksInSome
  <2>7. PICK bar : bar = BarAt(a, held)
    OBVIOUS
  <2>8. bar \in BarType /\ bar.time = a
    BY <2>6, <2>7, BarAtIs
  <2>9. FinishRows(r.res) = <<bar>>
    BY <2>5, <2>7 DEF FinishRows, BarAt
  <2>10. PICK all \in Seq(BarType) : all = Append(out, bar)
    <3>1. Append(out, bar) \in Seq(BarType)
      BY <2>4, <2>8
    <3> QED BY <3>1
  <2>11. r.out \o FinishRows(r.res) = all
    BY <2>4, <2>9, <2>10
  <2>12. InOrder(all)
    BY <2>4, <2>5, <2>8, <2>10, InOrderAppend
  <2>13. \A j \in 1..Len(all) : all[j] = IF j \in 1..Len(out) THEN out[j] ELSE bar
    BY <2>4, <2>8, <2>10
  <2>14. AreBuckets(all, ticks)
    BY <2>3, <2>5, <2>7, <2>8, <2>13 DEF AreBuckets
  <2>15. TimesOf(all) = StartsOf(ticks)
    BY <2>4, <2>5, <2>8, <2>10, BarTimes
  <2>16. BarsOfBuckets(all, ticks)
    BY <2>10, <2>12, <2>14, <2>15 DEF BarsOfBuckets
  <2> QED BY <1>1, <2>11, <2>16
<1> QED BY <1>3, <1>4

-----------------------------------------------------------------------------
(***************************************************************************)
(* The filler: the flat bars between two buckets are those of EmptyBuckets,*)
(* as many as fit before the next bucket and before the day's close.       *)
(***************************************************************************)

GapTest(t, before) ==
    /\ (t - before) % query.width = 0
    /\ query.width = Day \/ t < Midnight(before) + Hours[SessionOf(query)].close
GapOf(a, b) == {t \in (a + 1)..(b - 1) : GapTest(t, a)}

\* As many flat bars as fit behind a bar, each in its bucket.
LEMMA FlatCount ==
  ASSUME FitBuckets, NEW a \in Int, NEW b \in Int, a < b
  PROVE  \E empty \in Nat :
            /\ empty = Max({0, (FillStop(query.width, SessionOf(query), a, b) - a - 1)
                                  \div query.width})
            /\ \A i \in 1..empty : a + i * query.width \in GapOf(a, b)
            /\ \A t \in GapOf(a, b) : \E i \in 1..empty : t = a + i * query.width
<1>1. PICK w \in Nat \ {0} : w = query.width
  BY HoursType DEF FitBuckets
<1>2. PICK close \in Int : close = Midnight(a) + Hours[SessionOf(query)].close
  <2>1. Midnight(a) \in Int
    BY MidnightBounds
  <2>2. Hours[SessionOf(query)].close \in Int
    BY HoursType DEF FitBuckets
  <2> QED BY <2>1, <2>2
<1>3. PICK stop \in Int : /\ stop = FillStop(w, SessionOf(query), a, b)
                          /\ stop = IF w = Day \/ b <= close THEN b ELSE close
  <2>1. Min({b, close}) = IF b <= close THEN b ELSE close
    BY MinPair
  <2> QED BY <1>2, <2>1 DEF FillStop
<1>4. PICK k \in Int : k = stop - a - 1
  OBVIOUS
<1>5. PICK e \in Int : e = k \div w
  BY Division
<1>6. PICK empty \in Nat : empty = Max({0, e}) /\ empty = IF 0 >= e THEN 0 ELSE e
  <2>1. Max({0, e}) = IF 0 >= e THEN 0 ELSE e
    BY MaxPair
  <2> QED BY <2>1
<1>7. w * e <= k /\ k < w * e + w /\ w * e \in Int
  BY <1>5, Division
<1>8. \A t \in (a + 1)..(b - 1) :
         t \in GapOf(a, b) <=> (t - a) % w = 0 /\ (w = Day \/ t < close)
  BY <1>1, <1>2 DEF GapOf, GapTest
<1>9. ASSUME NEW i \in 1..empty PROVE a + i * w \in GapOf(a, b)
  <2>1. i <= e /\ 1 <= i /\ i \in Int
    BY <1>6
  <2>2. w * i <= w * e
    <3>1. CASE i = e
      BY <1>7, <3>1
    <3>2. CASE i < e
      <4>1. w * i + w <= w * e /\ w * i \in Int
        BY <2>1, <3>2, Multiples
      <4> QED BY <1>7, <4>1
    <3> QED BY <2>1, <3>1, <3>2
  <2>3. PICK x \in Int : x = w * i
    OBVIOUS
  <2>4. 0 < x
    <3>1. w * 0 + w <= w * i
      BY <2>1, Multiples
    <3> QED BY <2>3, <3>1
  <2>5. x < stop - a
    BY <1>4, <1>7, <2>2, <2>3
  <2>6. x % w = 0
    BY <2>1, <2>3, MultipleMod
  <2>7. PICK t \in Int : t = a + x
    OBVIOUS
  <2>8. t \in (a + 1)..(b - 1) /\ t - a = x /\ (w = Day \/ t < close)
    BY <1>3, <2>4, <2>5, <2>7
  <2>9. a + i * w = t
    BY <2>3, <2>7
  <2> QED BY <1>8, <2>6, <2>8, <2>9
<1>10. ASSUME NEW t \in GapOf(a, b) PROVE \E i \in 1..empty : t = a + i * w
  <2>1. t \in (a + 1)..(b - 1) /\ t \in Int
    BY DEF GapOf
  <2>2. (t - a) % w = 0 /\ (w = Day \/ t < close)
    BY <1>8, <2>1
  <2>3. PICK x \in Int : x = t - a
    BY <2>1
  <2>4. PICK i \in Int : x = w * i
    BY <2>2, <2>3, WholeMultiple
  <2>5. 1 <= x /\ x <= k
    BY <1>3, <1>4, <2>1, <2>2, <2>3
  <2>6. 1 <= i
    <3>1. CASE i < 1
      <4>1. w * i + w <= w * 1 /\ w * i \in Int
        BY <3>1, Multiples
      <4> QED BY <2>4, <2>5, <4>1
    <3> QED BY <3>1
  <2>7. i <= e
    <3>1. w * i < w * e + w
      BY <1>7, <2>4, <2>5
    <3> QED BY <3>1, Multiples
  <2>8. i \in 1..empty
    BY <1>6, <2>6, <2>7
  <2>9. t = a + i * w
    BY <2>1, <2>3, <2>4
  <2> QED BY <2>8, <2>9
<1> QED BY <1>1, <1>3, <1>4, <1>5, <1>6, <1>9, <1>10, ZenonT(40)

Bounded(real, m, a) ==
    /\ real \subseteq Int /\ m \in real /\ a \in real
    /\ \A s \in real : m <= s /\ s <= a

LEMMA EmptyIs ==
  ASSUME query.fill, NEW real, NEW m, NEW a, Bounded(real, m, a)
  PROVE  EmptyBuckets(real) = {t \in (m..a) \ real : GapTest(t, Before(real, t))}
<1>1. real \subseteq Int /\ m \in real /\ a \in real /\ real # {}
  BY DEF Bounded
<1>2. Max(real) = a
  BY <1>1, MaxAt DEF Bounded
<1>3. Min(real) = m
  BY <1>1, MinAt DEF Bounded
<1> QED BY <1>1, <1>2, <1>3 DEF EmptyBuckets, GapTest

\* A bucket behind the others adds the empty ones between them.
Joined(real, b) == real \cup {b}

LEMMA EmptyMore ==
  ASSUME query.fill, NEW real, NEW m, NEW a \in Int, Bounded(real, m, a),
         NEW b \in Int, a < b
  PROVE  /\ Bounded(Joined(real, b), m, b)
         /\ EmptyBuckets(Joined(real, b)) = EmptyBuckets(real) \cup GapOf(a, b)
         /\ \A t \in Int : t <= a => Before(Joined(real, b), t) = Before(real, t)
         /\ \A t \in GapOf(a, b) : Before(Joined(real, b), t) = a
<1> SUFFICES ASSUME NEW more, more = real \cup {b}
             PROVE  /\ Bounded(more, m, b)
                    /\ EmptyBuckets(more) = EmptyBuckets(real) \cup GapOf(a, b)
                    /\ \A t \in Int : t <= a => Before(more, t) = Before(real, t)
                    /\ \A t \in GapOf(a, b) : Before(more, t) = a
  BY DEF Joined
<1>1. real \subseteq Int /\ m \in Int /\ a \in Int /\ m <= a
  BY DEF Bounded
<1>2. \A s \in real : s \in Int /\ m <= s /\ s <= a
  BY <1>1 DEF Bounded
<1>3. Bounded(more, m, b)
  BY <1>1, <1>2 DEF Bounded
<1>4. ASSUME NEW t \in Int, t <= a PROVE Before(more, t) = Before(real, t)
  <2>1. {s \in more : s < t} = {s \in real : s < t}
    BY <1>1, <1>4
  <2> QED BY <2>1 DEF Before
<1>5. ASSUME NEW t \in (a + 1)..(b - 1) PROVE Before(more, t) = a
  <2> DEFINE S == {s \in more : s < t}
  <2>1. t \in Int /\ a < t /\ t < b
    BY <1>1
  <2>2. a \in S /\ S \subseteq Int /\ \A k \in S : k <= a
    <3>1. a \in real
      BY DEF Bounded
    <3>2. a \in S
      BY <2>1, <3>1
    <3>3. ASSUME NEW k \in S PROVE k \in Int /\ k <= a
      <4>1. k \in real \/ k = b
        OBVIOUS
      <4>2. k < t
        OBVIOUS
      <4>3. CASE k \in real
        BY <1>2, <4>3
      <4>4. CASE k = b
        BY <2>1, <4>2, <4>4
      <4> QED BY <4>1, <4>3, <4>4
    <3> HIDE DEF S
    <3> QED BY <3>2, <3>3
  <2> HIDE DEF S
  <2>3. Max(S) = a
    BY <2>2, MaxAt
  <2> QED BY <2>3 DEF Before, S
<1>6. EmptyBuckets(real) = {t \in (m..a) \ real : GapTest(t, Before(real, t))}
  BY EmptyIs
<1>7. EmptyBuckets(more) = {t \in (m..b) \ more : GapTest(t, Before(more, t))}
  BY <1>3, EmptyIs
<1>8. \A t : t \in (m..b) \ more <=> t \in (m..a) \ real \/ t \in (a + 1)..(b - 1)
  <2>1. ASSUME NEW t \in Int
        PROVE  t \in (m..b) \ more <=> t \in (m..a) \ real \/ t \in (a + 1)..(b - 1)
    <3>1. t \in real => t <= a
      BY <1>2
    <3>2. t \in more <=> t \in real \/ t = b
      OBVIOUS
    <3>3. a \in real
      BY DEF Bounded
    <3> QED BY <1>1, <3>1, <3>2, <3>3
  <2>2. \A t : t \in m..b \/ t \in m..a \/ t \in (a + 1)..(b - 1) => t \in Int
    BY <1>1
  <2> QED BY <2>1, <2>2
<1>9. ASSUME NEW t PROVE t \in EmptyBuckets(more) <=> t \in EmptyBuckets(real) \/ t \in GapOf(a, b)
  <2>1. t \in EmptyBuckets(more) <=> t \in (m..b) \ more /\ GapTest(t, Before(more, t))
    BY <1>7
  <2>2. t \in EmptyBuckets(real) <=> t \in (m..a) \ real /\ GapTest(t, Before(real, t))
    BY <1>6
  <2>3. t \in GapOf(a, b) <=> t \in (a + 1)..(b - 1) /\ GapTest(t, a)
    BY DEF GapOf
  <2>4. t \in (m..a) \ real => t \in Int /\ t <= a
    BY <1>1
  <2>5. t \in (m..a) \ real => Before(more, t) = Before(real, t)
    BY <1>4, <2>4
  <2>6. t \in (a + 1)..(b - 1) => Before(more, t) = a
    BY <1>5
  <2> QED BY <1>8, <2>1, <2>2, <2>3, <2>5, <2>6
<1>10. EmptyBuckets(more) = EmptyBuckets(real) \cup GapOf(a, b)
  BY <1>9
<1>11. \A t \in GapOf(a, b) : Before(more, t) = a
  BY <1>5 DEF GapOf
<1> QED BY <1>3, <1>4, <1>10, <1>11

\* A bar of the series, or a flat one at the close of the bar before it.
IsDue(bar, bars) ==
    IF bar.time \in TimesOf(bars) THEN \E i \in 1..Len(bars) : bar = bars[i]
    ELSE \E i \in 1..Len(bars) : /\ bars[i].time = Before(TimesOf(bars), bar.time)
                                 /\ bar = FlatBar(bar.time, bars[i].close)
FilledUp(out, bars) ==
    /\ out \in Seq(BarType) /\ InOrder(out)
    /\ TimesOf(out) = TimesOf(bars) \cup EmptyBuckets(TimesOf(bars))
    /\ \A j \in 1..Len(out) : IsDue(out[j], bars)
Filling(f, bars) ==
    IF bars = <<>> THEN f = NoFilling
    ELSE /\ f.prev = <<bars[Len(bars)]>>
         /\ FilledUp(f.out, bars)
         /\ \A j \in 1..Len(f.out) : f.out[j].time <= bars[Len(bars)].time

LEMMA TimesConcat ==
  ASSUME NEW a \in Seq(BarType), NEW b \in Seq(BarType)
  PROVE  /\ a \o b \in Seq(BarType) /\ Len(a \o b) = Len(a) + Len(b)
         /\ \A i \in 1..Len(a) : (a \o b)[i] = a[i]
         /\ \A i \in 1..Len(b) : (a \o b)[Len(a) + i] = b[i]
         /\ \A i \in 1..Len(a \o b) : \/ i \in 1..Len(a)
                                      \/ \E j \in 1..Len(b) : i = Len(a) + j
         /\ TimesOf(a \o b) = TimesOf(a) \cup TimesOf(b)
<1> DEFINE c == a \o b
<1>1. PICK m \in Nat : m = Len(a) /\ DOMAIN a = 1..m
  OBVIOUS
<1>2. PICK n \in Nat : n = Len(b) /\ DOMAIN b = 1..n
  OBVIOUS
<1>3. c \in Seq(BarType)
  OBVIOUS
<1>4. Len(c) = m + n /\ \A i \in 1..(m + n) : c[i] = IF i <= m THEN a[i] ELSE b[i - m]
  <2>1. Len(c) = Len(a) + Len(b)
        /\ \A i \in 1..(Len(a) + Len(b)) : c[i] = IF i <= Len(a) THEN a[i] ELSE b[i - Len(a)]
    BY ConcatProperties
  <2> HIDE DEF c
  <2>2. Len(a) = m /\ Len(b) = n
    BY <1>1, <1>2
  <2> QED BY <2>1, <2>2
<1> HIDE DEF c
<1>5. DOMAIN c = 1..(m + n)
  BY <1>3, <1>4
<1>6. \A i \in 1..m : c[i] = a[i]
  BY <1>4
<1>7. ASSUME NEW i \in 1..n PROVE c[m + i] = b[i]
  <2>1. m + i \in 1..(m + n) /\ ~(m + i <= m) /\ (m + i) - m = i
    OBVIOUS
  <2> QED BY <1>4, <2>1
<1>8. ASSUME NEW i \in 1..(m + n) PROVE i \in 1..m \/ \E j \in 1..n : i = m + j
  <2>1. CASE i <= m
    BY <2>1
  <2>2. CASE i > m
    <3>1. i - m \in 1..n /\ i = m + (i - m)
      BY <2>2
    <3> QED BY <3>1
  <2> QED BY <2>1, <2>2
<1>9. TimesOf(c) = TimesOf(a) \cup TimesOf(b)
  <2>1. \A i \in 1..m : i \in 1..(m + n)
    OBVIOUS
  <2>2. \A j \in 1..n : m + j \in 1..(m + n)
    OBVIOUS
  <2>3. ASSUME NEW x \in TimesOf(c) PROVE x \in TimesOf(a) \cup TimesOf(b)
    <3>1. PICK i \in 1..(m + n) : x = c[i].time
      BY <1>5 DEF TimesOf
    <3>2. CASE i \in 1..m
      BY <1>1, <1>6, <3>1, <3>2 DEF TimesOf
    <3>3. CASE \E j \in 1..n : i = m + j
      BY <1>2, <1>7, <3>1, <3>3 DEF TimesOf
    <3> QED BY <1>8, <3>2, <3>3
  <2>4. TimesOf(a) \subseteq TimesOf(c)
    BY <1>1, <1>5, <1>6, <2>1 DEF TimesOf
  <2>5. TimesOf(b) \subseteq TimesOf(c)
    BY <1>2, <1>5, <1>7, <2>2 DEF TimesOf
  <2> QED BY <2>3, <2>4, <2>5
<1> QED BY <1>1, <1>2, <1>3, <1>4, <1>6, <1>7, <1>8, <1>9 DEF c

LEMMA InOrderConcat ==
  ASSUME NEW a \in Seq(BarType), NEW b \in Seq(BarType), InOrder(a), InOrder(b),
         NEW t \in Int, \A i \in 1..Len(a) : a[i].time <= t,
         \A i \in 1..Len(b) : t < b[i].time
  PROVE  InOrder(a \o b)
<1> DEFINE c == a \o b
<1>1. PICK m \in Nat : m = Len(a)
  OBVIOUS
<1>2. PICK n \in Nat : n = Len(b)
  OBVIOUS
<1>3. /\ Len(c) = m + n
      /\ \A i \in 1..m : c[i] = a[i]
      /\ \A i \in 1..n : c[m + i] = b[i]
      /\ \A i \in 1..Len(c) : i \in 1..m \/ \E j \in 1..n : i = m + j
  BY <1>1, <1>2, TimesConcat
<1> HIDE DEF c
<1>4. /\ \A i \in 1..m : a[i].time \in Int
      /\ \A i \in 1..n : b[i].time \in Int
  BY <1>1, <1>2, BarTimes
<1> SUFFICES ASSUME NEW i \in 1..(m + n), NEW j \in 1..(m + n), i < j
             PROVE  c[i].time < c[j].time
  BY <1>3 DEF InOrder, c
<1>5. CASE i \in 1..m /\ j \in 1..m
  BY <1>1, <1>3, <1>5 DEF InOrder
<1>6. CASE i \in 1..m /\ ~(j \in 1..m)
  <2>1. PICK k \in 1..n : j = m + k
    BY <1>3, <1>6
  <2>2. c[i].time <= t /\ t < c[j].time
    BY <1>1, <1>2, <1>3, <1>6, <2>1
  <2>3. c[i].time \in Int /\ c[j].time \in Int
    BY <1>3, <1>4, <1>6, <2>1
  <2> QED BY <2>2, <2>3
<1>7. CASE ~(i \in 1..m)
  <2>1. PICK k \in 1..n : i = m + k
    BY <1>3, <1>7
  <2>2. ~(j \in 1..m)
    BY <1>7
  <2>3. PICK l \in 1..n : j = m + l
    BY <1>3, <2>2
  <2>4. k < l
    BY <2>1, <2>3
  <2>5. b[k].time < b[l].time
    BY <1>2, <2>4 DEF InOrder
  <2> QED BY <1>3, <2>1, <2>3, <2>5
<1> QED BY <1>5, <1>6, <1>7

LEMMA TimesBounded ==
  ASSUME NEW bars \in Seq(BarType), InOrder(bars), bars # <<>>
  PROVE  Bounded(TimesOf(bars), bars[1].time, bars[Len(bars)].time)
<1>1. PICK n \in Nat : n = Len(bars) /\ DOMAIN bars = 1..n /\ n # 0
  OBVIOUS
<1>2. \A i \in 1..n : bars[i].time \in Int
  BY <1>1, BarTimes
<1>3. \A i \in 1..n : bars[1].time <= bars[i].time /\ bars[i].time <= bars[n].time
  <2> TAKE i \in 1..n
  <2>1. 1 \in 1..n /\ n \in 1..n
    BY <1>1
  <2>2. i = 1 \/ 1 < i
    OBVIOUS
  <2>3. i = n \/ i < n
    OBVIOUS
  <2>4. bars[1].time <= bars[i].time
    BY <1>1, <1>2, <2>1, <2>2 DEF InOrder
  <2>5. bars[i].time <= bars[n].time
    BY <1>1, <1>2, <2>1, <2>3 DEF InOrder
  <2> QED BY <2>4, <2>5
<1>4. 1 \in 1..n /\ n \in 1..n
  BY <1>1
<1> QED BY <1>1, <1>2, <1>3, <1>4 DEF Bounded, TimesOf

\* The flat bars behind a bar, and the bar that comes next.
LEMMA FillGap ==
  ASSUME FitBuckets, query.fill, NEW last \in BarType, NEW bar \in BarType, last.time < bar.time
  PROVE  \E new \in Seq(BarType) :
            /\ PushBar(query.width, SessionOf(query), query.fill, <<last>>, bar)
                  = [prev |-> <<bar>>, out |-> new]
            /\ InOrder(new)
            /\ TimesOf(new) = GapOf(last.time, bar.time) \cup {bar.time}
            /\ \A j \in 1..Len(new) :
                  \/ new[j] = bar
                  \/ /\ new[j].time \in GapOf(last.time, bar.time)
                     /\ new[j] = FlatBar(new[j].time, last.close)
<1>1. PICK a \in Int : a = last.time
  BY DEF BarType
<1>2. PICK b \in Int : b = bar.time
  BY DEF BarType
<1>3. PICK w \in Nat \ {0} : w = query.width
  BY HoursType DEF FitBuckets
<1>4. PICK s \in Sessions : s = SessionOf(query)
  BY DEF FitBuckets
<1>5. PICK empty \in Nat :
         /\ empty = Max({0, (FillStop(w, s, a, b) - a - 1) \div w})
         /\ \A i \in 1..empty : a + i * w \in GapOf(a, b)
         /\ \A t \in GapOf(a, b) : \E i \in 1..empty : t = a + i * w
  BY <1>1, <1>2, <1>3, <1>4, FlatCount
<1> DEFINE flats == [i \in 1..empty |-> FlatBar(a + i * w, last.close)]
           push == PushBar(w, s, query.fill, <<last>>, bar)
           new == flats \o <<bar>>
<1>6. push = [prev |-> <<bar>>, out |-> new]
  <2>1. <<last>> # <<>> /\ <<last>>[1] = last
    OBVIOUS
  <2> QED BY <1>1, <1>2, <1>5, <2>1 DEF PushBar
<1>7. \A i \in 1..empty : /\ flats[i] = FlatBar(a + i * w, last.close)
                          /\ flats[i].time = a + i * w
  BY DEF FlatBar
<1>8. \A i \in 1..empty : a + i * w \in Int /\ a < a + i * w /\ a + i * w < b
  <2>1. \A t \in GapOf(a, b) : t \in Int /\ a < t /\ t < b
    BY DEF GapOf
  <2> QED BY <1>5, <2>1
<1>9. flats \in Seq(BarType) /\ Len(flats) = empty /\ DOMAIN flats = 1..empty
  <2>1. ASSUME NEW i \in 1..empty PROVE FlatBar(a + i * w, last.close) \in BarType
    <3>1. a + i * w \in Int /\ last.close \in Int
      BY <1>8 DEF BarType
    <3>2. Whole(last.close) \in Rational
      BY <3>1, WholeType
    <3> QED BY <3>1, <3>2 DEF FlatBar, BarType
  <2> HIDE DEF push, new
  <2> QED BY <2>1
<1> HIDE DEF flats, push, new
<1>10. InOrder(flats)
  <2> SUFFICES ASSUME NEW i \in 1..empty, NEW j \in 1..empty, i < j
               PROVE  a + i * w < a + j * w
    BY <1>7, <1>9 DEF InOrder
  <2>1. w * i + w <= w * j /\ w * i \in Int /\ w * j \in Int
    BY Multiples
  <2>2. w * i = i * w /\ w * j = j * w
    OBVIOUS
  <2> QED BY <2>1, <2>2
<1>11. <<bar>> \in Seq(BarType) /\ Len(<<bar>>) = 1 /\ <<bar>>[1] = bar /\ InOrder(<<bar>>)
       /\ TimesOf(<<bar>>) = {b}
  BY <1>2 DEF InOrder, TimesOf
<1>12. /\ new \in Seq(BarType) /\ Len(new) = empty + 1
       /\ \A i \in 1..empty : new[i] = flats[i]
       /\ \A i \in 1..1 : new[empty + i] = bar
       /\ \A i \in 1..Len(new) : i \in 1..empty \/ \E j \in 1..1 : i = empty + j
       /\ TimesOf(new) = TimesOf(flats) \cup {b}
  <2>1. PICK one \in Seq(BarType) : one = <<bar>>
    BY <1>11
  <2>2. Len(one) = 1 /\ one[1] = bar /\ TimesOf(one) = {b}
    BY <1>11, <2>1
  <2>5. /\ flats \o one \in Seq(BarType) /\ Len(flats \o one) = Len(flats) + Len(one)
        /\ \A i \in 1..Len(flats) : (flats \o one)[i] = flats[i]
        /\ \A i \in 1..Len(one) : (flats \o one)[Len(flats) + i] = one[i]
        /\ \A i \in 1..Len(flats \o one) : \/ i \in 1..Len(flats)
                                           \/ \E j \in 1..Len(one) : i = Len(flats) + j
        /\ TimesOf(flats \o one) = TimesOf(flats) \cup TimesOf(one)
    BY <1>9, <2>1, TimesConcat
  <2>3. /\ flats \o one \in Seq(BarType) /\ Len(flats \o one) = empty + 1
        /\ \A i \in 1..empty : (flats \o one)[i] = flats[i]
        /\ \A i \in 1..1 : (flats \o one)[empty + i] = one[i]
        /\ \A i \in 1..Len(flats \o one) : i \in 1..empty \/ \E j \in 1..1 : i = empty + j
        /\ TimesOf(flats \o one) = TimesOf(flats) \cup {b}
    BY <1>9, <2>2, <2>5
  <2>4. \A i \in 1..1 : one[i] = bar
    BY <2>2
  <2> QED BY <2>1, <2>3, <2>4 DEF new
<1>13. TimesOf(flats) = GapOf(a, b)
  <2>1. \A i \in 1..empty : flats[i].time \in GapOf(a, b)
    BY <1>5, <1>7
  <2>2. \A t \in GapOf(a, b) : \E i \in 1..empty : t = flats[i].time
    BY <1>5, <1>7, ZenonT(40)
  <2> QED BY <1>9, <2>1, <2>2 DEF TimesOf
<1>14. InOrder(new)
  <2>1. PICK t \in Int : t = b - 1
    OBVIOUS
  <2>2. \A i \in 1..Len(flats) : flats[i].time <= t
    BY <1>7, <1>8, <1>9, <2>1
  <2>3. \A i \in 1..Len(<<bar>>) : t < <<bar>>[i].time
    <3>1. \A i \in 1..1 : i = 1
      OBVIOUS
    <3>2. t < bar.time
      BY <1>2, <2>1
    <3> QED BY <1>11, <3>1, <3>2
  <2> QED BY <1>9, <1>10, <1>11, <2>1, <2>2, <2>3, InOrderConcat DEF new
<1>15. ASSUME NEW j \in 1..Len(new)
       PROVE  \/ new[j] = bar
              \/ new[j].time \in GapOf(a, b) /\ new[j] = FlatBar(new[j].time, last.close)
  <2>1. CASE j \in 1..empty
    <3>1. new[j] = FlatBar(a + j * w, last.close) /\ new[j].time = a + j * w
      BY <1>7, <1>12, <2>1
    <3> QED BY <1>5, <2>1, <3>1
  <2>2. CASE \E i \in 1..1 : j = empty + i
    BY <1>12, <2>2
  <2> QED BY <1>12, <2>1, <2>2
<1>16. PushBar(query.width, SessionOf(query), query.fill, <<last>>, bar) = [prev |-> <<bar>>, out |-> new]
  BY <1>3, <1>4, <1>6 DEF push
<1> QED BY <1>1, <1>2, <1>12, <1>13, <1>14, <1>15, <1>16

LEMMA FillFirst ==
  ASSUME FitBuckets, query.fill, NEW bar \in BarType
  PROVE  Filling(FillerStep(query.width, SessionOf(query), query.fill, NoFilling, bar), <<bar>>)
<1>1. PICK b \in Int : b = bar.time
  BY DEF BarType
<1> DEFINE one == <<bar>>
           flats == [i \in 1..0 |-> FlatBar(<<>>[1].time + i * query.width, <<>>[1].close)]
<1>2. flats = <<>>
  OBVIOUS
<1>3. PushBar(query.width, SessionOf(query), query.fill, <<>>, bar)
         = [prev |-> one, out |-> flats \o one]
  BY DEF PushBar
<1> HIDE DEF flats
<1>4. one \in Seq(BarType) /\ Len(one) = 1 /\ one[1] = bar /\ one # <<>>
  OBVIOUS
<1>5. <<>> \o one = one
  BY <1>4
<1> DEFINE f == FillerStep(query.width, SessionOf(query), query.fill, NoFilling, bar)
<1>6. f.prev = one /\ f.out = one
  <2>1. NoFilling.prev = <<>> /\ NoFilling.out = <<>>
    BY DEF NoFilling
  <2> HIDE DEF one
  <2>2. PICK push : push = PushBar(query.width, SessionOf(query), query.fill, <<>>, bar)
    OBVIOUS
  <2>3. push.prev = one /\ push.out = one
    <3>1. push = [prev |-> one, out |-> flats \o one]
      BY <1>3, <2>2, Zenon
    <3>2. flats \o one = one
      BY <1>2, <1>5
    <3> QED BY <3>1, <3>2
  <2>4. f = [prev |-> push.prev, out |-> <<>> \o push.out]
    BY <2>1, <2>2 DEF FillerStep
  <2> HIDE DEF f
  <2> QED BY <1>5, <2>3, <2>4
<1> HIDE DEF f
<1>7. TimesOf(one) = {b} /\ InOrder(one)
  BY <1>1 DEF TimesOf, InOrder
<1>8. EmptyBuckets({b}) = {}
  <2>1. Bounded({b}, b, b)
    BY DEF Bounded
  <2>2. EmptyBuckets({b}) = {t \in (b..b) \ {b} : GapTest(t, Before({b}, t))}
    BY <2>1, EmptyIs
  <2>3. (b..b) \ {b} = {}
    OBVIOUS
  <2> QED BY <2>2, <2>3
<1> HIDE DEF one
<1>9. \A j \in 1..Len(one) : one[j] = bar
  BY <1>4
<1>10. \A j \in 1..Len(one) : IsDue(one[j], one)
  <2>1. b \in TimesOf(one)
    BY <1>7
  <2> QED BY <1>1, <1>4, <1>9, <2>1 DEF IsDue
<1>11. FilledUp(one, one)
  BY <1>4, <1>7, <1>8, <1>10 DEF FilledUp
<1>12. \A j \in 1..Len(one) : one[j].time <= one[Len(one)].time
  BY <1>1, <1>4, <1>9
<1>13. f.prev = <<one[Len(one)]>>
  BY <1>4, <1>6 DEF one
<1>14. Filling(f, one)
  BY <1>4, <1>6, <1>11, <1>12, <1>13 DEF Filling
<1> QED BY <1>14 DEF f, one

\* What was due stays due when a bar comes behind it.
LEMMA DueStays ==
  ASSUME query.fill, NEW bars \in Seq(BarType), bars # <<>>, InOrder(bars), NEW bar \in BarType,
         bars[Len(bars)].time < bar.time,
         NEW due, due.time \in Int, due.time <= bars[Len(bars)].time, IsDue(due, bars)
  PROVE  IsDue(due, Append(bars, bar))
<1>1. PICK n \in Nat : n = Len(bars) /\ n # 0
  OBVIOUS
<1>2. PICK m : m = bars[1].time
  OBVIOUS
<1>3. PICK a \in Int : a = bars[n].time
  <2>1. n \in 1..n
    BY <1>1
  <2> QED BY <1>1, <2>1, BarTimes
<1>4. PICK b \in Int : b = bar.time
  BY DEF BarType
<1>5. PICK t \in Int : t = due.time
  OBVIOUS
<1>6. Bounded(TimesOf(bars), m, a) /\ a < b /\ t <= a
  BY <1>1, <1>2, <1>3, <1>4, <1>5, TimesBounded
<1>7. PICK all : all = Joined(TimesOf(bars), b) /\ Before(all, t) = Before(TimesOf(bars), t)
  BY <1>6, EmptyMore
<1>8. PICK more : more = Append(bars, bar)
  OBVIOUS
<1>9. Len(more) = n + 1 /\ \A i \in 1..n : more[i] = bars[i] /\ i \in 1..(n + 1)
  BY <1>1, <1>8
<1>10. TimesOf(more) = all
  BY <1>4, <1>7, <1>8, BarTimes DEF Joined
<1>11. t \in TimesOf(more) <=> t \in TimesOf(bars)
  BY <1>6, <1>7, <1>10 DEF Joined
<1>12. IsDue(due, more)
  <2>1. CASE t \in TimesOf(bars)
    <3>1. PICK i \in 1..n : due = bars[i]
      BY <1>1, <1>5, <2>1 DEF IsDue
    <3> QED BY <1>5, <1>9, <1>11, <2>1, <3>1 DEF IsDue
  <2>2. CASE t \notin TimesOf(bars)
    <3>1. PICK i \in 1..n : bars[i].time = Before(TimesOf(bars), t)
                            /\ due = FlatBar(t, bars[i].close)
      BY <1>1, <1>5, <2>2 DEF IsDue
    <3>2. more[i].time = Before(TimesOf(more), t) /\ due = FlatBar(t, more[i].close)
          /\ i \in 1..Len(more)
      BY <1>7, <1>9, <1>10, <3>1
    <3> QED BY <1>5, <1>11, <2>2, <3>2 DEF IsDue
  <2> QED BY <2>1, <2>2
<1> QED BY <1>8, <1>12

LEMMA FillNext ==
  ASSUME FitBuckets, query.fill, NEW bars \in Seq(BarType), bars # <<>>, NEW bar \in BarType,
         InOrder(Append(bars, bar)), NEW f, Filling(f, bars)
  PROVE  Filling(FillerStep(query.width, SessionOf(query), query.fill, f, bar), Append(bars, bar))
<1>1. PICK n \in Nat : n = Len(bars) /\ n # 0
  OBVIOUS
<1>2. InOrder(bars) /\ \A i \in 1..n : bars[i].time < bar.time
  BY <1>1, InOrderAppend
<1>3. PICK last \in BarType : last = bars[n]
  <2>1. n \in 1..n
    BY <1>1
  <2> QED BY <1>1, <2>1
<1>4. PICK a \in Int : a = last.time
  BY DEF BarType
<1>5. PICK b \in Int : b = bar.time
  BY DEF BarType
<1>6. a < b
  BY <1>1, <1>2, <1>3, <1>4, <1>5
<1>7. PICK out \in Seq(BarType) : out = f.out
  BY DEF Filling, FilledUp
<1>8. /\ f.prev = <<last>> /\ FilledUp(out, bars)
      /\ \A j \in 1..Len(out) : out[j].time <= a
  BY <1>1, <1>3, <1>4, <1>7 DEF Filling
<1>9. PICK new \in Seq(BarType) :
            /\ PushBar(query.width, SessionOf(query), query.fill, <<last>>, bar)
                  = [prev |-> <<bar>>, out |-> new]
            /\ InOrder(new)
            /\ TimesOf(new) = GapOf(a, b) \cup {b}
            /\ \A j \in 1..Len(new) :
                  \/ new[j] = bar
                  \/ new[j].time \in GapOf(a, b) /\ new[j] = FlatBar(new[j].time, last.close)
  BY <1>4, <1>5, <1>6, FillGap
<1>10. PICK all : all = out \o new
  OBVIOUS
<1>11. PICK after : after = FillerStep(query.width, SessionOf(query), query.fill, f, bar)
  OBVIOUS
<1>12. after.prev = <<bar>> /\ after.out = all
  <2>1. PICK push : push = PushBar(query.width, SessionOf(query), query.fill, f.prev, bar)
    OBVIOUS
  <2>2. push = [prev |-> <<bar>>, out |-> new]
    BY <1>8, <1>9, <2>1
  <2>3. after = [prev |-> push.prev, out |-> out \o push.out]
    BY <1>7, <1>11, <2>1 DEF FillerStep
  <2> QED BY <1>10, <2>2, <2>3
<1>13. /\ all \in Seq(BarType) /\ Len(all) = Len(out) + Len(new)
       /\ \A i \in 1..Len(out) : all[i] = out[i]
       /\ \A i \in 1..Len(new) : all[Len(out) + i] = new[i]
       /\ \A i \in 1..Len(all) : i \in 1..Len(out) \/ \E j \in 1..Len(new) : i = Len(out) + j
       /\ TimesOf(all) = TimesOf(out) \cup TimesOf(new)
  BY <1>10, TimesConcat
<1>14. \A j \in 1..Len(new) : new[j].time \in Int /\ a < new[j].time /\ new[j].time <= b
  <2>1. \A t \in GapOf(a, b) : t \in Int /\ a < t /\ t < b
    BY DEF GapOf
  <2> QED BY <1>5, <1>6, <1>9, <2>1
<1>15. InOrder(all)
  BY <1>8, <1>9, <1>10, <1>14, InOrderConcat DEF FilledUp
<1>16. PICK m : m = bars[1].time
  OBVIOUS
<1>17. PICK real : real = TimesOf(bars)
  OBVIOUS
<1>18. Bounded(real, m, a)
  BY <1>1, <1>2, <1>3, <1>4, <1>16, <1>17, TimesBounded
<1>19. PICK more \in Seq(BarType) : more = Append(bars, bar)
  <2>1. Append(bars, bar) \in Seq(BarType)
    OBVIOUS
  <2> QED BY <2>1
<1>20. TimesOf(more) = Joined(real, b) /\ Joined(real, b) = real \cup {b}
  BY <1>5, <1>17, <1>19, BarTimes DEF Joined
<1>21. /\ EmptyBuckets(Joined(real, b)) = EmptyBuckets(real) \cup GapOf(a, b)
       /\ \A t \in GapOf(a, b) : Before(Joined(real, b), t) = a
  BY <1>6, <1>18, EmptyMore
<1>22. TimesOf(all) = TimesOf(more) \cup EmptyBuckets(TimesOf(more))
  <2>1. TimesOf(out) = real \cup EmptyBuckets(real)
    BY <1>8, <1>17 DEF FilledUp
  <2>2. EmptyBuckets(TimesOf(more)) = EmptyBuckets(real) \cup GapOf(a, b)
    BY <1>20, <1>21
  <2>3. TimesOf(all) = (real \cup EmptyBuckets(real)) \cup (GapOf(a, b) \cup {b})
    BY <1>9, <1>13, <2>1
  <2>4. TimesOf(more) = real \cup {b}
    BY <1>20
  <2>5. PICK due : due = EmptyBuckets(TimesOf(more))
    OBVIOUS
  <2>6. due = EmptyBuckets(real) \cup GapOf(a, b)
    BY <2>2, <2>5
  <2>7. TimesOf(all) = TimesOf(more) \cup due
    BY <2>3, <2>4, <2>6
  <2> QED BY <2>5, <2>7
<1>23. Len(more) = n + 1 /\ more[n + 1] = bar /\ \A i \in 1..n : more[i] = bars[i]
  BY <1>1, <1>19
<1>24. ASSUME NEW j \in 1..Len(out) PROVE IsDue(out[j], more)
  <2>1. out[j].time \in Int
    BY BarTimes
  <2>2. out[j].time <= a /\ IsDue(out[j], bars)
    BY <1>8 DEF FilledUp
  <2>3. bars[Len(bars)].time = a /\ bars[Len(bars)].time < bar.time
    BY <1>1, <1>3, <1>4, <1>5, <1>6
  <2> QED BY <1>2, <1>19, <2>1, <2>2, <2>3, DueStays
<1>25. ASSUME NEW j \in 1..Len(new) PROVE IsDue(new[j], more)
  <2>1. CASE new[j] = bar
    <3>1. bar.time \in TimesOf(more)
      BY <1>5, <1>20
    <3>2. n + 1 \in 1..Len(more)
      BY <1>23
    <3> QED BY <1>23, <2>1, <3>1, <3>2 DEF IsDue
  <2>2. CASE new[j].time \in GapOf(a, b) /\ new[j] = FlatBar(new[j].time, last.close)
    <3>1. PICK t \in GapOf(a, b) : t = new[j].time
      BY <2>2
    <3>2. t \in Int /\ a < t /\ t < b
      BY <3>1 DEF GapOf
    <3>3. t \notin TimesOf(more)
      BY <1>18, <1>20, <3>2 DEF Bounded
    <3>4. Before(TimesOf(more), t) = a
      BY <1>20, <1>21, <3>1
    <3>5. n \in 1..Len(more) /\ more[n] = last
      <4>1. n \in 1..n
        BY <1>1
      <4> QED BY <1>3, <1>23, <4>1
    <3> QED BY <1>4, <2>2, <3>1, <3>3, <3>4, <3>5 DEF IsDue
  <2> QED BY <1>9, <2>1, <2>2
<1>26. \A j \in 1..Len(all) : IsDue(all[j], more)
  BY <1>13, <1>24, <1>25
<1>27. \A j \in 1..Len(all) : all[j].time <= b
  <2>1. \A j \in 1..Len(out) : out[j].time \in Int /\ out[j].time <= a
    BY <1>8, BarTimes
  <2>2. \A j \in 1..Len(out) : out[j].time <= b
    BY <1>6, <2>1
  <2> QED BY <1>13, <1>14, <2>2
<1>28. FilledUp(all, more)
  BY <1>13, <1>15, <1>22, <1>26 DEF FilledUp
<1>29. Filling(after, more)
  <2>1. more # <<>> /\ more[Len(more)] = bar
    BY <1>23
  <2> QED BY <1>5, <1>12, <1>27, <1>28, <2>1 DEF Filling
<1> QED BY <1>11, <1>19, <1>29

LEMMA FillerFills ==
  ASSUME FitBuckets, NEW bars \in Seq(BarType), InOrder(bars)
  PROVE  FilledUp(FillerOf(query, bars).out, bars)
<1>1. CASE query.fill
  <2> DEFINE T == {t \in Seq(BarType) : InOrder(t) => Filling(FillerOf(query, t), t)}
  <2>1. <<>> \in T
    BY FillerEmpty DEF FillerOf, Filling
  <2>2. ASSUME NEW t \in Seq(BarType), NEW e \in BarType, t \in T PROVE Append(t, e) \in T
    <3>1. SUFFICES ASSUME InOrder(Append(t, e))
                   PROVE  Filling(FillerOf(query, Append(t, e)), Append(t, e))
      <4>1. Append(t, e) \in Seq(BarType)
        OBVIOUS
      <4> QED BY <4>1
    <3>2. InOrder(t)
      BY <3>1, InOrderAppend
    <3>3. Filling(FillerOf(query, t), t)
      BY <2>2, <3>2
    <3>4. PICK f : f = FillerOf(query, t)
      OBVIOUS
    <3>5. FillerOf(query, Append(t, e))
             = FillerStep(query.width, SessionOf(query), query.fill, f, e)
      BY <3>4, FillerAppend DEF FillerOf
    <3>6. CASE t = <<>>
      <4>1. f = NoFilling
        BY <3>3, <3>4, <3>6 DEF Filling
      <4>2. Append(t, e) = <<e>>
        BY <3>6
      <4>3. Filling(FillerStep(query.width, SessionOf(query), query.fill, NoFilling, e), <<e>>)
        BY <1>1, FillFirst
      <4> QED BY <3>5, <4>1, <4>2, <4>3
    <3>7. CASE t # <<>>
      BY <1>1, <3>1, <3>3, <3>4, <3>5, <3>7, FillNext
    <3> QED BY <3>6, <3>7
  <2> HIDE DEF T
  <2>3. Seq(BarType) \subseteq T
    BY <2>1, <2>2, SeqInduction
  <2>4. Filling(FillerOf(query, bars), bars)
    BY <2>3 DEF T
  <2>5. CASE bars = <<>>
    <3>1. FillerOf(query, bars).out = <<>>
      BY <2>4, <2>5 DEF Filling, NoFilling
    <3>2. TimesOf(<<>>) = {} /\ EmptyBuckets({}) = {}
      BY DEF TimesOf, EmptyBuckets
    <3>3. <<>> \in Seq(BarType) /\ InOrder(<<>>) /\ \A j \in 1..Len(<<>>) : FALSE
      BY DEF InOrder
    <3>4. FilledUp(<<>>, <<>>)
      BY <3>2, <3>3 DEF FilledUp
    <3> QED BY <2>5, <3>1, <3>4
  <2>6. CASE bars # <<>>
    BY <2>4, <2>6 DEF Filling
  <2> QED BY <2>5, <2>6
<1>2. CASE ~query.fill
  <2> DEFINE T == {t \in Seq(BarType) : FillerOf(query, t).out = t}
  <2>1. <<>> \in T
    BY FillerEmpty DEF FillerOf, NoFilling
  <2>2. ASSUME NEW t \in Seq(BarType), NEW e \in BarType, t \in T PROVE Append(t, e) \in T
    <3>1. PICK f : f = FillerOf(query, t) /\ f.out = t
      BY <2>2
    <3>2. FillerOf(query, Append(t, e))
             = FillerStep(query.width, SessionOf(query), query.fill, f, e)
      BY <3>1, FillerAppend DEF FillerOf
    <3>3. PushBar(query.width, SessionOf(query), query.fill, f.prev, e).out = <<e>>
      BY <1>2 DEF PushBar
    <3>4. FillerOf(query, Append(t, e)).out = t \o <<e>>
      BY <3>1, <3>2, <3>3 DEF FillerStep
    <3>5. t \o <<e>> = Append(t, e) /\ Append(t, e) \in Seq(BarType)
      OBVIOUS
    <3> QED BY <3>4, <3>5
  <2> HIDE DEF T
  <2>3. Seq(BarType) \subseteq T
    BY <2>1, <2>2, SeqInduction
  <2>4. FillerOf(query, bars).out = bars
    BY <2>3 DEF T
  <2>5. EmptyBuckets(TimesOf(bars)) = {}
    BY <1>2 DEF EmptyBuckets
  <2>6. \A j \in 1..Len(bars) : IsDue(bars[j], bars)
    <3>1. \A j \in 1..Len(bars) : bars[j].time \in TimesOf(bars)
      BY DEF TimesOf
    <3> QED BY <3>1 DEF IsDue
  <2> QED BY <2>4, <2>5, <2>6 DEF FilledUp
<1> QED BY <1>1, <1>2

-----------------------------------------------------------------------------
(* What a share has become since a time, and the trades of today.          *)

IsSince(f, time) ==
    /\ f[0] = One
    /\ \A i \in 1..Len(ActionsOf(query)) :
          LET action == ActionsOf(query)[Len(ActionsOf(query)) + 1 - i]
          IN  f[i] = IF action.time > time THEN Times(f[i - 1], action.ratio) ELSE f[i - 1]

LEMMA SinceRun ==
  ASSUME Len(ActionsOf(query)) \in Nat, NEW time
  PROVE  \E f : IsSince(f, time) /\ SharesSince(time) = f[Len(ActionsOf(query))]
<1> DEFINE N == Len(ActionsOf(query))
           action(i) == ActionsOf(query)[Len(ActionsOf(query)) + 1 - i]
           Step(i, x) == IF action(i).time > time THEN Times(x, action(i).ratio) ELSE x
           Is(f, m) == f = [i \in 0..m |-> IF i = 0 THEN One ELSE Step(i, f[i - 1])]
           Reached == {m \in 0..N : \E f : Is(f, m)}
           g == CHOOSE f : Is(f, N)
<1>1. SharesSince(time) = g[N]
  BY DEF SharesSince
<1> HIDE DEF Step, N, g
<1>2. N \in Nat
  BY DEF N
<1>3. 0 \in Reached
  <2>1. Is([i \in 0..0 |-> One], 0)
    OBVIOUS
  <2>2. \E f : Is(f, 0)
    <3> HIDE DEF Is
    <3> QED BY <2>1
  <2> HIDE DEF Is
  <2> QED BY <1>2, <2>2
<1>4. ASSUME NEW m \in 1..N, m - 1 \in Reached
      PROVE  m \in Reached
  <2>1. PICK f : Is(f, m - 1)
    BY <1>4
  <2> DEFINE h == [i \in 0..m |-> IF i = m THEN Step(m, f[m - 1]) ELSE f[i]]
  <2>2. \A i \in 0..(m - 1) : f[i] = IF i = 0 THEN One ELSE Step(i, f[i - 1])
    BY <2>1
  <2>3. h[m] = Step(m, f[m - 1]) /\ \A i \in 0..(m - 1) : h[i] = f[i]
    BY <1>2
  <2>4. h = [i \in 0..m |-> h[i]]
    OBVIOUS
  <2> HIDE DEF h
  <2>5. ASSUME NEW i \in 0..m
        PROVE  h[i] = IF i = 0 THEN One ELSE Step(i, h[i - 1])
    <3>1. CASE i = m
      <4>1. i # 0 /\ i - 1 \in 0..(m - 1) /\ i - 1 = m - 1
        BY <1>2, <3>1
      <4> QED BY <2>3, <3>1, <4>1
    <3>2. CASE i # m
      <4>1. i \in 0..(m - 1) /\ (i # 0 => i - 1 \in 0..(m - 1))
        BY <1>2, <3>2
      <4> QED BY <2>2, <2>3, <4>1
    <3> QED BY <3>1, <3>2
  <2>6. Is(h, m)
    BY <2>4, <2>5, Zenon
  <2> HIDE DEF Is
  <2> QED BY <1>4, <1>2, <2>6
<1>5. N \in Reached
  <2>1. 0..N \subseteq Reached
    <3> HIDE DEF Reached
    <3> QED BY <1>2, <1>3, <1>4, Induction
  <2> HIDE DEF Reached
  <2> QED BY <1>2, <2>1
<1>6. Is(g, N)
  <2> HIDE DEF Is
  <2> QED BY <1>5 DEF g
<1>7. g[0] = One /\ \A i \in 1..N : g[i] = Step(i, g[i - 1])
  <2>1. \A i \in 0..N : g[i] = IF i = 0 THEN One ELSE Step(i, g[i - 1])
    BY <1>6
  <2>2. 0 \in 0..N /\ \A i \in 1..N : i \in 0..N /\ i # 0
    BY <1>2
  <2> QED BY <2>1, <2>2, Zenon
<1>8. IsSince(g, time)
  BY <1>7 DEF IsSince, Step, N
<1> QED BY <1>1, <1>8 DEF N

\* What a share has become since is its factor in the adjuster.
LEMMA SinceLaw ==
  ASSUME ActionsOf(query) \in Seq(Action), Sorted(ActionsOf(query)), NEW time \in Int
  PROVE  /\ SharesSince(time) = SharesFrom(ActionsOf(query), Past(ActionsOf(query), time) + 1)
         /\ SharesSince(time) \in Positive
         /\ FactorsAt(ActionsOf(query), time)
               = [price |-> Flip(SharesSince(time)), volume |-> SharesSince(time)]
<1>1. PICK A \in Seq(Action) : A = ActionsOf(query)
  OBVIOUS
<1>2. PICK N \in Nat : N = Len(A)
  OBVIOUS
<1>3. PICK p \in 0..N : p = Past(A, time)
  BY <1>2, PastIs
<1>4. \A j \in 1..N : A[j].time \in Int /\ (A[j].time > time <=> j > p)
  <2> TAKE j \in 1..N
  <2>1. A[j] \in Action /\ A[j].time \in Int
    <3>1. A[j] \in Action
      BY <1>2
    <3> QED BY <3>1 DEF Action
  <2>2. A[j].time <= time => j <= p
    BY <1>2, <1>3, PastIs
  <2>3. ASSUME j <= p PROVE A[j].time <= time
    <3>1. p \in 1..N /\ A[p].time <= time
      <4>1. p # 0 /\ p \in 1..N
        BY <2>3
      <4>2. Past(A, time) # 0 => A[Past(A, time)].time <= time
        BY PastIs
      <4> QED BY <1>3, <4>1, <4>2
    <3>2. A[p].time \in Int
      <4>1. A[p] \in Action
        BY <1>2, <3>1
      <4> QED BY <4>1 DEF Action
    <3>3. j = p \/ j < p
      BY <2>3
    <3>4. A[j].time <= A[p].time
      BY <1>1, <1>2, <2>1, <3>1, <3>3 DEF Sorted
    <3> QED BY <2>1, <3>1, <3>2, <3>4
  <2> QED BY <2>1, <2>2, <2>3
<1>5. PICK f : /\ f[0] = One /\ SharesSince(time) = f[N]
               /\ \A i \in 1..N : f[i] = IF A[N + 1 - i].time > time
                                         THEN Times(f[i - 1], A[N + 1 - i].ratio) ELSE f[i - 1]
  <2>1. PICK f : IsSince(f, time) /\ SharesSince(time) = f[Len(ActionsOf(query))]
    BY <1>1, <1>2, SinceRun
  <2> QED BY <1>1, <1>2, <2>1 DEF IsSince
<1> DEFINE From(n) == SharesFrom(A, IF N + 1 - n > p THEN N + 1 - n ELSE p + 1)
           S == {n \in 0..N : f[n] = From(n)}
<1>6. SharesFrom(A, N + 1) = One
      /\ \A i \in 1..N : SharesFrom(A, i) = Times(SharesFrom(A, i + 1), A[i].ratio)
  BY <1>2, SharesLaw
<1>7. 0 \in S
  <2>1. N + 1 - 0 = N + 1 /\ N + 1 > p
    OBVIOUS
  <2> QED BY <1>5, <1>6, <2>1
<1>8. ASSUME NEW n \in 1..N, n - 1 \in S PROVE n \in S
  <2>1. PICK i \in 1..N : i = N + 1 - n
    OBVIOUS
  <2>2. N + 1 - (n - 1) = i + 1
    BY <2>1
  <2>3. f[n - 1] = SharesFrom(A, IF i + 1 > p THEN i + 1 ELSE p + 1)
    BY <1>8, <2>2
  <2>4. f[n] = IF A[i].time > time THEN Times(f[n - 1], A[i].ratio) ELSE f[n - 1]
    BY <1>5, <2>1
  <2>5. CASE i > p
    <3>1. A[i].time > time /\ i + 1 > p
      BY <1>4, <2>5
    <3>2. f[n] = Times(SharesFrom(A, i + 1), A[i].ratio)
      BY <2>3, <2>4, <3>1
    <3> QED BY <1>6, <2>1, <2>5, <3>2
  <2>6. CASE ~(i > p)
    <3>1. ~(A[i].time > time) /\ f[n] = f[n - 1]
      BY <1>4, <2>4, <2>6
    <3>2. (IF i + 1 > p THEN i + 1 ELSE p + 1) = p + 1
      BY <2>6
    <3> QED BY <2>1, <2>3, <2>6, <3>1, <3>2
  <2> QED BY <2>5, <2>6
<1> HIDE DEF S
<1>9. 0..N \subseteq S
  BY <1>7, <1>8, Induction
<1>10. f[N] = SharesFrom(A, p + 1)
  <2>1. N \in S
    BY <1>9
  <2>2. (IF N + 1 - N > p THEN N + 1 - N ELSE p + 1) = p + 1
    OBVIOUS
  <2> QED BY <2>1, <2>2 DEF S
<1>11. SharesFrom(A, p + 1) \in Positive
  <2>1. p + 1 \in 1..(N + 1)
    OBVIOUS
  <2> QED BY <1>2, <2>1, SharesPositive
<1> QED BY <1>1, <1>3, <1>5, <1>10, <1>11 DEF FactorsAt

\* Between two times with no ex-date between them a share stays a share.
LEMMA SinceSame ==
  ASSUME ActionsOf(query) \in Seq(Action), Sorted(ActionsOf(query)),
         NEW t \in Int, NEW u \in Int, t <= u,
         \A i \in 1..Len(ActionsOf(query)) : ActionsOf(query)[i].time \notin (t + 1)..u
  PROVE  SharesSince(t) = SharesSince(u)
<1>1. PICK A \in Seq(Action) : A = ActionsOf(query)
  OBVIOUS
<1>2. PICK N \in Nat : N = Len(A)
  OBVIOUS
<1>3. PICK p \in 0..N : p = Past(A, t)
  BY <1>2, PastIs
<1>4. \A j \in 1..N : A[j].time \in Int
  <2>1. \A a \in Action : a.time \in Int
    BY DEF Action
  <2> QED BY <1>2, <2>1
<1>5. p # 0 => A[p].time <= u
  <2>2. Past(A, t) # 0 => A[Past(A, t)].time <= t
    BY PastIs
  <2>1. p # 0 => A[p].time <= t /\ p \in 1..N
    BY <1>3, <2>2
  <2> QED BY <1>4, <2>1
<1>6. \A j \in 1..N : A[j].time <= u => j <= p
  <2> SUFFICES ASSUME NEW j \in 1..N, A[j].time <= u PROVE j <= p
    OBVIOUS
  <2>1. A[j].time <= t
    BY <1>1, <1>2, <1>4
  <2> QED BY <1>2, <1>3, <2>1, PastIs
<1>7. Past(A, u) = p
  BY <1>2, <1>5, <1>6, PastUnique
<1> QED BY <1>1, <1>3, <1>7, SinceLaw

LEMMA ScaledFlat ==
  ASSUME NEW f \in Positive, NEW time, NEW p \in Nat,
         NEW bar, bar = ScaledBar(FlatBar(time, p), [price |-> Flip(f), volume |-> f])
  PROVE  /\ bar.time = time /\ bar.volume = 0 /\ bar.trades = 0
         /\ FineFor(f, p) => bar = FlatBar(time, ScalePrice(p, Flip(f)))
<1>1. PICK n \in Nat \ {0} : n = f.n
  BY DEF Positive
<1>2. PICK d \in Nat \ {0} : d = f.d
  BY DEF Positive
<1>3. PICK flat : flat = FlatBar(time, p)
  OBVIOUS
<1>4. /\ flat.time = time /\ flat.open = p /\ flat.high = p /\ flat.low = p /\ flat.close = p
      /\ flat.volume = 0 /\ flat.vwap = Whole(p) /\ flat.trades = 0
  BY <1>3 DEF FlatBar
<1>5. ScaleShares(0, f) = 0
  <2>1. PICK e \in Nat \ {0} : e = 2 * d
    OBVIOUS
  <2>2. d \div e = 0
    <3>1. e * 0 <= d /\ d < e * 0 + e
      BY <2>1
    <3> QED BY <3>1, QuotientBounds
  <2>3. 2 * 0 * n + d = d
    OBVIOUS
  <2> QED BY <1>1, <1>2, <2>1, <2>2, <2>3 DEF ScaleShares
<1>6. Whole(p) # NaN
  BY DEF Whole, NaN
<1>7. PICK c : c = ScalePrice(p, Flip(f))
  OBVIOUS
<1>8. bar = [time |-> time, open |-> c, high |-> c, low |-> c, close |-> c, volume |-> 0,
             vwap |-> Times(Whole(p), Flip(f)), trades |-> 0]
  BY <1>3, <1>4, <1>5, <1>6, <1>7 DEF ScaledBar
<1>9. ASSUME FineFor(f, p) PROVE Times(Whole(p), Flip(f)) = Whole(c)
  <2>1. c \in Int /\ c * n = p * d
    BY <1>1, <1>2, <1>7, <1>9, PriceExact
  <2>2. PICK x \in Int : x = p * d
    OBVIOUS
  <2>3. Times(Whole(p), Flip(f)) = Quotient(x, n)
    <3>1. 1 * n = n
      OBVIOUS
    <3> QED BY <1>1, <1>2, <2>2, <3>1 DEF Times, Flip, Whole
  <2>4. Quotient(x, n) = Quotient(c, 1)
    <3>1. x * 1 = c * n /\ 1 \in Nat \ {0}
      BY <2>1, <2>2
    <3> QED BY <2>1, <3>1, QuotientSame
  <2>5. Quotient(c, 1) = Whole(c)
    BY <2>1, WholeIs
  <2> QED BY <2>3, <2>4, <2>5
<1>10. FineFor(f, p) => bar = FlatBar(time, c)
  BY <1>8, <1>9 DEF FlatBar
<1> QED BY <1>7, <1>8, <1>10

InToday(ticks) == [i \in DOMAIN ticks |-> Today(ticks[i])]

\* The trades of a bucket are its trades at any price and size.
LEMMA TodayTicks ==
  ASSUME NEW S, NEW ticks \in Seq(S), NEW start
  PROVE  /\ StartsOf(InToday(ticks)) = StartsOf(ticks)
         /\ TicksIn(InToday(ticks), start) = InToday(TicksIn(ticks, start))
<1>1. \A tick : BucketOf(Today(tick)) = BucketOf(tick)
  BY DEF BucketOf, Today
<1>2. \A t \in Seq(S) : StartsOf(InToday(t)) = StartsOf(t)
  <2> TAKE t \in Seq(S)
  <2>1. DOMAIN InToday(t) = DOMAIN t /\ \A i \in DOMAIN t : InToday(t)[i] = Today(t[i])
    BY DEF InToday
  <2> QED BY <1>1, <2>1 DEF StartsOf
<1> DEFINE R == {Today(k) : k \in S}
           T == {t \in Seq(S) : /\ InToday(t) \in Seq(R)
                                /\ TicksIn(InToday(t), start) = InToday(TicksIn(t, start))}
<1>3. InToday(<<>>) = <<>>
  BY DEF InToday
<1>4. \A t \in Seq(S), e \in S :
         /\ InToday(t) \in Seq(R)
         /\ InToday(Append(t, e)) = Append(InToday(t), Today(e))
  <2> TAKE t \in Seq(S), e \in S
  <2>1. PICK n \in Nat : n = Len(t) /\ DOMAIN t = 1..n
    OBVIOUS
  <2>2. PICK more : more = Append(t, e)
    OBVIOUS
  <2>3. DOMAIN more = 1..(n + 1) /\ more[n + 1] = e /\ \A i \in 1..n : more[i] = t[i]
    BY <2>1, <2>2
  <2>4. PICK f : f = InToday(t)
    OBVIOUS
  <2>5. PICK g : g = InToday(more)
    OBVIOUS
  <2>6. IsColumn(f, n) /\ IsColumn(g, n + 1)
    BY <2>1, <2>3, <2>4, <2>5 DEF InToday, IsColumn
  <2>7. \A i \in 1..n : f[i] = Today(t[i]) /\ f[i] \in R
    <3>1. \A i \in 1..n : t[i] \in S
      BY <2>1
    <3> QED BY <2>1, <2>4, <3>1 DEF InToday
  <2>8. \A i \in 1..(n + 1) : g[i] = Today(more[i])
    BY <2>3, <2>5 DEF InToday
  <2> HIDE DEF R
  <2>9. f \in Seq(R)
    BY <2>6, <2>7, ColumnType
  <2>10. (\A i \in 1..n : g[i] = f[i]) /\ g[n + 1] = Today(e)
    <3>1. n + 1 \in 1..(n + 1) /\ \A i \in 1..n : i \in 1..(n + 1)
      OBVIOUS
    <3> QED BY <2>3, <2>7, <2>8, <3>1
  <2>11. g = Append(f, Today(e))
    BY <2>6, <2>10, GrownByOne
  <2> QED BY <2>2, <2>4, <2>5, <2>9, <2>11
<1>5. <<>> \in T
  <2>1. TicksIn(<<>>, start) = <<>>
    BY RowsAtEmpty DEF TicksIn
  <2>2. <<>> \in Seq(S) /\ <<>> \in Seq(R)
    OBVIOUS
  <2> HIDE DEF R
  <2> QED BY <1>3, <2>1, <2>2
<1>6. ASSUME NEW t \in Seq(S), NEW e \in S, t \in T PROVE Append(t, e) \in T
  <2>1. Today(e) \in R
    OBVIOUS
  <2> HIDE DEF R
  <2>2. PICK u \in Seq(R) : u = InToday(t) /\ TicksIn(u, start) = InToday(TicksIn(t, start))
    BY <1>6
  <2>3. InToday(Append(t, e)) = Append(u, Today(e)) /\ Append(u, Today(e)) \in Seq(R)
    BY <1>4, <2>1, <2>2
  <2>4. TicksIn(Append(u, Today(e)), start)
           = IF BucketOf(e) = start THEN Append(TicksIn(u, start), Today(e)) ELSE TicksIn(u, start)
    <3>1. BucketOf(Today(e)) = BucketOf(e)
      BY <1>1
    <3> QED BY <2>1, <2>2, <3>1, TicksInAppend, SMTT(30)
  <2>5. PICK held \in Seq(S) : held = TicksIn(t, start)
    BY TicksInAppend
  <2>6. TicksIn(Append(t, e), start) = IF BucketOf(e) = start THEN Append(held, e) ELSE held
    BY <2>5, TicksInAppend, SMTT(30)
  <2>7. InToday(Append(held, e)) = Append(InToday(held), Today(e))
    BY <1>4
  <2>8. TicksIn(InToday(Append(t, e)), start) = InToday(TicksIn(Append(t, e), start))
    BY <2>2, <2>3, <2>4, <2>5, <2>6, <2>7
  <2>9. Append(t, e) \in Seq(S)
    OBVIOUS
  <2> QED BY <2>3, <2>8, <2>9
<1> HIDE DEF T
<1>7. Seq(S) \subseteq T
  BY <1>5, <1>6, SeqInduction
<1> QED BY <1>2, <1>7 DEF T

-----------------------------------------------------------------------------
(* From bars and fill to rows: the adjuster over what the filler gives.    *)

FitActions == ActionsOf(query) \in Seq(Action) /\ Sorted(ActionsOf(query))
\* Prices are fine enough for the factors, and no ex-date falls inside of a
\* bucket before one of its trades.
FitTrades(ticks) ==
    \A i \in 1..Len(ticks) :
        /\ FineFor(SharesSince(ticks[i].time), ticks[i].price)
        /\ \A k \in 1..Len(ActionsOf(query)) :
              ActionsOf(query)[k].time \notin (BucketOf(ticks[i]) + 1)..ticks[i].time

\* The trades of a bucket have become as many shares as one at its start.
LEMMA BucketToday ==
  ASSUME FitBuckets, FitActions, NEW ticks \in Seq(Trade), FitTrades(ticks),
         NEW start \in StartsOf(ticks)
  PROVE  LET held == TicksIn(ticks, start)
             f == SharesSince(start)
         IN  /\ start \in Int /\ f \in Positive
             /\ held \in Seq(Trade) /\ held # <<>>
             /\ \A i \in 1..Len(held) : FineFor(f, held[i].price)
             /\ \A i \in 1..Len(held) : SharesSince(held[i].time) = f
             /\ InToday(held) = [i \in DOMAIN held |-> Grown(f, held[i])]
<1>1. PICK n \in Nat : n = Len(ticks) /\ DOMAIN ticks = 1..n
  OBVIOUS
<1>2. \A i \in 1..n : ticks[i] \in Trade /\ ticks[i].time \in Int
  <2>1. \A t \in Trade : t.time \in Int
    BY DEF Trade
  <2> QED BY <1>1, <2>1
<1>3. \A i \in 1..n : BucketOf(ticks[i]) \in Int /\ BucketOf(ticks[i]) <= ticks[i].time
  BY <1>2, BucketStartBounds DEF FitBuckets, BucketOf
<1>4. start \in Int
  BY <1>1, <1>3 DEF StartsOf
<1>5. PICK held : held = TicksIn(ticks, start)
  OBVIOUS
<1>6. PICK f : f = SharesSince(start)
  OBVIOUS
<1>7. f \in Positive
  BY <1>4, <1>6, SinceLaw DEF FitActions
<1> DEFINE P == {i \in DOMAIN ticks : BucketOf(ticks[i]) = start}
<1>8. held = RowsAt(ticks, P)
  BY <1>5 DEF TicksIn
<1>9. held \in Seq(Trade)
  <2> HIDE DEF P
  <2> QED BY <1>8, RowsAtType
<1>10. held # <<>>
  BY <1>5, TicksInSome
<1>11. PICK m \in Nat : m = Len(held) /\ DOMAIN held = 1..m
  BY <1>9
<1>12. ASSUME NEW k \in 1..m
       PROVE  /\ FineFor(f, held[k].price) /\ SharesSince(held[k].time) = f
              /\ Today(held[k]) = Grown(f, held[k])
  <2>1. PICK i \in 1..n : i \in P /\ held[k] = ticks[i]
    <3> HIDE DEF P
    <3> QED BY <1>1, <1>8, <1>11, RowsAtElements
  <2>2. BucketOf(ticks[i]) = start
    BY <2>1
  <2>3. PICK t \in Int : t = ticks[i].time /\ start <= t
    BY <1>2, <1>3, <2>2
  <2>4. /\ FineFor(SharesSince(t), ticks[i].price)
        /\ \A l \in 1..Len(ActionsOf(query)) : ActionsOf(query)[l].time \notin (start + 1)..t
    BY <1>1, <2>2, <2>3 DEF FitTrades
  <2>5. SharesSince(start) = SharesSince(t)
    BY <1>4, <2>3, <2>4, SinceSame DEF FitActions
  <2>6. Today(held[k]) = Grown(f, held[k])
    BY <1>6, <2>1, <2>3, <2>5 DEF Today, Grown
  <2> QED BY <1>6, <2>1, <2>3, <2>4, <2>5, <2>6
<1>13. InToday(held) = [i \in DOMAIN held |-> Grown(f, held[i])]
  BY <1>11, <1>12 DEF InToday
<1> QED BY <1>4, <1>5, <1>6, <1>7, <1>9, <1>10, <1>11, <1>12, <1>13

\* One bar out of the filler, scaled.
LEMMA RowOfMarket ==
  ASSUME FitBuckets, FitActions, NEW ticks \in Seq(Trade), FitTrades(ticks),
         NEW bars, BarsOfBuckets(bars, ticks), NEW due \in BarType, IsDue(due, bars),
         NEW row, row = ScaledBar(due, FactorsAt(ActionsOf(query), due.time))
  PROVE  /\ row.time = due.time
         /\ IF row.time \in StartsOf(ticks)
            THEN IsBarOf(row, TicksIn(InToday(ticks), row.time))
            ELSE IsFlatAfter(row, Before(StartsOf(ticks), row.time), InToday(ticks))
<1>1. PICK t \in Int : t = due.time
  BY DEF BarType
<1>2. PICK f : f = SharesSince(t)
  OBVIOUS
<1>3. /\ f \in Positive
      /\ FactorsAt(ActionsOf(query), t) = [price |-> Flip(f), volume |-> f]
  BY <1>2, SinceLaw DEF FitActions
<1>4. row = ScaledBar(due, [price |-> Flip(f), volume |-> f])
  BY <1>1, <1>3
<1>5. row.time = t
  BY <1>1, <1>4 DEF ScaledBar
<1>6. PICK real : real = StartsOf(ticks) /\ real = TimesOf(bars)
  BY DEF BarsOfBuckets
<1>7. PICK n \in Nat : n = Len(bars) /\ DOMAIN bars = 1..n
  BY DEF BarsOfBuckets
<1>8. \A i \in 1..n : bars[i] = BarAt(bars[i].time, TicksIn(ticks, bars[i].time))
                      /\ bars[i].time \in real
  BY <1>6, <1>7 DEF BarsOfBuckets, AreBuckets, TimesOf
<1>9. CASE t \in real
  <2>1. PICK i \in 1..n : due = bars[i]
    BY <1>1, <1>6, <1>7, <1>9 DEF IsDue
  <2>2. PICK held : held = TicksIn(ticks, t)
    OBVIOUS
  <2>3. due = BarAt(t, held)
    BY <1>1, <1>8, <2>1, <2>2
  <2>4. /\ held \in Seq(Trade) /\ held # <<>>
        /\ \A k \in 1..Len(held) : FineFor(f, held[k].price)
        /\ InToday(held) = [k \in DOMAIN held |-> Grown(f, held[k])]
    BY <1>2, <1>6, <1>9, <2>2, BucketToday
  <2>5. IsBarOf(row, InToday(held))
    BY <1>3, <1>4, <2>3, <2>4, ScaledIsBar
  <2>6. TicksIn(InToday(ticks), t) = InToday(held)
    BY <2>2, TodayTicks
  <2> QED BY <1>1, <1>5, <1>6, <1>9, <2>5, <2>6
<1>10. CASE t \notin real
  <2>1. PICK i \in 1..n : bars[i].time = Before(real, t) /\ due = FlatBar(t, bars[i].close)
    BY <1>1, <1>6, <1>7, <1>10 DEF IsDue
  <2>2. PICK a : a = bars[i].time
    OBVIOUS
  <2>3. a \in real /\ a = Before(real, t) /\ bars[i] = BarAt(a, TicksIn(ticks, a))
    BY <1>8, <2>1, <2>2
  <2>4. PICK held : held = TicksIn(ticks, a)
    OBVIOUS
  <2>5. PICK g : g = SharesSince(a)
    OBVIOUS
  <2>6. /\ a \in Int /\ held \in Seq(Trade) /\ held # <<>>
        /\ \A k \in 1..Len(held) : FineFor(g, held[k].price)
        /\ InToday(held) = [k \in DOMAIN held |-> Grown(g, held[k])]
    BY <1>6, <2>3, <2>4, <2>5, BucketToday
  <2>7. PICK m \in Nat : m = Len(held) /\ DOMAIN held = 1..m /\ m \in 1..m
    BY <2>6
  <2>8. PICK p \in Nat : p = held[m].price /\ FineFor(g, p)
    <3>1. held[m] \in Trade
      BY <2>6, <2>7
    <3> QED BY <2>6, <2>7, <3>1 DEF Trade
  <2>9. bars[i].close = p
    BY <2>3, <2>4, <2>6, <2>7, <2>8, BarAtIs
  <2>10. row = ScaledBar(FlatBar(t, p), [price |-> Flip(f), volume |-> f])
    BY <1>4, <2>1, <2>9
  <2>11. /\ row.volume = 0 /\ row.trades = 0
         /\ FineFor(f, p) => row = FlatBar(t, ScalePrice(p, Flip(f)))
    BY <1>3, <2>10, ScaledFlat
  <2>12. TicksIn(InToday(ticks), a) = InToday(held)
    BY <2>4, TodayTicks
  <2>13. Last(InToday(held)).price = ScalePrice(p, Flip(g))
    <3>1. Last([k \in 1..m |-> Grown(g, held[k])]) = Grown(g, held[m])
      BY <2>7 DEF Last
    <3>2. Last(InToday(held)) = Grown(g, held[m])
      BY <2>6, <2>7, <3>1
    <3> QED BY <2>8, <3>2 DEF Grown
  <2>14. \/ SharesSince(a) # SharesSince(row.time)
         \/ row = FlatBar(row.time, Last(TicksIn(InToday(ticks), a)).price)
    <3>1. CASE f = g
      BY <1>5, <2>8, <2>11, <2>12, <2>13, <3>1
    <3>2. CASE f # g
      BY <1>2, <1>5, <2>5, <3>2
    <3> QED BY <3>1, <3>2
  <2>15. IsFlatAfter(row, a, InToday(ticks))
    BY <2>11, <2>14 DEF IsFlatAfter
  <2> QED BY <1>1, <1>5, <1>6, <1>10, <2>3, <2>15
<1> QED BY <1>9, <1>10

\* The rows at the end, over the trades that were kept.
LEMMA RowsOfKept ==
  ASSUME IInv, phase = "done", FitBuckets, FitActions,
         NEW ticks \in Seq(Printed), ticks = KeptOf(query, source),
         Ordered(ticks), FitTrades(ticks)
  PROVE  AreBarsOfAll(InToday(ticks))
<1>1. PICK bars : bars = ResampledFrom(ticks).out \o FinishRows(ResampledFrom(ticks).res)
  OBVIOUS
<1>2. BarsOfBuckets(bars, ticks)
  BY <1>1, ResamplerDelivers
<1>3. bars = Delivered(query, phase, source)
  BY <1>1 DEF Delivered, ResamplerOf, ResampledFrom
<1>4. PICK filled : filled = FillerOf(query, bars).out
  OBVIOUS
<1>5. bars \in Seq(BarType) /\ InOrder(bars) /\ TimesOf(bars) = StartsOf(ticks)
  BY <1>2 DEF BarsOfBuckets
<1>6. FilledUp(filled, bars)
  BY <1>4, <1>5, FillerFills
<1>7. Stage(query, Held, filled)
  <2>1. Consistent(query, phase, source, chain.res, chain.prev, Held)
    BY Streaming
  <2> QED BY <1>3, <1>4, <2>1 DEF Consistent
<1>8. /\ IsColumn(rows, Len(filled))
      /\ BarsOf(rows) = Adjusted(ActionsOf(query), filled)
  BY <1>7 DEF Stage, Held
<1>9. PICK n \in Nat : n = Len(filled) /\ DOMAIN filled = 1..n
  BY <1>6 DEF FilledUp
<1>10. /\ DOMAIN rows = 1..n
       /\ \A i \in 1..n : /\ filled[i] \in BarType /\ IsDue(filled[i], bars)
                          /\ rows[i].bar = ScaledBar(filled[i], FactorsAt(ActionsOf(query), filled[i].time))
  <2>1. \A i \in 1..n : filled[i] \in BarType /\ IsDue(filled[i], bars)
    BY <1>6, <1>9 DEF FilledUp
  <2>2. DOMAIN BarsOf(rows) = DOMAIN rows
    BY DEF BarsOf
  <2>3. DOMAIN Adjusted(ActionsOf(query), filled) = 1..n
    BY <1>9 DEF Adjusted
  <2>4. DOMAIN rows = 1..n
    BY <1>8, <2>2, <2>3
  <2>5. \A i \in 1..n : BarsOf(rows)[i] = rows[i].bar
    BY <2>4 DEF BarsOf
  <2>6. \A i \in 1..n : Adjusted(ActionsOf(query), filled)[i]
                           = ScaledBar(filled[i], FactorsAt(ActionsOf(query), filled[i].time))
    BY <1>9 DEF Adjusted
  <2> QED BY <1>8, <2>1, <2>4, <2>5, <2>6
<1> DEFINE market == InToday(ticks)
           real == StartsOf(ticks)
<1>11. ticks \in Seq(Trade)
  BY DEF Printed
<1>12. \A i \in 1..n :
          /\ rows[i].bar.time = filled[i].time
          /\ IF rows[i].bar.time \in real
             THEN IsBarOf(rows[i].bar, TicksIn(market, rows[i].bar.time))
             ELSE IsFlatAfter(rows[i].bar, Before(real, rows[i].bar.time), market)
  <2>1. TAKE i \in 1..n
  <2> QED BY <1>2, <1>10, <1>11, RowOfMarket
<1> HIDE DEF market
<1>13. StartsOf(market) = real
  BY <1>11, TodayTicks DEF market
<1>14. AreBarsOfAll(market) <=> AreBarsOf(market, real)
  BY <1>13 DEF AreBarsOfAll, StartsOf
<1> HIDE DEF real
<1>15. \A i \in 1..n : i > 1 => filled[i - 1].time < filled[i].time
  BY <1>6, <1>9 DEF FilledUp, InOrder
<1>16. TimesOf(filled) = real \cup EmptyBuckets(real)
  BY <1>5, <1>6 DEF FilledUp, real
<1>17. AreBarsOf(market, real)
  <2> DEFINE found == [i \in DOMAIN rows |-> rows[i].bar]
  <2>1. DOMAIN found = 1..n /\ \A i \in 1..n : found[i] = rows[i].bar
    BY <1>10
  <2> HIDE DEF found
  <2>2. {found[i].time : i \in DOMAIN found} = TimesOf(filled)
    BY <1>9, <1>12, <2>1 DEF TimesOf
  <2>3. \A i \in 1..n : i > 1 => found[i - 1].time < found[i].time
    <3>1. TAKE i \in 1..n
    <3>2. i > 1 => i - 1 \in 1..n
      BY <1>9
    <3> QED BY <1>12, <1>15, <2>1, <3>2
  <2>4. \A i \in 1..n :
          IF found[i].time \in real THEN IsBarOf(found[i], TicksIn(market, found[i].time))
          ELSE IsFlatAfter(found[i], Before(real, found[i].time), market)
    BY <1>12, <2>1
  <2>5. /\ {found[i].time : i \in DOMAIN found} = real \cup EmptyBuckets(real)
        /\ \A i \in DOMAIN found : i > 1 => found[i - 1].time < found[i].time
        /\ \A i \in DOMAIN found :
              IF found[i].time \in real THEN IsBarOf(found[i], TicksIn(market, found[i].time))
              ELSE IsFlatAfter(found[i], Before(real, found[i].time), market)
    BY <1>16, <2>1, <2>2, <2>3, <2>4
  <2> QED BY <2>5, Zenon DEF AreBarsOf, found
<1> QED BY <1>14, <1>17 DEF market

-----------------------------------------------------------------------------
\* What is read is in the order of its times, and the market's.
SourceInOrder ==
    /\ source \in Seq(TickType) /\ Len(source) <= MaxTicks
    /\ Ascending(source)
    /\ \A i \in 1..Len(source) : source[i].price = Prices[i] /\ source[i].size = Sizes[i]

LEMMA TickTime ==
  ASSUME NEW tick \in TickType
  PROVE  tick.time \in Int
<1>1. tick.time \in Instants
  BY DEF TickType
<1>2. Instants \subseteq Nat
  BY AnalysisAssumption
<1>3. PICK c \in Instants : c = tick.time
  BY <1>1
<1>4. c \in Nat
  BY <1>2
<1> QED BY <1>3, <1>4

\* One more of these, not before the last one.
LEMMA AscendingNext ==
  ASSUME NEW S, \A r \in S : r.time \in Int, NEW list \in Seq(S), NEW r \in S
  PROVE  Ascending(Append(list, r)) <=>
            Ascending(list) /\ \A i \in 1..Len(list) : list[i].time <= r.time
<1>1. PICK n \in Nat : n = Len(list)
  OBVIOUS
<1>2. PICK more : more = Append(list, r)
  OBVIOUS
<1>3. /\ Len(more) = n + 1 /\ more[n + 1] = r
      /\ \A i \in 1..n : more[i] = list[i] /\ list[i].time \in Int
  BY <1>1, <1>2, AppendProperties
<1>4. ASSUME Ascending(more)
      PROVE  Ascending(list) /\ \A i \in 1..n : list[i].time <= r.time
  <2>1. \A i, j \in 1..(n + 1) : i < j => more[i].time <= more[j].time
    BY <1>3, <1>4 DEF Ascending
  <2>2. \A i \in 1..n : i \in 1..(n + 1) /\ i < n + 1
    OBVIOUS
  <2> QED BY <1>1, <1>3, <2>1, <2>2 DEF Ascending
<1>5. ASSUME Ascending(list), \A i \in 1..n : list[i].time <= r.time
      PROVE  Ascending(more)
  <2>1. ASSUME NEW i \in 1..(n + 1), NEW j \in 1..(n + 1), i < j
        PROVE  more[i].time <= more[j].time
    <3>1. i \in 1..n
      BY <2>1
    <3>2. CASE j \in 1..n
      BY <1>1, <1>3, <1>5, <2>1, <3>1, <3>2 DEF Ascending
    <3>3. CASE j = n + 1
      BY <1>3, <1>5, <3>1, <3>3
    <3> QED BY <3>2, <3>3
  <2> QED BY <1>3, <2>1 DEF Ascending
<1> QED BY <1>1, <1>2, <1>4, <1>5

\* Some rows of an ascending source ascend.
LEMMA RowsAtAscending ==
  ASSUME NEW S, \A r \in S : r.time \in Int, NEW rowsOf \in Seq(S), NEW P, Ascending(rowsOf)
  PROVE  Ascending(RowsAt(rowsOf, P))
<1> DEFINE Good == {r \in Seq(S) : Ascending(r) => Ascending(RowsAt(r, P))}
<1>1. <<>> \in Good
  BY RowsAtEmpty DEF Ascending
<1>2. ASSUME NEW r \in Seq(S), NEW e \in S, r \in Good
      PROVE  Append(r, e) \in Good
  <2> DEFINE more == Append(r, e)
             taken == RowsAt(r, P)
  <2>1. more \in Seq(S) /\ taken \in Seq(S)
    BY AppendProperties, RowsAtType
  <2>2. ASSUME Ascending(more) PROVE Ascending(RowsAt(more, P))
    <3>1. Ascending(r) /\ \A i \in 1..Len(r) : r[i].time <= e.time
      BY <2>2, AscendingNext
    <3>2. Ascending(taken)
      BY <1>2, <3>1
    <3>3. \A k \in 1..Len(taken) : taken[k].time <= e.time
      <4>1. \A k \in 1..Len(taken) : \E i \in 1..Len(r) : taken[k] = r[i]
        BY RowsAtElements
      <4> HIDE DEF taken
      <4> QED BY <3>1, <4>1
    <3>4. Ascending(Append(taken, e))
      <4> HIDE DEF taken
      <4> QED BY <2>1, <3>2, <3>3, AscendingNext
    <3>5. RowsAt(more, P) = Append(taken, e) \/ RowsAt(more, P) = taken
      BY RowsAtAppend
    <3> QED BY <3>2, <3>4, <3>5
  <2> QED BY <2>1, <2>2
<1>3. Seq(S) \subseteq Good
  <2> HIDE DEF Good
  <2> QED BY <1>1, <1>2, SeqInduction
<1> QED BY <1>3

LEMMA OrderStart == Init => SourceInOrder
BY AnalysisAssumption DEF Init, SourceInOrder, Ascending

LEMMA OrderStep == SourceInOrder /\ [Next]_vars => SourceInOrder'
<1> SUFFICES ASSUME SourceInOrder, [Next]_vars PROVE SourceInOrder'
  OBVIOUS
<1>1. PICK n \in Nat : n = Len(source) /\ n <= MaxTicks /\ DOMAIN source = 1..n
  BY DEF SourceInOrder
<1>2. /\ source \in Seq(TickType) /\ Ascending(source)
      /\ \A i \in 1..n : source[i].price = Prices[i] /\ source[i].size = Sizes[i]
  BY <1>1 DEF SourceInOrder
<1>3. ASSUME NEW time \in Instants, Read(time) PROVE SourceInOrder'
  <2> DEFINE tick == [time |-> time, price |-> Prices[n + 1], size |-> Sizes[n + 1]]
  <2>1. /\ n + 1 <= MaxTicks /\ source' = Append(source, tick)
        /\ source # <<>> => time > Last(source).time \/ time = Last(source).time
    BY <1>1, <1>3 DEF Read
  <2>2. tick \in TickType
    <3>1. n + 1 \in 1..MaxTicks
      BY <2>1, AnalysisAssumption
    <3>2. Prices[n + 1] \in Nat /\ Sizes[n + 1] \in Nat
      BY <3>1, AnalysisAssumption
    <3> QED BY <3>2 DEF TickType
  <2>3. tick.time = time /\ time \in Int /\ tick.price = Prices[n + 1] /\ tick.size = Sizes[n + 1]
    BY AnalysisAssumption
  <2> HIDE DEF tick
  <2>4. /\ source' \in Seq(TickType) /\ Len(source') = n + 1
        /\ \A i \in 1..n : source'[i] = source[i]
        /\ source'[n + 1] = tick
    BY <1>1, <1>2, <2>1, <2>2
  <2>5. \A t \in TickType : t.time \in Int
    BY TickTime
  <2>6. ASSUME NEW i \in 1..n PROVE source[i].time <= tick.time
    <3>1. source[n].time \in Int /\ source[i].time \in Int
      BY <1>1, <1>2, <2>5
    <3>2. source # <<>> /\ Last(source) = source[n]
      BY <1>1, <1>2 DEF Last
    <3>3. source[n].time <= time
      BY <2>1, <2>3, <3>1, <3>2
    <3>4. source[i].time <= source[n].time
      BY <1>1, <1>2, <3>1 DEF Ascending
    <3> QED BY <2>3, <3>1, <3>3, <3>4
  <2>7. Ascending(source')
    BY <1>1, <1>2, <2>1, <2>2, <2>5, <2>6, AscendingNext
  <2>8. \A i \in 1..(n + 1) : source'[i].price = Prices[i] /\ source'[i].size = Sizes[i]
    <3>1. \A i \in 1..(n + 1) : i \in 1..n \/ i = n + 1
      OBVIOUS
    <3> QED BY <1>2, <2>3, <2>4, <3>1
  <2> QED BY <2>1, <2>4, <2>7, <2>8 DEF SourceInOrder
<1>4. CASE Finish
  <2>1. source' = source
    BY <1>4 DEF Finish
  <2> QED BY <1>1, <1>2, <2>1 DEF SourceInOrder
<1>5. CASE UNCHANGED vars
  <2>1. source' = source
    BY <1>5 DEF vars
  <2> QED BY <1>1, <1>2, <2>1 DEF SourceInOrder
<1> QED BY <1>3, <1>4, <1>5 DEF Next

-----------------------------------------------------------------------------
(* What is read fits, and is kept as its line names it.                    *)

LEMMA FitAll ==
  ASSUME FitQueries, query \in Queries, Accepted(query)
  PROVE  FitBuckets /\ FitActions /\ FitQuery(query)
<1>1. Readable(query) /\ SessionOf(query) \in Sessions
  BY AcceptedReadable
<1>2. FitQuery(query)
  BY DEF FitQueries
<1> QED BY <1>1, <1>2 DEF FitBuckets, FitActions, FitQuery, Readable

\* What is kept of a source is fit to make rows of.
LEMMA KeptFit ==
  ASSUME FitQueries, query \in Queries, Accepted(query), SourceInOrder,
         NEW ticks, ticks = KeptOf(query, source)
  PROVE  ticks \in Seq(Printed) /\ Ordered(ticks) /\ FitTrades(ticks)
<1>1. PICK n \in Nat : n = Len(source) /\ n <= MaxTicks /\ DOMAIN source = 1..n
  BY DEF SourceInOrder
<1>2. /\ source \in Seq(TickType) /\ Ascending(source)
      /\ \A i \in 1..n : source[i].price = Prices[i] /\ source[i].size = Sizes[i]
  BY <1>1 DEF SourceInOrder
<1>3. ASSUME NEW i \in 1..n PROVE source[i] \in Printed
  <2>1. i \in 1..MaxTicks
    BY <1>1, AnalysisAssumption
  <2>2. Prices[i] \in Nat /\ Sizes[i] \in Nat \ {0}
    BY <2>1, AnalysisAssumption
  <2>3. source[i] \in TickType
    BY <1>1, <1>2
  <2>4. source[i].time \in Int
    BY <2>3, TickTime
  <2>5. source[i] = [time |-> source[i].time, price |-> source[i].price, size |-> source[i].size]
    BY <2>3 DEF TickType
  <2>6. [time |-> source[i].time, price |-> Prices[i], size |-> Sizes[i]] \in Trade
    BY <2>2, <2>4 DEF Trade
  <2>7. source[i] \in Trade
    BY <1>2, <2>5, <2>6
  <2> QED BY <2>3, <2>7 DEF Printed
<1>4. source \in Seq(Printed)
  BY <1>1, <1>2, <1>3
<1> DEFINE P == {i \in DOMAIN source : Kept(query, source[i])}
<1>5. ticks = RowsAt(source, P)
  BY DEF KeptOf
<1>6. \A r \in Printed : r.time \in Int
  BY DEF Printed, Trade
<1>7. ticks \in Seq(Printed) /\ Ascending(ticks)
  <2> HIDE DEF P
  <2> QED BY <1>2, <1>4, <1>5, <1>6, RowsAtType, RowsAtAscending
<1>8. \A k \in 1..Len(ticks) : \E i \in 1..n : i \in P /\ ticks[k] = source[i]
  <2> HIDE DEF P
  <2> QED BY <1>1, <1>4, <1>5, RowsAtElements
<1>9. FitActions /\ FitQuery(query)
  BY FitAll
<1>10. ASSUME NEW k \in 1..Len(ticks)
       PROVE  /\ Belongs(SessionOf(query), ticks[k].time)
              /\ FineFor(SharesSince(ticks[k].time), ticks[k].price)
              /\ \A j \in 1..Len(ActionsOf(query)) :
                    ActionsOf(query)[j].time \notin (BucketOf(ticks[k]) + 1)..ticks[k].time
  <2>1. PICK i \in 1..n : i \in P /\ ticks[k] = source[i]
    BY <1>8
  <2>2. Kept(query, source[i])
    BY <2>1
  <2>3. PICK t \in Instants : t = ticks[k].time
    <3>1. source[i] \in TickType
      BY <1>1, <1>2
    <3> QED BY <2>1, <3>1 DEF TickType
  <2>4. t \in Int
    BY AnalysisAssumption
  <2>5. Belongs(SessionOf(query), t)
    BY <2>1, <2>2, <2>3 DEF Kept, Belongs, SessionOf
  <2>6. PICK actions \in Seq(Action) : actions = ActionsOf(query)
    BY <1>9 DEF FitActions
  <2>7. PICK m \in Nat : m = Len(actions) /\ DOMAIN actions = 1..m
    OBVIOUS
  <2>8. \A j \in 1..m : actions[j].time \notin (BucketOf(ticks[k]) + 1)..t
    BY <1>9, <2>3, <2>5, <2>6, <2>7 DEF FitQuery, BucketOf
  <2>9. SharesSince(t) = SharesFrom(actions, Past(actions, t) + 1)
    BY <1>9, <2>4, <2>6, SinceLaw DEF FitActions
  <2>10. Past(actions, t) + 1 \in 1..(m + 1)
    BY <2>4, <2>7, PastIs
  <2>11. i \in 1..MaxTicks /\ ticks[k].price = Prices[i]
    BY <1>1, <1>2, <2>1, AnalysisAssumption, SMTT(30)
  <2>12. FineFor(SharesFrom(actions, Past(actions, t) + 1), Prices[i])
    BY <1>9, <2>6, <2>7, <2>10, <2>11 DEF FitQuery
  <2> QED BY <2>3, <2>5, <2>6, <2>7, <2>8, <2>9, <2>11, <2>12
<1>11. Ordered(ticks)
  BY <1>7, <1>10 DEF Ordered, Ascending
<1>12. FitTrades(ticks)
  BY <1>10 DEF FitTrades
<1> QED BY <1>7, <1>11, <1>12

-----------------------------------------------------------------------------
(* From the words of a line to the trades they name.                       *)

LEMMA SideIs ==
  ASSUME NEW bounds \in Side
  PROVE  /\ \/ bounds = <<>>
            \/ bounds = <<bounds[1]>> /\ bounds[1] \in Bound
         /\ bounds \in Seq(Bound)
<1>1. bounds \in Seq(Bound) /\ Len(bounds) <= 1
  BY DEF Side
<1>2. Len(bounds) = 0 => bounds = <<>>
  BY <1>1
<1>3. Len(bounds) = 1 => bounds = <<bounds[1]>> /\ bounds[1] \in Bound
  <2> SUFFICES ASSUME Len(bounds) = 1 PROVE bounds = <<bounds[1]>> /\ bounds[1] \in Bound
    OBVIOUS
  <2>1. bounds[1] \in Bound
    BY <1>1
  <2>2. <<bounds[1]>> \in Seq(Bound) /\ Len(<<bounds[1]>>) = 1 /\ <<bounds[1]>>[1] = bounds[1]
    BY <2>1
  <2> QED BY <1>1, <2>1, <2>2
<1>4. Len(bounds) \in Nat
  BY <1>1
<1>5. Len(bounds) = 0 \/ Len(bounds) = 1
  BY <1>1, <1>4
<1> QED BY <1>1, <1>2, <1>3, <1>5

LEMMA FlattenOne ==
  ASSUME NEW s, NEW seqs, seqs = <<s>>
  PROVE  FlattenSeq(seqs) = s
<1> DEFINE IsFlat(h) == h = [i \in 1..Len(seqs) |->
                                IF i = 1 THEN seqs[i] ELSE h[i - 1] \o seqs[i]]
           g == CHOOSE h : IsFlat(h)
<1>1. Len(seqs) = 1 /\ seqs[1] = s
  OBVIOUS
<1>2. IsFlat([i \in 1..Len(seqs) |-> s])
  BY <1>1
<1>3. IsFlat(g)
  <2> HIDE DEF IsFlat
  <2> QED BY <1>2
<1>4. FlattenSeq(seqs) = g[1]
  BY <1>1 DEF FlattenSeq
<1> HIDE DEF g
<1>5. g[1] = s
  <2>1. 1 \in 1..Len(seqs)
    BY <1>1
  <2>2. g[1] = IF 1 = 1 THEN seqs[1] ELSE g[1 - 1] \o seqs[1]
    BY <1>3, <2>1
  <2> QED BY <1>1, <2>2
<1> QED BY <1>4, <1>5

\* A line with one range word at most has one bound at most on each side of it.
LEMMA RangeSides ==
  ASSUME NEW line, IsLine(line), Classified(line), NEW side \in {"start", "end"}
  PROVE  RangeSide(line, side) \in Side
<1> DEFINE tokens == line.tokens
           P == {i \in DOMAIN tokens : tokens[i].is = "range"}
           words == RowsAt(tokens, P)
           given == Given(line, "range")
<1>1. PICK S : S = ToSet(tokens) /\ tokens \in Seq(S)
  BY DEF IsLine
<1>2. PICK n \in Nat : n = Len(tokens) /\ DOMAIN tokens = 1..n
  BY <1>1
<1>3. words \in Seq(S)
  <2> HIDE DEF P, tokens
  <2> QED BY <1>1, RowsAtType
<1>4. PICK m \in Nat : m = Len(words) /\ DOMAIN words = 1..m
  <2> HIDE DEF words
  <2> QED BY <1>3
<1>5. \A k \in 1..m : \E i \in 1..n : i \in P /\ words[k] = tokens[i]
  <2> HIDE DEF P, tokens
  <2> QED BY <1>1, <1>2, <1>4, RowsAtElements
<1>6. given = [k \in 1..m |-> words[k].value]
  BY <1>4 DEF Given
<1>7. \A k \in 1..m : given[k][side] \in Side
  <2> SUFFICES ASSUME NEW k \in 1..m PROVE given[k][side] \in Side
    OBVIOUS
  <2>1. PICK i \in 1..n : i \in P /\ words[k] = tokens[i]
    BY <1>5
  <2>2. tokens[i].value \in [start : Side, end : Side]
    BY <1>2, <2>1 DEF IsLine
  <2>3. given[k] = tokens[i].value
    <3> HIDE DEF given, words
    <3> QED BY <1>6, <2>1
  <2> QED BY <2>2, <2>3
<1> HIDE DEF given
<1>8. Len(given) = m /\ DOMAIN given = 1..m
  BY <1>6
<1>9. m <= 1
  BY <1>8 DEF Classified, given
<1>10. RangeSide(line, side) = FlattenSeq([k \in 1..m |-> given[k][side]])
  BY <1>8, Zenon DEF RangeSide, given
<1>11. CASE m = 0
  <2>1. [k \in 1..m |-> given[k][side]] = <<>>
    BY <1>11
  <2>2. FlattenSeq(<<>>) = <<>>
    BY DEF FlattenSeq
  <2>3. <<>> \in Side
    BY DEF Side
  <2> QED BY <1>10, <2>1, <2>2, <2>3
<1>12. CASE m = 1
  <2>1. [k \in 1..m |-> given[k][side]] = <<given[1][side]>>
    BY <1>12
  <2>2. given[1][side] \in Side
    BY <1>7, <1>12
  <2> QED BY <1>10, <2>1, <2>2, FlattenOne
<1> QED BY <1>9, <1>11, <1>12

\* A bound as it is written, and a time as that bound sees it.
Reaching(bound, t) == IF bound.is = "date" THEN t \div Day ELSE t

\* An end date has all of its day, a start date too.
LEMMA TimeBoundLaw ==
  ASSUME NEW bound \in Bound, NEW t \in Int
  PROVE  /\ TimeBound(bound, FALSE) <= t <=> bound.at <= Reaching(bound, t)
         /\ t <= TimeBound(bound, TRUE) <=> Reaching(bound, t) <= bound.at
<1>1. PICK a \in Int : a = bound.at
  BY DEF Bound
<1>2. CASE bound.is = "instant"
  BY <1>1, <1>2 DEF TimeBound, Reaching
<1>3. CASE bound.is = "date"
  <2>1. PICK d \in Nat \ {0} : d = Day
    BY BarsAssumption
  <2>2. PICK q \in Int : q = t \div d
    OBVIOUS
  <2>3. PICK p \in Int : p = d * q
    OBVIOUS
  <2>4. p <= t /\ t < p + d
    BY <2>2, <2>3, Division
  <2>5. PICK b \in Int : b = d * a
    OBVIOUS
  <2>6. d * (a + 1) = b + d
    BY <2>5
  <2>7. /\ a <= q => b <= p
        /\ q <= a => p <= b
        /\ a + 1 <= q => b + d <= p
        /\ q + 1 <= a => p + d <= b
    <3>1. \A x, y \in Int : x <= y => d * x <= d * y
      <4> SUFFICES ASSUME NEW x \in Int, NEW y \in Int, x <= y PROVE d * x <= d * y
        OBVIOUS
      <4>1. PICK c \in Nat : y = x + c
        <5>1. y - x \in Nat /\ y = x + (y - x)
          OBVIOUS
        <5> QED BY <5>1
      <4>2. d * y = d * x + d * c /\ d * c \in Nat /\ d * x \in Int
        BY <4>1
      <4> QED BY <4>2
    <3>2. d * (q + 1) = p + d
      BY <2>3
    <3> QED BY <2>3, <2>5, <2>6, <3>1, <3>2
  <2>8. TimeBound(bound, FALSE) = b /\ TimeBound(bound, TRUE) = b + d - 1
    BY <1>1, <1>3, <2>1, <2>5, <2>6 DEF TimeBound
  <2>9. Reaching(bound, t) = q
    BY <1>3, <2>1, <2>2 DEF Reaching
  <2>10. b <= t <=> a <= q
    BY <2>4, <2>7
  <2>11. t <= b + d - 1 <=> q <= a
    BY <2>4, <2>7
  <2> QED BY <1>1, <2>8, <2>9, <2>10, <2>11
<1> QED BY <1>2, <1>3 DEF Bound

\* An option of a side before the side of a range.
LEMMA SaidFirst ==
  ASSUME NEW option \in Side, NEW range \in Side
  PROVE  LET said == option \o range
             first == IF option # <<>> THEN option ELSE range
         IN  /\ said = <<>> <=> first = <<>>
             /\ first # <<>> => ToSet(first) = {Head(said)} /\ Head(said) \in Bound
             /\ ToSet(<<>>) = {}
<1>1. option \in Seq(Bound) /\ range \in Seq(Bound)
  BY SideIs
<1>2. ToSet(<<>>) = {}
  BY DEF ToSet
<1>3. CASE option = <<>>
  <2>1. option \o range = range
    BY <1>1, <1>3
  <2>2. CASE range = <<>>
    BY <1>2, <1>3, <2>1, <2>2
  <2>3. CASE range # <<>>
    <3>1. PICK b \in Bound : range = <<b>>
      BY <2>3, SideIs
    <3>2. ToSet(<<b>>) = {b} /\ Head(<<b>>) = b /\ <<b>> # <<>>
      BY DEF ToSet
    <3> QED BY <1>2, <1>3, <2>1, <3>1, <3>2
  <2> QED BY <2>2, <2>3
<1>4. CASE option # <<>>
  <2>1. PICK b \in Bound : option = <<b>>
    BY <1>4, SideIs
  <2>2. ToSet(<<b>>) = {b}
    BY DEF ToSet
  <2>3. option \o range # <<>> /\ Head(option \o range) = b
    <3>1. Len(option) = 1 /\ option[1] = b
      <4>1. Len(<<b>>) = 1 /\ <<b>>[1] = b
        OBVIOUS
      <4> QED BY <2>1, <4>1
    <3>2. /\ Len(option \o range) = Len(option) + Len(range) /\ Len(range) \in Nat
          /\ (option \o range)[1] = b
      <4>1. Len(range) \in Nat
        BY <1>1
      <4>2. /\ Len(option \o range) = Len(option) + Len(range)
            /\ \A i \in 1..Len(option) : (option \o range)[i] = option[i]
        BY <1>1, ConcatProperties
      <4> QED BY <3>1, <4>1, <4>2
    <3>3. option \o range # <<>>
      BY <3>1, <3>2
    <3> QED BY <1>1, <3>2, <3>3
  <2> QED BY <1>2, <1>4, <2>1, <2>2, <2>3
<1> QED BY <1>3, <1>4

\* The words of the line and the fields made of them name the same trades.
LEMMA KeptIsNamed ==
  ASSUME FitQuery(query), Accepted(query), NEW tick, tick.time \in Int
  PROVE  Kept(query, tick) <=> Named(tick)
<1>1. PICK line : line = query.line
  OBVIOUS
<1>2. IsLine(line) /\ Classified(line)
  <2>1. query.accepted = Asked(line).accepted
    BY <1>1 DEF FitQuery
  <2> QED BY <1>1, <2>1 DEF FitQuery, Accepted, Asked
<1>3. PICK t \in Int : t = tick.time
  OBVIOUS
<1>4. PICK os, oe \in Side : os = line.options.start /\ oe = line.options.end
  BY <1>2 DEF IsLine
<1>5. PICK rs, re \in Side : rs = RangeSide(line, "start") /\ re = RangeSide(line, "end")
  BY <1>2, RangeSides
<1> DEFINE starts == IF os # <<>> THEN os ELSE rs
           ends == IF oe # <<>> THEN oe ELSE re
<1>6. /\ query.rth = Asked(line).rth
      /\ query.from = ParseBounds(line).from
      /\ query.to = ParseBounds(line).to
  <2>1. query.rth = Asked(line).rth /\ query.from = Asked(line).from /\ query.to = Asked(line).to
    BY <1>1 DEF FitQuery
  <2> QED BY <2>1 DEF Asked
<1>7. /\ query.from = IF os \o rs = <<>> THEN <<>> ELSE <<TimeBound(Head(os \o rs), FALSE)>>
      /\ query.to = IF oe \o re = <<>> THEN <<>> ELSE <<TimeBound(Head(oe \o re), TRUE)>>
  BY <1>4, <1>5, <1>6 DEF ParseBounds
<1>8. ToSet(<<>>) = {} /\ \A x : ToSet(<<x>>) = {x}
  BY DEF ToSet
<1>9. (\A from \in ToSet(query.from) : from <= t)
         <=> \A b \in ToSet(starts) : b.at <= Reaching(b, t)
  <2>1. CASE starts = <<>>
    <3>1. query.from = <<>>
      BY <1>7, <2>1, SaidFirst
    <3> QED BY <1>8, <2>1, <3>1
  <2>2. CASE starts # <<>>
    <3>1. PICK b \in Bound : os \o rs # <<>> /\ b = Head(os \o rs) /\ ToSet(starts) = {b}
      BY <2>2, SaidFirst
    <3>2. ToSet(query.from) = {TimeBound(b, FALSE)}
      BY <1>7, <1>8, <3>1
    <3>3. TimeBound(b, FALSE) <= t <=> b.at <= Reaching(b, t)
      BY TimeBoundLaw
    <3> QED BY <3>1, <3>2, <3>3
  <2> QED BY <2>1, <2>2
<1>10. (\A to \in ToSet(query.to) : t <= to)
          <=> \A b \in ToSet(ends) : Reaching(b, t) <= b.at
  <2>1. CASE ends = <<>>
    <3>1. query.to = <<>>
      BY <1>7, <2>1, SaidFirst
    <3> QED BY <1>8, <2>1, <3>1
  <2>2. CASE ends # <<>>
    <3>1. PICK b \in Bound : oe \o re # <<>> /\ b = Head(oe \o re) /\ ToSet(ends) = {b}
      BY <2>2, SaidFirst
    <3>2. ToSet(query.to) = {TimeBound(b, TRUE)}
      BY <1>7, <1>8, <3>1
    <3>3. t <= TimeBound(b, TRUE) <=> Reaching(b, t) <= b.at
      BY TimeBoundLaw
    <3> QED BY <3>1, <3>2, <3>3
  <2> QED BY <2>1, <2>2
<1> HIDE DEF starts, ends
<1>11. (query.rth => InHours("rth", t))
          <=> (line.options.rth \/ Says(line, "rth") => InHours("rth", t))
  BY <1>6 DEF Asked
<1>12. Named(tick) <=> /\ \A b \in ToSet(starts) : b.at <= Reaching(b, t)
                       /\ \A b \in ToSet(ends) : Reaching(b, t) <= b.at
                       /\ line.options.rth \/ Says(line, "rth") => InHours("rth", t)
  BY <1>1, <1>3, <1>4, <1>5 DEF Named, Reaching, starts, ends
<1> QED BY <1>3, <1>9, <1>10, <1>11, <1>12 DEF Kept, InWindow

-----------------------------------------------------------------------------
\* The rows of a request are the bars of the market as it would have been
\* without its splits, of the trades that its line names (parse_time_bound, and
\* the chain of feed.rs, resample.rs and adjust.rs): one bar for each bucket with
\* a trade and, with fill, one flat bar for each bucket between two of them,
\* whatever the queries, hours, prices, sizes, actions and length of the source.
THEOREM RowsOfTheMarket ==
  ASSUME FitQueries
  PROVE  Spec => []RowsAreTheMarket
<1>1. IInv /\ SourceInOrder => RowsAreTheMarket
  <2> SUFFICES ASSUME IInv, SourceInOrder, phase = "done"
               PROVE  AreBarsOfNamed(RowsAt(source, {i \in DOMAIN source : Named(source[i])}))
    BY DEF RowsAreTheMarket
  <2>1. query \in Queries /\ Accepted(query)
    BY DEF IInv
  <2>2. FitBuckets /\ FitActions /\ FitQuery(query)
    BY <2>1, FitAll
  <2>3. PICK ticks : ticks = KeptOf(query, source)
    OBVIOUS
  <2>4. ticks \in Seq(Printed) /\ Ordered(ticks) /\ FitTrades(ticks)
    BY <2>1, <2>3, KeptFit
  <2>5. AreBarsOfAll(InToday(ticks))
    BY <2>2, <2>3, <2>4, RowsOfKept
  <2>6. {i \in DOMAIN source : Named(source[i])} = {i \in DOMAIN source : Kept(query, source[i])}
    <3>1. \A i \in DOMAIN source : source[i] \in TickType
      BY DEF SourceInOrder
    <3>2. \A i \in DOMAIN source : source[i].time \in Int
      BY <3>1, TickTime
    <3>3. \A i \in DOMAIN source : Named(source[i]) <=> Kept(query, source[i])
      BY <2>1, <2>2, <3>2, KeptIsNamed
    <3> QED BY <3>3
  <2>7. ticks = RowsAt(source, {i \in DOMAIN source : Named(source[i])})
    BY <2>3, <2>6, Zenon DEF KeptOf
  <2>8. AreBarsOfNamed(ticks)
    BY <2>5 DEF AreBarsOfNamed, InToday
  <2> QED BY <2>7, <2>8
<1>2. Spec => []SourceInOrder
  BY OrderStart, OrderStep, PTL DEF Spec
<1> QED BY <1>1, <1>2, ChainInvariant, PTL

-----------------------------------------------------------------------------
(* The summary row: what an accumulator has been told of.                  *)

LEMMA RowsAtNone ==
  ASSUME NEW S, NEW list \in Seq(S), NEW P, \A i \in 1..Len(list) : i \notin P
  PROVE  RowsAt(list, P) = <<>>
<1>1. RowsAt(list, P) \in Seq(S)
  BY RowsAtType
<1>2. \A k \in 1..Len(RowsAt(list, P)) : FALSE
  BY RowsAtElements
<1>3. Len(RowsAt(list, P)) \in Nat /\ 1 \notin 1..Len(RowsAt(list, P))
  BY <1>1, <1>2
<1>4. Len(RowsAt(list, P)) = 0
  BY <1>3
<1> QED BY <1>1, <1>4

\* Rows at places behind others follow the rows at those.
LEMMA RowsAtBehind ==
  ASSUME NEW S, NEW list \in Seq(S), NEW P, NEW Q, NEW R,
         \A i, j \in 1..Len(list) : i \in P /\ j \in Q => i < j,
         \A i \in 1..Len(list) : i \in R <=> i \in P \/ i \in Q
  PROVE  RowsAt(list, R) = RowsAt(list, P) \o RowsAt(list, Q)
<1> DEFINE Apart(s) == /\ \A i, j \in 1..Len(s) : i \in P /\ j \in Q => i < j
                       /\ \A i \in 1..Len(s) : i \in R <=> i \in P \/ i \in Q
           T == {s \in Seq(S) : Apart(s) => RowsAt(s, R) = RowsAt(s, P) \o RowsAt(s, Q)}
<1>1. <<>> \in T
  <2>1. <<>> \in Seq(S) /\ <<>> \o <<>> = <<>>
    OBVIOUS
  <2> QED BY <2>1, RowsAtEmpty
<1>2. ASSUME NEW s \in Seq(S), NEW e \in S, s \in T
      PROVE  Append(s, e) \in T
  <2>1. PICK n \in Nat : n = Len(s)
    OBVIOUS
  <2>2. PICK more : more = Append(s, e)
    OBVIOUS
  <2>3. more \in Seq(S) /\ Len(more) = n + 1
    BY <2>1, <2>2, AppendProperties
  <2>4. ASSUME Apart(more) PROVE RowsAt(more, R) = RowsAt(more, P) \o RowsAt(more, Q)
    <3>1. \A i \in 1..n : i \in 1..(n + 1)
      OBVIOUS
    <3>2. Apart(s)
      BY <2>1, <2>3, <2>4, <3>1
    <3>3. PICK p \in Seq(S) : p = RowsAt(s, P)
      BY RowsAtType
    <3>4. PICK q \in Seq(S) : q = RowsAt(s, Q)
      BY RowsAtType
    <3>5. RowsAt(s, R) = p \o q
      BY <1>2, <3>2, <3>3, <3>4
    <3>6. /\ RowsAt(more, R) = IF n + 1 \in R THEN Append(p \o q, e) ELSE p \o q
          /\ RowsAt(more, P) = IF n + 1 \in P THEN Append(p, e) ELSE p
          /\ RowsAt(more, Q) = IF n + 1 \in Q THEN Append(q, e) ELSE q
      <4>1. RowsAt(more, R) = IF n + 1 \in R THEN Append(RowsAt(s, R), e) ELSE RowsAt(s, R)
        BY <2>1, <2>2, RowsAtAppend
      <4>2. RowsAt(more, P) = IF n + 1 \in P THEN Append(RowsAt(s, P), e) ELSE RowsAt(s, P)
        BY <2>1, <2>2, RowsAtAppend
      <4>3. RowsAt(more, Q) = IF n + 1 \in Q THEN Append(RowsAt(s, Q), e) ELSE RowsAt(s, Q)
        BY <2>1, <2>2, RowsAtAppend
      <4> QED BY <3>3, <3>4, <3>5, <4>1, <4>2, <4>3, Zenon
    <3>7. n + 1 \in 1..(n + 1)
      OBVIOUS
    <3>8. n + 1 \in R <=> n + 1 \in P \/ n + 1 \in Q
      BY <2>3, <2>4, <3>7
    <3>9. CASE n + 1 \in P
      <4>1. \A j \in 1..n : j \notin Q
        <5>1. TAKE j \in 1..n
        <5>2. j \in Q => n + 1 < j
          BY <2>3, <2>4, <3>1, <3>7, <3>9
        <5> QED BY <5>2
      <4>2. n + 1 \notin Q
        BY <2>3, <2>4, <3>7, <3>9
      <4>3. q = <<>>
        BY <2>1, <3>4, <4>1, RowsAtNone
      <4>4. p \o <<>> = p /\ Append(p, e) \o <<>> = Append(p, e)
        BY <3>3, AppendProperties, ConcatEmptySeq
      <4> QED BY <3>6, <3>8, <3>9, <4>2, <4>3, <4>4
    <3>10. CASE n + 1 \notin P /\ n + 1 \in Q
      <4>1. p \o Append(q, e) = Append(p \o q, e)
        BY ConcatAppend
      <4> QED BY <3>6, <3>8, <3>10, <4>1
    <3>11. CASE n + 1 \notin P /\ n + 1 \notin Q
      BY <3>6, <3>8, <3>11
    <3> QED BY <3>9, <3>10, <3>11
  <2> QED BY <2>2, <2>3, <2>4
<1>3. Seq(S) \subseteq T
  <2> HIDE DEF T
  <2> QED BY <1>1, <1>2, SeqInduction
<1> QED BY <1>3

\* Sums and prices of trades and more trades.
LEMMA SharesConcat ==
  ASSUME NEW a \in Seq(Share), NEW b \in Seq(Share)
  PROVE  /\ a \o b \in Seq(Share) /\ Len(a \o b) = Len(a) + Len(b)
         /\ Added(SizesIn(a \o b)) = Added(SizesIn(a)) + Added(SizesIn(b))
         /\ Added(AmountsIn(a \o b)) = Added(AmountsIn(a)) + Added(AmountsIn(b))
         /\ PricesIn(a \o b) = PricesIn(a) \cup PricesIn(b)
         /\ Added(SizesIn(b)) \in Nat /\ Added(AmountsIn(b)) \in Nat
<1> DEFINE Good(s) ==
              /\ Added(SizesIn(a \o s)) = Added(SizesIn(a)) + Added(SizesIn(s))
              /\ Added(AmountsIn(a \o s)) = Added(AmountsIn(a)) + Added(AmountsIn(s))
              /\ PricesIn(a \o s) = PricesIn(a) \cup PricesIn(s)
           T == {s \in Seq(Share) : Good(s)}
<1>1. \A s \in Seq(Share) :
         /\ SizesIn(s) \in Seq(Nat) /\ AmountsIn(s) \in Seq(Nat)
         /\ Added(SizesIn(s)) \in Nat /\ Added(AmountsIn(s)) \in Nat
  <2>1. TAKE s \in Seq(Share)
  <2>2. SizesIn(s) \in Seq(Nat) /\ AmountsIn(s) \in Seq(Nat)
    <3>1. [time |-> 0, price |-> 0, size |-> 0] \in Share
      BY DEF Share
    <3> QED BY <3>1, SharesAppend
  <2> QED BY <2>2, AddedLaw
<1>2. <<>> \in T
  <2>1. SizesIn(<<>>) = <<>> /\ AmountsIn(<<>>) = <<>> /\ PricesIn(<<>>) = {}
    BY DEF SizesIn, AmountsIn, PricesIn
  <2>2. a \o <<>> = a /\ <<>> \in Seq(Share)
    BY ConcatEmptySeq
  <2>3. Added(SizesIn(a)) \in Nat /\ Added(AmountsIn(a)) \in Nat
    BY <1>1
  <2> QED BY <2>1, <2>2, <2>3, AddedLaw
<1>3. ASSUME NEW s \in Seq(Share), NEW e \in Share, s \in T
      PROVE  Append(s, e) \in T
  <2>1. a \o Append(s, e) = Append(a \o s, e)
    OBVIOUS
  <2>2. a \o s \in Seq(Share) /\ Append(s, e) \in Seq(Share)
    BY AppendProperties
  <2>3. PICK c : c = a \o s
    OBVIOUS
  <2>4. /\ SizesIn(Append(s, e)) = Append(SizesIn(s), e.size)
        /\ AmountsIn(Append(s, e)) = Append(AmountsIn(s), e.price * e.size)
        /\ PricesIn(Append(s, e)) = PricesIn(s) \cup {e.price}
        /\ e.size \in Nat /\ e.price * e.size \in Nat
    BY SharesAppend
  <2>5. /\ SizesIn(Append(c, e)) = Append(SizesIn(c), e.size)
        /\ AmountsIn(Append(c, e)) = Append(AmountsIn(c), e.price * e.size)
        /\ PricesIn(Append(c, e)) = PricesIn(c) \cup {e.price}
    BY <2>2, <2>3, SharesAppend
  <2>6. PICK x \in Nat : x = e.size
    BY <2>4
  <2>7. PICK y \in Nat : y = e.price * e.size
    BY <2>4
  <2>8. /\ Added(Append(SizesIn(s), x)) = Added(SizesIn(s)) + x
        /\ Added(Append(AmountsIn(s), y)) = Added(AmountsIn(s)) + y
        /\ Added(Append(SizesIn(c), x)) = Added(SizesIn(c)) + x
        /\ Added(Append(AmountsIn(c), y)) = Added(AmountsIn(c)) + y
    BY <1>1, <2>2, <2>3, AddedLaw
  <2>9. /\ Added(SizesIn(a)) \in Nat /\ Added(AmountsIn(a)) \in Nat
        /\ Added(SizesIn(s)) \in Nat /\ Added(AmountsIn(s)) \in Nat
    BY <1>1
  <2>10. /\ Added(SizesIn(c)) = Added(SizesIn(a)) + Added(SizesIn(s))
         /\ Added(AmountsIn(c)) = Added(AmountsIn(a)) + Added(AmountsIn(s))
         /\ PricesIn(c) = PricesIn(a) \cup PricesIn(s)
    BY <1>3, <2>3
  <2>11. /\ Added(SizesIn(Append(c, e))) = Added(SizesIn(a)) + Added(SizesIn(Append(s, e)))
         /\ Added(AmountsIn(Append(c, e))) = Added(AmountsIn(a)) + Added(AmountsIn(Append(s, e)))
    <3>1. PICK k, l \in Nat : k = Added(SizesIn(a)) /\ l = Added(SizesIn(s))
      BY <2>9
    <3>2. PICK u, v \in Nat : u = Added(AmountsIn(a)) /\ v = Added(AmountsIn(s))
      BY <2>9
    <3>3. Added(SizesIn(Append(c, e))) = (k + l) + x /\ Added(SizesIn(Append(s, e))) = l + x
      BY <2>4, <2>5, <2>6, <2>8, <2>10, <3>1
    <3>4. Added(AmountsIn(Append(c, e))) = (u + v) + y /\ Added(AmountsIn(Append(s, e))) = v + y
      BY <2>4, <2>5, <2>7, <2>8, <2>10, <3>2
    <3>5. (k + l) + x = k + (l + x) /\ (u + v) + y = u + (v + y)
      OBVIOUS
    <3> QED BY <3>1, <3>2, <3>3, <3>4, <3>5, Zenon
  <2>12. PricesIn(Append(c, e)) = PricesIn(a) \cup PricesIn(Append(s, e))
    BY <2>4, <2>5, <2>10, Zenon
  <2> QED BY <2>1, <2>2, <2>3, <2>11, <2>12
<1>4. Seq(Share) \subseteq T
  <2> HIDE DEF T
  <2> QED BY <1>2, <1>3, SeqInduction
<1>5. a \o b \in Seq(Share) /\ Len(a \o b) = Len(a) + Len(b)
  OBVIOUS
<1> QED BY <1>1, <1>4, <1>5

\* An accumulator of stat holds what these trades come to.
Told(acc, shares) ==
    /\ acc.trades = Len(shares)
    /\ acc.volume = Added(SizesIn(shares))
    /\ acc.weighted = Whole(Added(AmountsIn(shares)))
    /\ acc.min = IF shares = <<>> THEN <<>> ELSE <<Min(PricesIn(shares))>>
    /\ acc.max = IF shares = <<>> THEN <<>> ELSE <<Max(PricesIn(shares))>>

\* A part of a bar, or of a tick, brings these trades.
Brings(part, shares) ==
    /\ part.trades = Len(shares)
    /\ part.volume = Added(SizesIn(shares))
    /\ part.mass = Whole(Added(AmountsIn(shares)))
    /\ part.low = Min(PricesIn(shares)) /\ part.high = Max(PricesIn(shares))

LEMMA ToldNothing == Told(NoStat, <<>>)
<1>1. SizesIn(<<>>) = <<>> /\ AmountsIn(<<>>) = <<>>
  BY DEF SizesIn, AmountsIn
<1>2. Len(<<>>) = 0
  OBVIOUS
<1> QED BY <1>1, <1>2, AddedLaw DEF Told, NoStat

LEMMA ToldMore ==
  ASSUME NEW a \in Seq(Share), NEW b \in Seq(Share), b # <<>>,
         NEW acc, Told(acc, a), NEW part, Brings(part, b), NEW time
  PROVE  Told(Observe(acc, time, part), a \o b)
<1>1. PICK c : c = a \o b
  OBVIOUS
<1>2. PICK more : more = Observe(acc, time, part)
  OBVIOUS
<1>3. /\ c \in Seq(Share) /\ Len(c) = Len(a) + Len(b)
      /\ Added(SizesIn(c)) = Added(SizesIn(a)) + Added(SizesIn(b))
      /\ Added(AmountsIn(c)) = Added(AmountsIn(a)) + Added(AmountsIn(b))
      /\ PricesIn(c) = PricesIn(a) \cup PricesIn(b)
      /\ Added(AmountsIn(b)) \in Nat
  BY <1>1, SharesConcat
<1>4. Added(AmountsIn(a)) \in Nat
  BY SharesConcat
<1>5. c # <<>>
  <2>1. Len(a) \in Nat /\ Len(b) \in Nat \ {0}
    OBVIOUS
  <2> QED BY <1>3, <2>1
<1>6. /\ more.trades = acc.trades + part.trades /\ more.volume = acc.volume + part.volume
      /\ more.weighted = Plus(acc.weighted, part.mass)
      /\ more.min = IF acc.min = <<>> THEN <<part.low>> ELSE <<Min({acc.min[1], part.low})>>
      /\ more.max = IF acc.max = <<>> THEN <<part.high>> ELSE <<Max({acc.max[1], part.high})>>
  BY <1>2 DEF Observe
<1>7. more.trades = Len(c) /\ more.volume = Added(SizesIn(c))
  BY <1>3, <1>6 DEF Told, Brings
<1>8. more.weighted = Whole(Added(AmountsIn(c)))
  <2>1. PICK x, y \in Nat : x = Added(AmountsIn(a)) /\ y = Added(AmountsIn(b))
    BY <1>3, <1>4
  <2>2. more.weighted = Plus(Whole(x), Whole(y))
    BY <1>6, <2>1 DEF Told, Brings
  <2>3. Plus(Whole(x), Whole(y)) = Whole(x + y)
    BY WholePlus
  <2> QED BY <1>3, <2>1, <2>2, <2>3
<1>9. PICK q : q = PricesIn(b)
  OBVIOUS
<1>10. q \subseteq Nat /\ Max(q) \in q /\ Min(q) \in q /\ \A p \in q : Min(q) <= p /\ p <= Max(q)
  BY <1>9, ShareBounds
<1>11. part.low = Min(q) /\ part.high = Max(q)
  BY <1>9 DEF Brings
<1>12. CASE a = <<>>
  <2>1. acc.min = <<>> /\ acc.max = <<>>
    BY <1>12 DEF Told
  <2>2. PricesIn(a) = {}
    BY <1>12 DEF PricesIn
  <2>3. PricesIn(c) = q
    BY <1>3, <1>9, <2>2
  <2> QED BY <1>2, <1>1, <1>5, <1>6, <1>7, <1>8, <1>11, <2>1, <2>3 DEF Told
<1>13. CASE a # <<>>
  <2>1. PICK p : p = PricesIn(a)
    OBVIOUS
  <2>2. p \subseteq Nat /\ Max(p) \in p /\ Min(p) \in p /\ \A x \in p : Min(p) <= x /\ x <= Max(p)
    BY <1>13, <2>1, ShareBounds
  <2>3. acc.min = <<Min(p)>> /\ acc.max = <<Max(p)>>
    BY <1>13, <2>1 DEF Told
  <2>4. acc.min # <<>> /\ acc.max # <<>> /\ acc.min[1] = Min(p) /\ acc.max[1] = Max(p)
    BY <2>3
  <2>5. more.min = <<Min({Min(p), Min(q)})>> /\ more.max = <<Max({Max(p), Max(q)})>>
    BY <1>6, <1>11, <2>4
  <2>6. PICK all : all = p \cup q
    OBVIOUS
  <2>7. all \subseteq Int
    BY <1>10, <2>2, <2>6
  <2>8. Min(all) = Min({Min(p), Min(q)})
    <3>1. PICK k, l \in Int : k = Min(p) /\ l = Min(q)
      <4>1. Min(p) \in Int /\ Min(q) \in Int
        <5>1. \A S : \A x \in S : S \subseteq Nat => x \in Int
          OBVIOUS
        <5> QED BY <5>1, <1>10, <2>2
      <4> QED BY <4>1, Zenon
    <3>2. Min({k, l}) = IF k <= l THEN k ELSE l
      BY MinPair
    <3>3. PICK m : m = IF k <= l THEN k ELSE l
      OBVIOUS
    <3>4. m \in all /\ \A x \in all : m <= x
      BY <1>10, <2>2, <2>6, <3>1, <3>3
    <3>5. Min(all) = m
      BY <2>7, <3>4, MinAt
    <3> QED BY <3>1, <3>2, <3>3, <3>5
  <2>9. Max(all) = Max({Max(p), Max(q)})
    <3>1. PICK k, l \in Int : k = Max(p) /\ l = Max(q)
      <4>1. Max(p) \in Int /\ Max(q) \in Int
        <5>1. \A S : \A x \in S : S \subseteq Nat => x \in Int
          OBVIOUS
        <5> QED BY <5>1, <1>10, <2>2
      <4> QED BY <4>1, Zenon
    <3>2. Max({k, l}) = IF k >= l THEN k ELSE l
      BY MaxPair
    <3>3. PICK m : m = IF k >= l THEN k ELSE l
      OBVIOUS
    <3>4. m \in all /\ \A x \in all : x <= m
      BY <1>10, <2>2, <2>6, <3>1, <3>3
    <3>5. Max(all) = m
      BY <2>7, <3>4, MaxAt
    <3> QED BY <3>1, <3>2, <3>3, <3>5
  <2>10. PricesIn(c) = all
    BY <1>3, <1>9, <2>1, <2>6
  <2> QED BY <1>1, <1>2, <1>5, <1>7, <1>8, <2>5, <2>8, <2>9, <2>10 DEF Told
<1> QED BY <1>12, <1>13

\* One trade.
LEMMA BringsOne ==
  ASSUME NEW share \in Share
  PROVE  Brings(TickPart(share), <<share>>) /\ <<share>> \in Seq(Share) /\ <<share>> # <<>>
<1>1. PICK one : one = <<share>>
  OBVIOUS
<1>2. one = Append(<<>>, share) /\ one \in Seq(Share) /\ one # <<>> /\ Len(one) = 1
  BY <1>1
<1>3. SizesIn(<<>>) = <<>> /\ AmountsIn(<<>>) = <<>> /\ PricesIn(<<>>) = {}
  BY DEF SizesIn, AmountsIn, PricesIn
<1>4. /\ SizesIn(one) = Append(<<>>, share.size)
      /\ AmountsIn(one) = Append(<<>>, share.price * share.size)
      /\ PricesIn(one) = {share.price}
      /\ share.size \in Nat /\ share.price \in Nat /\ share.price * share.size \in Nat
  <2>1. <<>> \in Seq(Share)
    OBVIOUS
  <2> QED BY <1>2, <1>3, <2>1, SharesAppend
<1>5. Added(SizesIn(one)) = share.size /\ Added(AmountsIn(one)) = share.price * share.size
  <2>1. \A n \in Nat : Added(Append(<<>>, n)) = n
    <3>1. <<>> \in Seq(Nat) /\ Added(<<>>) = 0
      BY AddedLaw
    <3>2. \A n \in Nat : Added(Append(<<>>, n)) = 0 + n
      BY <3>1, AddedLaw
    <3>3. TAKE n \in Nat
    <3>4. 0 + n = n
      OBVIOUS
    <3> QED BY <3>2, <3>4
  <2> QED BY <1>4, <2>1
<1>6. Min({share.price}) = share.price /\ Max({share.price}) = share.price
  <2>1. PICK p \in Nat : p = share.price
    BY <1>4
  <2>2. p \in {p} /\ {p} \subseteq Int /\ \A x \in {p} : p <= x /\ x <= p
    OBVIOUS
  <2>3. Min({p}) = p /\ Max({p}) = p
    BY <2>2, MinAt, MaxAt
  <2> QED BY <2>1, <2>3
<1> QED BY <1>1, <1>2, <1>4, <1>5, <1>6 DEF Brings, TickPart

\* Trades as the adjuster makes them.
ScaledTicks(actions, ticks) ==
    [i \in DOMAIN ticks |-> ScaledTick(ticks[i], FactorsAt(actions, ticks[i].time))]

LEMMA ScaledTickIs ==
  ASSUME NEW tick \in Share, NEW f \in Positive, NEW scaled,
         scaled = ScaledTick(tick, [price |-> Flip(f), volume |-> f])
  PROVE  /\ scaled \in Share /\ scaled.time = tick.time
         /\ scaled.price = ScalePrice(tick.price, Flip(f))
         /\ scaled.size = ScaleShares(tick.size, f)
<1>1. PICK t \in Int, p \in Nat, s \in Nat : tick = [time |-> t, price |-> p, size |-> s]
  BY DEF Share
<1>2. PICK n, d \in Nat \ {0} : n = f.n /\ d = f.d
  BY DEF Positive
<1>3. scaled = [time |-> t, price |-> ScalePrice(p, Flip(f)), size |-> ScaleShares(s, f)]
  BY <1>1 DEF ScaledTick
<1>4. \A x \in Nat, y \in Nat \ {0} : x * y \in Nat
  <2>1. TAKE x \in Nat, y \in Nat \ {0}
  <2>2. CASE x = 0
    BY <2>2
  <2>3. CASE x # 0
    BY <2>3, Products
  <2> QED BY <2>2, <2>3
<1>5. ScalePrice(p, Flip(f)) \in Nat
  <2>1. ScalePrice(p, Flip(f)) = (p * d) \div n
    BY <1>2 DEF ScalePrice, Flip
  <2>2. PICK x \in Nat : x = p * d
    BY <1>4
  <2>3. x \div n \in Nat
    OBVIOUS
  <2> QED BY <2>1, <2>2, <2>3
<1>6. ScaleShares(s, f) \in Nat
  <2>1. ScaleShares(s, f) = (2 * s * n + d) \div (2 * d)
    BY <1>2 DEF ScaleShares
  <2>2. PICK x \in Nat : x = 2 * s * n + d
    <3>1. 2 * s \in Nat
      OBVIOUS
    <3>2. (2 * s) * n \in Nat
      BY <3>1, <1>4
    <3> QED BY <3>2
  <2>3. 2 * d \in Nat \ {0}
    OBVIOUS
  <2>4. \A y \in Nat \ {0} : x \div y \in Nat
    OBVIOUS
  <2> QED BY <2>1, <2>2, <2>3, <2>4
<1> QED BY <1>1, <1>3, <1>5, <1>6 DEF Share

LEMMA FactorsAre ==
  ASSUME NEW actions \in Seq(Action), NEW t \in Int
  PROVE  \E f \in Positive : /\ f = SharesFrom(actions, Past(actions, t) + 1)
                             /\ FactorsAt(actions, t) = [price |-> Flip(f), volume |-> f]
<1>1. PICK n \in Nat : n = Len(actions)
  OBVIOUS
<1>2. Past(actions, t) \in 0..n
  BY <1>1, PastIs
<1>3. Past(actions, t) + 1 \in 1..(Len(actions) + 1)
  BY <1>1, <1>2
<1>4. SharesFrom(actions, Past(actions, t) + 1) \in Positive
  BY <1>3, SharesPositive
<1> QED BY <1>4 DEF FactorsAt

LEMMA ScaledAppend ==
  ASSUME NEW actions \in Seq(Action), NEW ticks \in Seq(Share), NEW tick \in Share
  PROVE  /\ ScaledTicks(actions, <<>>) = <<>>
         /\ ScaledTick(tick, FactorsAt(actions, tick.time)) \in Share
         /\ ScaledTicks(actions, ticks) \in Seq(Share)
         /\ Len(ScaledTicks(actions, ticks)) = Len(ticks)
         /\ ScaledTicks(actions, Append(ticks, tick))
               = Append(ScaledTicks(actions, ticks),
                        ScaledTick(tick, FactorsAt(actions, tick.time)))
<1>1. \A x \in Share : ScaledTick(x, FactorsAt(actions, x.time)) \in Share
  <2>1. TAKE x \in Share
  <2>2. x.time \in Int
    BY DEF Share
  <2>3. PICK f \in Positive : FactorsAt(actions, x.time) = [price |-> Flip(f), volume |-> f]
    BY <2>2, FactorsAre
  <2> QED BY <2>3, ScaledTickIs
<1>2. ScaledTicks(actions, <<>>) = <<>>
  BY DEF ScaledTicks
<1>3. PICK n \in Nat : n = Len(ticks) /\ DOMAIN ticks = 1..n
  OBVIOUS
<1>4. PICK s : s = ScaledTicks(actions, ticks)
  OBVIOUS
<1>5. /\ DOMAIN s = 1..n
      /\ \A i \in 1..n : s[i] = ScaledTick(ticks[i], FactorsAt(actions, ticks[i].time))
  BY <1>3, <1>4 DEF ScaledTicks
<1>6. \A i \in 1..n : ticks[i] \in Share
  BY <1>3
<1>7. s = [i \in 1..n |-> s[i]]
  BY <1>3, <1>4 DEF ScaledTicks
<1>8. s \in Seq(Share) /\ Len(s) = n
  <2>1. \A i \in 1..n : s[i] \in Share
    BY <1>1, <1>5, <1>6
  <2> QED BY <1>7, <2>1, SMTT(30)
<1>9. PICK more : more = Append(ticks, tick)
  OBVIOUS
<1>10. DOMAIN more = 1..(n + 1) /\ more[n + 1] = tick /\ \A i \in 1..n : more[i] = ticks[i]
  BY <1>3, <1>9
<1>11. PICK e \in Share : e = ScaledTick(tick, FactorsAt(actions, tick.time))
  BY <1>1
<1>12. PICK r : r = ScaledTicks(actions, more)
  OBVIOUS
<1>13. r = [i \in 1..(n + 1) |-> ScaledTick(more[i], FactorsAt(actions, more[i].time))]
  BY <1>10, <1>12 DEF ScaledTicks
<1>14. r = Append(s, e)
  <2>1. IsColumn(s, n) /\ IsColumn(r, n + 1)
    BY <1>3, <1>4, <1>10, <1>12 DEF ScaledTicks, IsColumn
  <2>2. n + 1 \in 1..(n + 1) /\ \A i \in 1..n : i \in 1..(n + 1)
    OBVIOUS
  <2>3. r[n + 1] = e
    BY <1>10, <1>11, <1>13, <2>2
  <2>4. \A i \in 1..n : r[i] = s[i]
    BY <1>5, <1>10, <1>13, <2>2
  <2> QED BY <2>1, <2>3, <2>4, GrownByOne
<1> QED BY <1>1, <1>2, <1>3, <1>4, <1>8, <1>9, <1>11, <1>12, <1>14

-----------------------------------------------------------------------------
(* The accumulator over the ticks, as they are read.                       *)

StatTold(q, st, ticks) ==
    /\ st.adj = Adjusting(ActionsOf(q), CursorAfter(ActionsOf(q), ticks))
    /\ Told(st.acc, ScaledTicks(ActionsOf(q), ticks))

StatInv ==
    phase # "refused" /\ query.source = "ticks" => StatTold(query, stat, KeptOf(query, source))

LEMMA TicksAreShares == TickType \subseteq Share
<1>1. Instants \subseteq Int
  BY AnalysisAssumption
<1> QED BY <1>1 DEF TickType, Share

LEMMA StatNext ==
  ASSUME NEW q, ActionsOf(q) \in Seq(Action), Sorted(ActionsOf(q)),
         NEW ticks \in Seq(TickType), NEW tick \in TickType, Ascending(Append(ticks, tick)),
         NEW st, StatTold(q, st, ticks)
  PROVE  StatTold(q, StatTick(st, tick), Append(ticks, tick))
<1>1. PICK actions \in Seq(Action) : actions = ActionsOf(q) /\ Sorted(actions)
  OBVIOUS
<1>2. PICK t \in Int : t = tick.time
  BY TickTime
<1>3. PICK n \in Nat : n = Len(ticks) /\ DOMAIN ticks = 1..n
  OBVIOUS
<1>4. ticks \in Seq(Share) /\ tick \in Share
  BY TicksAreShares
<1>5. \A i \in 1..n : ticks[i].time \in Int /\ ticks[i].time <= t
  <2>1. \A r \in TickType : r.time \in Int
    BY TickTime
  <2>2. \A i \in 1..n : ticks[i].time <= tick.time
    BY <1>3, <2>1, AscendingNext
  <2> QED BY <1>2, <1>3, <2>1, <2>2
<1>6. PICK more : more = Append(ticks, tick)
  OBVIOUS
<1>7. Len(more) = n + 1 /\ more[n + 1] = tick /\ more # <<>>
  BY <1>3, <1>6
<1>8. CursorAfter(actions, more) = Past(actions, t) + 1
  BY <1>2, <1>7 DEF CursorAfter
<1>9. CursorAfter(actions, ticks) \in 1..(Past(actions, t) + 1)
  <2>1. PICK N \in Nat : N = Len(actions)
    OBVIOUS
  <2>2. Past(actions, t) \in 0..N
    BY <2>1, PastIs
  <2>3. CASE ticks = <<>>
    BY <2>2, <2>3 DEF CursorAfter
  <2>4. CASE ticks # <<>>
    <3>1. n \in 1..n
      BY <1>3, <2>4
    <3>2. PICK u \in Int : u = ticks[n].time /\ u <= t
      BY <1>5, <3>1
    <3>3. Past(actions, u) \in 0..N /\ Past(actions, u) <= Past(actions, t)
      BY <2>1, <3>2, PastIs, PastOrder
    <3>4. CursorAfter(actions, ticks) = Past(actions, u) + 1
      BY <1>3, <2>4, <3>2 DEF CursorAfter
    <3> QED BY <2>2, <3>3, <3>4
  <2> QED BY <2>3, <2>4
<1>10. st.adj = Adjusting(actions, CursorAfter(actions, ticks))
  BY <1>1 DEF StatTold
<1>11. /\ Advanced(st.adj, t) = Adjusting(actions, CursorAfter(actions, more))
       /\ Factors(Advanced(st.adj, t)) = FactorsAt(actions, t)
  BY <1>1, <1>8, <1>9, <1>10, AdvancedLaw
<1>12. PICK e : e = ScaledTick(tick, FactorsAt(actions, t))
  OBVIOUS
<1>13. PICK told : told = ScaledTicks(actions, ticks)
  OBVIOUS
<1>14. e \in Share /\ told \in Seq(Share) /\ ScaledTicks(actions, more) = Append(told, e)
  BY <1>2, <1>4, <1>6, <1>12, <1>13, ScaledAppend
<1>15. told \o <<e>> = Append(told, e)
  BY <1>14
<1>16. Brings(TickPart(e), <<e>>) /\ <<e>> \in Seq(Share) /\ <<e>> # <<>>
  BY <1>14, BringsOne
<1>17. Told(st.acc, told)
  BY <1>1, <1>13 DEF StatTold
<1>18. Told(Observe(st.acc, t, TickPart(e)), told \o <<e>>)
  BY <1>14, <1>16, <1>17, ToldMore
<1>19. StatTick(st, tick) = [adj |-> Advanced(st.adj, t), acc |-> Observe(st.acc, t, TickPart(e))]
  BY <1>2, <1>11, <1>12 DEF StatTick
<1>20. PICK next : next = StatTick(st, tick)
  OBVIOUS
<1>21. next.adj = Adjusting(actions, CursorAfter(actions, more))
  BY <1>11, <1>19, <1>20
<1>22. Told(next.acc, ScaledTicks(actions, more))
  <2>1. next.acc = Observe(st.acc, t, TickPart(e))
    BY <1>19, <1>20
  <2>2. ScaledTicks(actions, more) = told \o <<e>>
    BY <1>14, <1>15, Zenon
  <2> QED BY <1>18, <2>1, <2>2, Zenon
<1>23. StatTold(q, next, more)
  BY <1>1, <1>21, <1>22 DEF StatTold
<1> QED BY <1>6, <1>20, <1>23

LEMMA StatStart == Init => StatInv
<1> SUFFICES ASSUME Init, phase # "refused", query.source = "ticks"
             PROVE  StatTold(query, stat, KeptOf(query, source))
  BY DEF StatInv
<1>1. IInv
  BY InitKeeps
<1>2. Readable(query)
  BY <1>1, Streaming
<1>3. PICK actions \in Seq(Action) : actions = ActionsOf(query)
  BY <1>2 DEF Readable
<1>4. KeptOf(query, source) = <<>>
  BY RowsAtEmpty DEF Init, KeptOf
<1>5. stat.acc = NoStat /\ stat.adj = Adjuster(actions)
  BY <1>3 DEF Init, NoChain
<1>6. Adjuster(actions) = Adjusting(actions, 1)
  BY AdjusterLaw
<1>7. CursorAfter(actions, <<>>) = 1
  BY DEF CursorAfter
<1>8. ScaledTicks(actions, <<>>) = <<>>
  BY DEF ScaledTicks
<1> QED BY <1>3, <1>4, <1>5, <1>6, <1>7, <1>8, ToldNothing DEF StatTold

LEMMA StatStep == IInv /\ SourceInOrder /\ StatInv /\ [Next]_vars => StatInv'
<1> SUFFICES ASSUME IInv, SourceInOrder, StatInv, [Next]_vars,
                    phase' # "refused", query'.source = "ticks"
             PROVE  StatTold(query', stat', KeptOf(query', source'))
  BY DEF StatInv
<1>1. ASSUME NEW time \in Instants, Read(time)
      PROVE  StatTold(query', stat', KeptOf(query', source'))
  <2>1. PICK tick : tick = [time |-> time, price |-> Prices[Len(source) + 1],
                            size |-> Sizes[Len(source) + 1]]
    OBVIOUS
  <2>2. /\ phase = "streaming" /\ query' = query /\ source' = Append(source, tick)
        /\ IF Kept(query, tick) THEN stat' = IF query.source = "ticks" THEN StatTick(stat, tick)
                                             ELSE StatBar(stat, StoredBar(tick))
           ELSE stat' = stat
    BY <1>1, <2>1 DEF Read
  <2>3. SourceInOrder'
    BY OrderStep
  <2>4. source \in Seq(TickType) /\ Append(source, tick) \in Seq(TickType)
    BY <2>2, <2>3 DEF SourceInOrder
  <2>5. tick \in TickType
    <3>1. PICK n \in Nat : n = Len(source)
      BY <2>4
    <3>2. n + 1 \in 1..Len(Append(source, tick)) /\ Append(source, tick)[n + 1] = tick
      BY <2>4, <3>1
    <3> QED BY <2>4, <3>2
  <2>6. PICK ticks : ticks = KeptOf(query, source)
    OBVIOUS
  <2>7. /\ ticks \in Seq(TickType)
        /\ KeptOf(query, Append(source, tick)) = IF Kept(query, tick) THEN Append(ticks, tick) ELSE ticks
    BY <2>4, <2>5, <2>6, KeptAppend
  <2>8. StatTold(query, stat, ticks)
    BY <2>2, <2>6 DEF StatInv
  <2>9. CASE ~Kept(query, tick)
    BY <2>2, <2>7, <2>8, <2>9
  <2>10. CASE Kept(query, tick)
    <3>1. stat' = StatTick(stat, tick)
      BY <2>2, <2>10
    <3>2. Ascending(KeptOf(query, Append(source, tick)))
      <4>1. Ascending(Append(source, tick))
        BY <2>2, <2>3 DEF SourceInOrder
      <4>2. \A r \in TickType : r.time \in Int
        BY TickTime
      <4> QED BY <2>4, <4>1, <4>2, RowsAtAscending DEF KeptOf
    <3>3. Ascending(Append(ticks, tick))
      BY <2>7, <2>10, <3>2
    <3>4. Readable(query)
      BY <2>2, Streaming
    <3>5. StatTold(query, StatTick(stat, tick), Append(ticks, tick))
      BY <2>5, <2>7, <2>8, <3>3, <3>4, StatNext DEF Readable
    <3> QED BY <2>2, <2>7, <2>10, <3>1, <3>5
  <2> QED BY <2>9, <2>10
<1>2. CASE Finish
  <2>1. phase = "streaming" /\ query' = query /\ source' = source /\ stat' = stat
    BY <1>2 DEF Finish
  <2> QED BY <2>1 DEF StatInv
<1>3. CASE UNCHANGED vars
  <2>1. phase' = phase /\ query' = query /\ source' = source /\ stat' = stat
    BY <1>3 DEF vars
  <2> QED BY <2>1 DEF StatInv
<1> QED BY <1>1, <1>2, <1>3 DEF Next

-----------------------------------------------------------------------------
(* A bar that is adjusted brings what its trades do, one by one.           *)

Splitting(f) == [price |-> Flip(f), volume |-> f]
ScaledBy(f, ticks) == [i \in DOMAIN ticks |-> ScaledTick(ticks[i], Splitting(f))]

\* A number of shares that the splits leave whole is not rounded.
LEMMA ExactShares ==
  ASSUME NEW f \in Positive, NEW v \in Nat, NEW m \in Int, m * f.d = v * f.n
  PROVE  ScaleShares(v, f) = m
<1>1. PICK n, d \in Nat \ {0} : n = f.n /\ d = f.d
  BY DEF Positive
<1>2. ScaleShares(v, f) = (2 * v * n + d) \div (2 * d)
  BY <1>1 DEF ScaleShares
<1>3. PICK x \in Int : x = m * d
  OBVIOUS
<1>4. 2 * v * n = 2 * x
  <2>1. 2 * v * n = 2 * (v * n)
    OBVIOUS
  <2> QED BY <1>1, <1>3, <2>1
<1>5. (2 * d) * m = 2 * x
  <2>1. (2 * d) * m = 2 * (m * d)
    OBVIOUS
  <2> QED BY <1>3, <2>1
<1>6. PICK w \in Nat \ {0} : w = 2 * d
  OBVIOUS
<1>7. PICK a \in Int : a = 2 * x + d
  OBVIOUS
<1>8. w * m <= a /\ a < w * m + w
  BY <1>5, <1>6, <1>7
<1>9. a \div w = m
  BY <1>8, QuotientBounds
<1> QED BY <1>2, <1>4, <1>6, <1>7, <1>9

LEMMA WholeShares ==
  ASSUME NEW f \in Positive, NEW v \in Nat, Times(Whole(v), f).d = 1
  PROVE  ScaleShares(v, f) \in Int /\ ScaleShares(v, f) * f.d = v * f.n
<1>1. PICK n, d \in Nat \ {0} : n = f.n /\ d = f.d
  BY DEF Positive
<1>2. PICK q : q = Quotient(v * n, d)
  OBVIOUS
<1>3. q.d = 1
  BY <1>1, <1>2, WholeTimes
<1>4. q.n \in Int /\ q.n * d = (v * n) * q.d
  <2>1. PICK a \in Int : a = v * n
    OBVIOUS
  <2> QED BY <1>2, <2>1, QuotientIs
<1>5. PICK m \in Int : m = q.n
  BY <1>4
<1>6. m * d = v * n
  <2>1. (v * n) * 1 = v * n
    OBVIOUS
  <2> QED BY <1>3, <1>4, <1>5, <2>1
<1>7. ScaleShares(v, f) = m
  BY <1>1, <1>6, ExactShares
<1> QED BY <1>1, <1>6, <1>7

LEMMA ScaledByAppend ==
  ASSUME NEW f \in Positive, NEW ticks \in Seq(Share), NEW tick \in Share
  PROVE  /\ ScaledBy(f, <<>>) = <<>>
         /\ ScaledTick(tick, Splitting(f)) \in Share
         /\ ScaledBy(f, ticks) \in Seq(Share)
         /\ Len(ScaledBy(f, ticks)) = Len(ticks)
         /\ ScaledBy(f, Append(ticks, tick))
               = Append(ScaledBy(f, ticks), ScaledTick(tick, Splitting(f)))
<1>1. \A x \in Share : ScaledTick(x, Splitting(f)) \in Share
  BY ScaledTickIs DEF Splitting
<1>2. ScaledBy(f, <<>>) = <<>>
  BY DEF ScaledBy
<1>3. PICK n \in Nat : n = Len(ticks) /\ DOMAIN ticks = 1..n
  OBVIOUS
<1>4. PICK s : s = ScaledBy(f, ticks)
  OBVIOUS
<1>5. IsColumn(s, n) /\ \A i \in 1..n : s[i] = ScaledTick(ticks[i], Splitting(f))
  BY <1>3, <1>4 DEF ScaledBy, IsColumn
<1>6. \A i \in 1..n : s[i] \in Share
  BY <1>1, <1>3, <1>5
<1>7. s \in Seq(Share) /\ Len(s) = n
  BY <1>5, <1>6, ColumnType
<1>8. PICK more : more = Append(ticks, tick)
  OBVIOUS
<1>9. DOMAIN more = 1..(n + 1) /\ more[n + 1] = tick /\ \A i \in 1..n : more[i] = ticks[i]
  BY <1>3, <1>8
<1>10. PICK e \in Share : e = ScaledTick(tick, Splitting(f))
  BY <1>1
<1>11. PICK r : r = ScaledBy(f, more)
  OBVIOUS
<1>12. IsColumn(r, n + 1) /\ \A i \in 1..(n + 1) : r[i] = ScaledTick(more[i], Splitting(f))
  BY <1>9, <1>11 DEF ScaledBy, IsColumn
<1>13. n + 1 \in 1..(n + 1) /\ \A i \in 1..n : i \in 1..(n + 1)
  OBVIOUS
<1>14. r[n + 1] = e /\ \A i \in 1..n : r[i] = s[i]
  BY <1>5, <1>9, <1>10, <1>12, <1>13
<1>15. r = Append(s, e)
  BY <1>5, <1>12, <1>14, GrownByOne
<1> QED BY <1>1, <1>2, <1>3, <1>4, <1>7, <1>8, <1>10, <1>11, <1>15

WholeIn(f, tick) == FineFor(f, tick.price) /\ Times(Whole(tick.size), f).d = 1

\* One trade: as much money for as many shares.
LEMMA ScaledOne ==
  ASSUME NEW f \in Positive, NEW tick \in Share, WholeIn(f, tick),
         NEW scaled, scaled = ScaledTick(tick, Splitting(f))
  PROVE  /\ scaled \in Share /\ scaled.price = ScalePrice(tick.price, Flip(f))
         /\ scaled.size * f.d = tick.size * f.n
         /\ scaled.price * scaled.size = tick.price * tick.size
<1>1. /\ scaled \in Share /\ scaled.price = ScalePrice(tick.price, Flip(f))
      /\ scaled.size = ScaleShares(tick.size, f)
  BY ScaledTickIs DEF Splitting
<1>2. PICK p, s \in Nat : p = tick.price /\ s = tick.size
  BY DEF Share
<1>3. PICK u, v \in Nat : u = scaled.price /\ v = scaled.size
  BY <1>1 DEF Share
<1>4. PICK n, d \in Nat \ {0} : n = f.n /\ d = f.d
  BY DEF Positive
<1>5. u * n = p * d
  BY <1>1, <1>2, <1>3, <1>4, PriceExact DEF WholeIn
<1>6. v * d = s * n
  BY <1>1, <1>2, <1>3, <1>4, WholeShares DEF WholeIn
<1>7. u * v = p * s
  <2>1. PICK c \in Nat \ {0} : c = n * d
    BY Products
  <2>2. PICK x, y \in Int : x = u * v /\ y = p * s
    OBVIOUS
  <2>3. c * x = (u * n) * (v * d)
    BY <2>1, <2>2
  <2>4. c * y = (p * d) * (s * n)
    BY <2>1, <2>2
  <2>5. c * x = c * y
    BY <1>5, <1>6, <2>3, <2>4, Zenon
  <2>6. x = y
    BY <2>5, Cancel
  <2> QED BY <2>2, <2>6
<1> QED BY <1>1, <1>2, <1>3, <1>4, <1>6, <1>7

LEMMA ScaledSums ==
  ASSUME NEW f \in Positive, NEW ticks \in Seq(Share), \A i \in 1..Len(ticks) : WholeIn(f, ticks[i])
  PROVE  /\ Added(SizesIn(ScaledBy(f, ticks))) * f.d = Added(SizesIn(ticks)) * f.n
         /\ Added(AmountsIn(ScaledBy(f, ticks))) = Added(AmountsIn(ticks))
         /\ PricesIn(ScaledBy(f, ticks)) = ScaledPrices(PricesIn(ticks), Flip(f))
<1> DEFINE Good(s) ==
              /\ Added(SizesIn(ScaledBy(f, s))) * f.d = Added(SizesIn(s)) * f.n
              /\ Added(AmountsIn(ScaledBy(f, s))) = Added(AmountsIn(s))
              /\ PricesIn(ScaledBy(f, s)) = ScaledPrices(PricesIn(s), Flip(f))
           T == {s \in Seq(Share) : (\A i \in 1..Len(s) : WholeIn(f, s[i])) => Good(s)}
<1>1. PICK n, d \in Nat \ {0} : n = f.n /\ d = f.d
  BY DEF Positive
<1>2. <<>> \in T
  <2>1. SizesIn(<<>>) = <<>> /\ AmountsIn(<<>>) = <<>> /\ PricesIn(<<>>) = {}
    BY DEF SizesIn, AmountsIn, PricesIn
  <2>2. ScaledBy(f, <<>>) = <<>> /\ <<>> \in Seq(Share)
    BY DEF ScaledBy
  <2>3. Added(<<>>) = 0 /\ 0 * d = 0 * n
    BY AddedLaw
  <2>4. ScaledPrices({}, Flip(f)) = {}
    BY DEF ScaledPrices
  <2> QED BY <1>1, <2>1, <2>2, <2>3, <2>4
<1>3. ASSUME NEW s \in Seq(Share), NEW e \in Share, s \in T
      PROVE  Append(s, e) \in T
  <2>1. PICK k \in Nat : k = Len(s)
    OBVIOUS
  <2>2. PICK more : more = Append(s, e)
    OBVIOUS
  <2>3. /\ more \in Seq(Share) /\ Len(more) = k + 1 /\ more[k + 1] = e
        /\ \A i \in 1..k : more[i] = s[i]
    BY <2>1, <2>2
  <2>4. ASSUME \A i \in 1..Len(more) : WholeIn(f, more[i]) PROVE Good(more)
    <3>1. WholeIn(f, e) /\ \A i \in 1..Len(s) : WholeIn(f, s[i])
      <4>1. k + 1 \in 1..(k + 1) /\ \A i \in 1..k : i \in 1..(k + 1)
        OBVIOUS
      <4> QED BY <2>1, <2>3, <2>4, <4>1
    <3>2. Good(s)
      BY <1>3, <3>1
    <3>3. PICK g \in Share : g = ScaledTick(e, Splitting(f))
      BY ScaledByAppend
    <3>4. PICK t \in Seq(Share) : t = ScaledBy(f, s)
      BY ScaledByAppend
    <3>5. ScaledBy(f, more) = Append(t, g)
      BY <2>2, <3>3, <3>4, ScaledByAppend
    <3>6. /\ g.price = ScalePrice(e.price, Flip(f))
          /\ g.size * f.d = e.size * f.n
          /\ g.price * g.size = e.price * e.size
      BY <3>1, <3>3, ScaledOne
    <3>7. /\ SizesIn(s) \in Seq(Nat) /\ AmountsIn(s) \in Seq(Nat)
          /\ SizesIn(more) = Append(SizesIn(s), e.size)
          /\ AmountsIn(more) = Append(AmountsIn(s), e.price * e.size)
          /\ PricesIn(more) = PricesIn(s) \cup {e.price}
          /\ e.size \in Nat /\ e.price * e.size \in Nat
      BY <2>2, SharesAppend
    <3>8. /\ SizesIn(t) \in Seq(Nat) /\ AmountsIn(t) \in Seq(Nat)
          /\ SizesIn(Append(t, g)) = Append(SizesIn(t), g.size)
          /\ AmountsIn(Append(t, g)) = Append(AmountsIn(t), g.price * g.size)
          /\ PricesIn(Append(t, g)) = PricesIn(t) \cup {g.price}
          /\ g.size \in Nat /\ g.price * g.size \in Nat
      BY SharesAppend
    <3>9. PICK x, u \in Nat : x = e.size /\ u = g.size
      BY <3>7, <3>8
    <3>10. PICK y \in Nat : y = e.price * e.size
      BY <3>7
    <3>11. PICK a, b \in Nat : a = Added(SizesIn(s)) /\ b = Added(SizesIn(t))
      BY <3>7, <3>8, AddedLaw
    <3>12. PICK c \in Nat : c = Added(AmountsIn(s)) /\ c = Added(AmountsIn(t))
      BY <3>2, <3>4, <3>7, AddedLaw
    <3>13. Added(SizesIn(more)) = a + x /\ Added(SizesIn(Append(t, g))) = b + u
      BY <3>7, <3>8, <3>9, <3>11, AddedLaw
    <3>14. Added(AmountsIn(more)) = c + y /\ Added(AmountsIn(Append(t, g))) = c + y
      <4>1. AmountsIn(more) = Append(AmountsIn(s), y)
        BY <3>7, <3>10
      <4>2. AmountsIn(Append(t, g)) = Append(AmountsIn(t), y)
        BY <3>6, <3>8, <3>10
      <4> QED BY <3>7, <3>8, <3>12, <4>1, <4>2, AddedLaw, ZenonT(40)
    <3>15. (b + u) * d = (a + x) * n
      <4>1. b * d = a * n
        BY <1>1, <3>2, <3>4, <3>11
      <4>2. u * d = x * n
        BY <1>1, <3>6, <3>9
      <4>3. (b + u) * d = b * d + u * d /\ (a + x) * n = a * n + x * n
        OBVIOUS
      <4> QED BY <4>1, <4>2, <4>3, Zenon
    <3>16. ScaledPrices(PricesIn(s) \cup {e.price}, Flip(f)) = PricesIn(t) \cup {g.price}
      <4>1. ScaledPrices(PricesIn(s), Flip(f)) = PricesIn(t)
        BY <3>2, <3>4
      <4>2. \A S, p : ScaledPrices(S \cup {p}, Flip(f)) = ScaledPrices(S, Flip(f)) \cup {ScalePrice(p, Flip(f))}
        BY DEF ScaledPrices
      <4> QED BY <3>6, <4>1, <4>2, Zenon
    <3> QED BY <1>1, <3>5, <3>7, <3>8, <3>13, <3>14, <3>15, <3>16, Zenon
  <2> QED BY <2>2, <2>3, <2>4
<1>4. Seq(Share) \subseteq T
  <2> HIDE DEF T
  <2> QED BY <1>2, <1>3, SeqInduction
<1> QED BY <1>4

LEMMA MassIs ==
  ASSUME NEW f \in Positive, NEW M \in Nat, NEW V \in Nat \ {0}, NEW W \in Int,
         W * f.d = V * f.n, NEW bar, bar.volume = W, bar.vwap = Times(Quotient(M, V), Flip(f))
  PROVE  PriceMass(bar) = Whole(M)
<1>1. PICK n, d \in Nat \ {0} : n = f.n /\ d = f.d
  BY DEF Positive
<1>2. PICK X \in Nat \ {0} : X = V * n
  BY Products
<1>3. W * d = X
  BY <1>1, <1>2
<1>4. W \in Nat \ {0}
  <2>1. CASE W <= 0
    <3>1. PICK k \in Nat : k = -W
      BY <2>1
    <3>2. W * d = -(d * k) /\ d * k >= 0
      <4>1. d * k >= 0
        BY Multiples
      <4>2. W = -k
        BY <3>1
      <4> QED BY <4>1, <4>2
    <3>3. d * k \in Int
      OBVIOUS
    <3> QED BY <1>3, <3>2, <3>3
  <2> QED BY <2>1
<1>5. Quotient(X, d) = Whole(W)
  <2>1. X * 1 = W * d
    BY <1>3
  <2>2. Quotient(X, d) = Quotient(W, 1)
    BY <1>4, <2>1, QuotientSame
  <2> QED BY <1>4, <2>2, WholeIs
<1>6. bar.vwap = Times(Whole(M), Flip(Whole(W)))
  <2>1. Times(Quotient(M, V), Flip(f)) = Times(Whole(M), Flip(Quotient(X, d)))
    BY <1>1, <1>2, AverageToday
  <2> QED BY <1>5, <2>1
<1>7. bar.vwap = Quotient(M, W)
  <2>1. Times(Whole(M), Flip(Whole(W))) = Quotient(M * 1, 1 * W)
    BY DEF Times, Whole, Flip
  <2>2. M * 1 = M /\ 1 * W = W
    BY <1>4
  <2> QED BY <1>6, <2>1, <2>2
<1>8. bar.vwap.d # 0
  BY <1>4, <1>7, QuotientIs
<1>9. PriceMass(bar) = Times(Quotient(M, W), Quotient(W, 1))
  BY <1>4, <1>7, <1>8, WholeIs DEF PriceMass
<1>10. Times(Quotient(M, W), Quotient(W, 1)) = Quotient(M * W, W * 1)
  BY <1>4, TimesQuotients
<1>11. Quotient(M * W, W * 1) = Quotient(M, 1)
  <2>1. PICK Y \in Int : Y = M * W
    BY <1>4
  <2>2. Y * 1 = M * W /\ W * 1 = W
    BY <1>4, <2>1
  <2>3. Quotient(Y, W) = Quotient(M, 1)
    BY <1>4, <2>2, QuotientSame
  <2> QED BY <2>1, <2>2, <2>3
<1> QED BY <1>9, <1>10, <1>11, WholeIs

LEMMA ScaledBrings ==
  ASSUME NEW f \in Positive, NEW ticks \in Seq(Trade), ticks # <<>>, NEW start \in Int,
         \A i \in 1..Len(ticks) : WholeIn(f, ticks[i])
  PROVE  /\ ScaledBy(f, ticks) \in Seq(Share) /\ ScaledBy(f, ticks) # <<>>
         /\ Brings(BarPart(ScaledBar(BarAt(start, ticks), Splitting(f))), ScaledBy(f, ticks))
<1>1. ticks \in Seq(Share)
  BY TradeIsShare
<1>2. PICK told \in Seq(Share) : told = ScaledBy(f, ticks) /\ Len(told) = Len(ticks)
  <2>1. PICK any \in Share : TRUE
    <3>1. [time |-> 0, price |-> 0, size |-> 0] \in Share
      BY DEF Share
    <3> QED BY <3>1
  <2> QED BY <1>1, <2>1, ScaledByAppend
<1>3. told # <<>>
  BY <1>2
<1>4. /\ Added(SizesIn(told)) * f.d = Added(SizesIn(ticks)) * f.n
      /\ Added(AmountsIn(told)) = Added(AmountsIn(ticks))
      /\ PricesIn(told) = ScaledPrices(PricesIn(ticks), Flip(f))
  BY <1>1, <1>2, ScaledSums
<1>5. PICK V \in Nat \ {0}, M \in Nat : V = Added(SizesIn(ticks)) /\ M = Added(AmountsIn(ticks))
  BY GatheredType
<1>6. PICK W \in Nat : W = Added(SizesIn(told))
  BY <1>2, SharesConcat
<1>7. ScaleShares(V, f) = W
  BY <1>4, <1>5, <1>6, ExactShares
<1>8. PICK bar : bar = BarAt(start, ticks)
  OBVIOUS
<1>9. /\ bar.volume = V /\ bar.trades = Len(ticks)
      /\ bar.high = Max(PricesIn(ticks)) /\ bar.low = Min(PricesIn(ticks))
      /\ bar.vwap = Quotient(M, V)
  BY <1>5, <1>8, BarAtIs
<1>10. Quotient(M, V) # NaN
  BY AverageToday
<1>11. PICK scaled : scaled = ScaledBar(bar, Splitting(f))
  OBVIOUS
<1>12. /\ scaled.volume = W /\ scaled.trades = Len(told)
       /\ scaled.high = ScalePrice(Max(PricesIn(ticks)), Flip(f))
       /\ scaled.low = ScalePrice(Min(PricesIn(ticks)), Flip(f))
       /\ scaled.vwap = Times(Quotient(M, V), Flip(f))
  BY <1>2, <1>7, <1>9, <1>10, <1>11 DEF ScaledBar, Splitting
<1>13. PriceMass(scaled) = Whole(M)
  BY <1>4, <1>5, <1>6, <1>12, MassIs
<1>14. scaled.low = Min(PricesIn(told)) /\ scaled.high = Max(PricesIn(told))
  <2>1. PICK g \in Positive : g = Flip(f)
    <3>1. Flip(f) \in Positive
      BY DEF Positive, Flip
    <3> QED BY <3>1
  <2>2. PICK h, l \in PricesIn(ticks) :
           /\ h = Max(PricesIn(ticks)) /\ l = Min(PricesIn(ticks))
           /\ \A p \in PricesIn(ticks) : l <= p /\ p <= h
    BY PriceBounds
  <2>3. PricesIn(ticks) \subseteq Int
    BY PriceBounds
  <2>4. /\ Max(ScaledPrices(PricesIn(ticks), g)) = ScalePrice(h, g)
        /\ Min(ScaledPrices(PricesIn(ticks), g)) = ScalePrice(l, g)
    BY <2>2, <2>3, GrownBounds
  <2> QED BY <1>4, <1>12, <2>1, <2>2, <2>4
<1>15. /\ BarPart(scaled).trades = scaled.trades /\ BarPart(scaled).volume = scaled.volume
       /\ BarPart(scaled).mass = PriceMass(scaled)
       /\ BarPart(scaled).low = scaled.low /\ BarPart(scaled).high = scaled.high
  BY DEF BarPart
<1>16. Brings(BarPart(scaled), told)
  BY <1>4, <1>5, <1>6, <1>12, <1>13, <1>14, <1>15 DEF Brings
<1> QED BY <1>2, <1>3, <1>8, <1>11, <1>16

-----------------------------------------------------------------------------
(* The accumulator over the bars.                                          *)

Unstarted(adjuster) == [adj |-> adjuster, acc |-> NoStat]
IsStat(f, bars, adjuster) ==
    /\ f[0] = Unstarted(adjuster)
    /\ \A i \in 1..Len(bars) : f[i] = StatBar(f[i - 1], bars[i])

LEMMA StatRun ==
  ASSUME NEW bars, Len(bars) \in Nat, NEW adjuster
  PROVE  \E f : IsStat(f, bars, adjuster) /\ StatOfBars(bars, adjuster) = StatRow(f[Len(bars)].acc)
<1> DEFINE N == Len(bars)
           Step(i, x) == StatBar(x, bars[i])
           Is(f, m) == f = [i \in 0..m |-> IF i = 0 THEN Unstarted(adjuster) ELSE Step(i, f[i - 1])]
           Reached == {m \in 0..N : \E f : Is(f, m)}
           g == CHOOSE f : Is(f, N)
<1>1. StatOfBars(bars, adjuster) = StatRow(g[N].acc)
  BY DEF StatOfBars, Unstarted
<1> HIDE DEF Step, N, g
<1>2. N \in Nat
  BY DEF N
<1>3. 0 \in Reached
  <2>1. Is([i \in 0..0 |-> Unstarted(adjuster)], 0)
    OBVIOUS
  <2>2. \E f : Is(f, 0)
    <3> HIDE DEF Is
    <3> QED BY <2>1
  <2> HIDE DEF Is
  <2> QED BY <1>2, <2>2
<1>4. ASSUME NEW m \in 1..N, m - 1 \in Reached
      PROVE  m \in Reached
  <2>1. PICK f : Is(f, m - 1)
    BY <1>4
  <2> DEFINE h == [i \in 0..m |-> IF i = m THEN Step(m, f[m - 1]) ELSE f[i]]
  <2>2. \A i \in 0..(m - 1) : f[i] = IF i = 0 THEN Unstarted(adjuster) ELSE Step(i, f[i - 1])
    BY <2>1
  <2>3. h[m] = Step(m, f[m - 1]) /\ \A i \in 0..(m - 1) : h[i] = f[i]
    BY <1>2
  <2>4. h = [i \in 0..m |-> h[i]]
    OBVIOUS
  <2> HIDE DEF h
  <2>5. ASSUME NEW i \in 0..m
        PROVE  h[i] = IF i = 0 THEN Unstarted(adjuster) ELSE Step(i, h[i - 1])
    <3>1. CASE i = m
      <4>1. i # 0 /\ i - 1 \in 0..(m - 1) /\ i - 1 = m - 1
        BY <1>2, <3>1
      <4> QED BY <2>3, <3>1, <4>1
    <3>2. CASE i # m
      <4>1. i \in 0..(m - 1) /\ (i # 0 => i - 1 \in 0..(m - 1))
        BY <1>2, <3>2
      <4> QED BY <2>2, <2>3, <4>1
    <3> QED BY <3>1, <3>2
  <2>6. Is(h, m)
    BY <2>4, <2>5, Zenon
  <2> HIDE DEF Is
  <2> QED BY <1>4, <1>2, <2>6
<1>5. N \in Reached
  <2>1. 0..N \subseteq Reached
    <3> HIDE DEF Reached
    <3> QED BY <1>2, <1>3, <1>4, Induction
  <2> HIDE DEF Reached
  <2> QED BY <1>2, <2>1
<1>6. Is(g, N)
  <2> HIDE DEF Is
  <2> QED BY <1>5 DEF g
<1>7. g[0] = Unstarted(adjuster) /\ \A i \in 1..N : g[i] = Step(i, g[i - 1])
  <2>1. \A i \in 0..N : g[i] = IF i = 0 THEN Unstarted(adjuster) ELSE Step(i, g[i - 1])
    BY <1>6
  <2>2. 0 \in 0..N /\ \A i \in 1..N : i \in 0..N /\ i # 0
    BY <1>2
  <2> QED BY <2>1, <2>2, Zenon
<1>8. IsStat(g, bars, adjuster)
  BY <1>7 DEF IsStat, Step, N
<1> QED BY <1>1, <1>8 DEF N

LEMMA ScaledConcat ==
  ASSUME NEW actions \in Seq(Action), NEW a \in Seq(Share), NEW b \in Seq(Share)
  PROVE  ScaledTicks(actions, a \o b) = ScaledTicks(actions, a) \o ScaledTicks(actions, b)
<1> DEFINE T == {s \in Seq(Share) :
                    ScaledTicks(actions, a \o s) = ScaledTicks(actions, a) \o ScaledTicks(actions, s)}
<1>1. PICK x : x = ScaledTicks(actions, a)
  OBVIOUS
<1>2. [time |-> 0, price |-> 0, size |-> 0] \in Share
  BY DEF Share
<1>3. x \in Seq(Share)
  BY <1>1, <1>2, ScaledAppend
<1>4. <<>> \in T
  <2>1. ScaledTicks(actions, <<>>) = <<>>
    BY DEF ScaledTicks
  <2>2. a \o <<>> = a /\ x \o <<>> = x /\ <<>> \in Seq(Share)
    BY <1>3, ConcatEmptySeq
  <2> QED BY <1>1, <2>1, <2>2
<1>5. ASSUME NEW s \in Seq(Share), NEW e \in Share, s \in T
      PROVE  Append(s, e) \in T
  <2>1. PICK y, g : y = ScaledTicks(actions, s) /\ g = ScaledTick(e, FactorsAt(actions, e.time))
    OBVIOUS
  <2>2. y \in Seq(Share) /\ g \in Share
    BY <2>1, ScaledAppend
  <2>3. PICK c \in Seq(Share) : c = a \o s
    <3>1. a \o s \in Seq(Share)
      BY SharesConcat
    <3> QED BY <3>1
  <2>4. ScaledTicks(actions, c) = x \o y
    BY <1>1, <1>5, <2>1, <2>3
  <2>5. a \o Append(s, e) = Append(c, e)
    BY <2>3, ConcatAppend
  <2>6. x \o Append(y, g) = Append(x \o y, g)
    BY <1>3, <2>2, ConcatAppend
  <2>7. ScaledTicks(actions, Append(c, e)) = Append(ScaledTicks(actions, c), g)
    BY <2>1, ScaledAppend
  <2>8. ScaledTicks(actions, Append(s, e)) = Append(y, g)
    BY <2>1, ScaledAppend
  <2>9. Append(s, e) \in Seq(Share)
    OBVIOUS
  <2>10. ScaledTicks(actions, a \o Append(s, e)) = x \o ScaledTicks(actions, Append(s, e))
    BY <2>4, <2>5, <2>6, <2>7, <2>8, Zenon
  <2> QED BY <1>1, <2>9, <2>10
<1>6. Seq(Share) \subseteq T
  <2> HIDE DEF T
  <2> QED BY <1>4, <1>5, SeqInduction
<1> QED BY <1>6

\* No split leaves a fraction of a share.
WholeTrades(ticks) ==
    \A i \in 1..Len(ticks) : Times(Whole(ticks[i].size), SharesSince(ticks[i].time)).d = 1

\* What a bar brings: the trades of its bucket.
LEMMA BucketTold ==
  ASSUME FitBuckets, FitActions, NEW ticks \in Seq(Trade), FitTrades(ticks), WholeTrades(ticks),
         NEW start \in StartsOf(ticks), NEW bar, bar = BarAt(start, TicksIn(ticks, start)),
         NEW told, told = ScaledTicks(ActionsOf(query), TicksIn(ticks, start))
  PROVE  /\ bar.time = start
         /\ told \in Seq(Share) /\ told # <<>>
         /\ Brings(BarPart(ScaledBar(bar, FactorsAt(ActionsOf(query), start))), told)
<1>1. PICK held : held = TicksIn(ticks, start)
  OBVIOUS
<1>2. PICK f : f = SharesSince(start)
  OBVIOUS
<1>3. /\ start \in Int /\ f \in Positive
      /\ held \in Seq(Trade) /\ held # <<>>
      /\ \A i \in 1..Len(held) : FineFor(f, held[i].price)
      /\ \A i \in 1..Len(held) : SharesSince(held[i].time) = f
  BY <1>1, <1>2, BucketToday
<1>4. PICK n \in Nat : n = Len(ticks) /\ DOMAIN ticks = 1..n
  OBVIOUS
<1>5. PICK m \in Nat : m = Len(held) /\ DOMAIN held = 1..m
  BY <1>3
<1>6. ASSUME NEW k \in 1..m PROVE \E i \in 1..n : held[k] = ticks[i]
  <2>1. PICK P : held = RowsAt(ticks, P)
    BY <1>1 DEF TicksIn
  <2> QED BY <1>4, <1>5, <2>1, RowsAtElements
<1>7. ASSUME NEW k \in 1..m
      PROVE  WholeIn(f, held[k]) /\ FactorsAt(ActionsOf(query), held[k].time) = Splitting(f)
  <2>1. PICK i \in 1..n : held[k] = ticks[i]
    BY <1>6
  <2>2. Times(Whole(held[k].size), SharesSince(held[k].time)).d = 1
    BY <1>4, <2>1 DEF WholeTrades
  <2>3. FineFor(f, held[k].price) /\ SharesSince(held[k].time) = f
    BY <1>3, <1>5
  <2>4. held[k].time \in Int
    <3>1. held[k] \in Trade
      BY <1>3, <1>5
    <3> QED BY <3>1 DEF Trade
  <2>5. FactorsAt(ActionsOf(query), held[k].time) = Splitting(f)
    BY <2>3, <2>4, SinceLaw DEF FitActions, Splitting
  <2> QED BY <2>2, <2>3, <2>5 DEF WholeIn
<1>8. told = ScaledBy(f, held)
  <2>1. \A k \in 1..m : ScaledTick(held[k], FactorsAt(ActionsOf(query), held[k].time))
                           = ScaledTick(held[k], Splitting(f))
    BY <1>7
  <2> QED BY <1>1, <1>5, <2>1 DEF ScaledTicks, ScaledBy
<1>9. FactorsAt(ActionsOf(query), start) = Splitting(f)
  BY <1>2, <1>3, SinceLaw DEF FitActions, Splitting
<1>10. /\ ScaledBy(f, held) \in Seq(Share) /\ ScaledBy(f, held) # <<>>
       /\ Brings(BarPart(ScaledBar(BarAt(start, held), Splitting(f))), ScaledBy(f, held))
  BY <1>3, <1>5, <1>7, ScaledBrings
<1>11. bar.time = start
  BY <1>1, <1>3, BarAtIs
<1> QED BY <1>1, <1>8, <1>9, <1>10, <1>11

\* The trades of the first bars.
PlacesUpTo(bars, ticks, k) == {i \in DOMAIN ticks : \E j \in 1..k : BucketOf(ticks[i]) = bars[j].time}
UpTo(bars, ticks, k) == RowsAt(ticks, PlacesUpTo(bars, ticks, k))

LEMMA BucketsOrdered ==
  ASSUME FitBuckets, NEW ticks \in Seq(Trade), Ordered(ticks), NEW i \in 1..Len(ticks),
         NEW j \in 1..Len(ticks), i <= j
  PROVE  /\ BucketOf(ticks[i]) \in Int /\ BucketOf(ticks[j]) \in Int
         /\ BucketOf(ticks[i]) <= BucketOf(ticks[j])
<1>1. PICK t, u \in Int : t = ticks[i].time /\ u = ticks[j].time
  <2>1. ticks[i] \in Trade /\ ticks[j] \in Trade
    OBVIOUS
  <2> QED BY <2>1 DEF Trade
<1>2. Belongs(SessionOf(query), t) /\ Belongs(SessionOf(query), u)
  BY <1>1 DEF Ordered
<1>3. t <= u
  <2>1. CASE i = j
    BY <1>1, <2>1
  <2>2. CASE i < j
    BY <1>1, <2>2 DEF Ordered
  <2> QED BY <2>1, <2>2
<1>4. BucketOf(ticks[i]) = BucketStart(query.width, SessionOf(query), t)
      /\ BucketOf(ticks[j]) = BucketStart(query.width, SessionOf(query), u)
  BY <1>1 DEF BucketOf
<1>5. PICK a, b \in Int : /\ a = BucketStart(query.width, SessionOf(query), t)
                          /\ b = BucketStart(query.width, SessionOf(query), u)
  BY BucketStartBounds DEF FitBuckets
<1>6. Beside(query.width, a, b)
  BY <1>2, <1>3, <1>5, BucketsBeside DEF FitBuckets
<1>7. PICK w \in Nat : w = query.width
  BY HoursType DEF FitBuckets
<1>8. a <= b
  BY <1>6, <1>7 DEF Beside
<1> QED BY <1>4, <1>5, <1>8

LEMMA UpToMore ==
  ASSUME FitBuckets, NEW ticks \in Seq(Trade), Ordered(ticks),
         NEW bars, BarsOfBuckets(bars, ticks), NEW k \in 1..Len(bars)
  PROVE  /\ UpTo(bars, ticks, k - 1) \in Seq(Trade)
         /\ UpTo(bars, ticks, k) = UpTo(bars, ticks, k - 1) \o TicksIn(ticks, bars[k].time)
         /\ TicksIn(ticks, bars[k].time) \in Seq(Trade)
         /\ bars[k].time \in StartsOf(ticks)
<1>1. PICK n \in Nat : n = Len(ticks) /\ DOMAIN ticks = 1..n
  OBVIOUS
<1>2. PICK m \in Nat : m = Len(bars) /\ DOMAIN bars = 1..m /\ bars \in Seq(BarType)
  BY DEF BarsOfBuckets
<1>3. PICK P : P = PlacesUpTo(bars, ticks, k - 1)
  OBVIOUS
<1>4. PICK Q : Q = {i \in DOMAIN ticks : BucketOf(ticks[i]) = bars[k].time}
  OBVIOUS
<1>5. PICK R : R = PlacesUpTo(bars, ticks, k)
  OBVIOUS
<1>6. \A i \in 1..n : i \in R <=> i \in P \/ i \in Q
  <2>1. \A j : j \in 1..k <=> j \in 1..(k - 1) \/ j = k
    BY <1>2
  <2> QED BY <1>1, <1>3, <1>4, <1>5, <2>1 DEF PlacesUpTo
<1>7. ASSUME NEW i \in 1..n, NEW j \in 1..n, i \in P, j \in Q PROVE i < j
  <2>1. PICK l \in 1..(k - 1) : BucketOf(ticks[i]) = bars[l].time
    BY <1>3, <1>7 DEF PlacesUpTo
  <2>2. BucketOf(ticks[j]) = bars[k].time
    BY <1>4, <1>7
  <2>3. l \in 1..m /\ l < k
    BY <1>2
  <2>4. bars[l].time < bars[k].time
    BY <1>2, <2>3 DEF BarsOfBuckets, InOrder
  <2>5. ASSUME j <= i PROVE FALSE
    <3>1. PICK a, b \in Int : a = BucketOf(ticks[i]) /\ b = BucketOf(ticks[j]) /\ b <= a
      BY <1>1, <2>5, BucketsOrdered
    <3>2. a < b
      BY <2>1, <2>2, <2>4, <3>1
    <3> QED BY <3>1, <3>2
  <2> QED BY <2>5
<1>8. RowsAt(ticks, R) = RowsAt(ticks, P) \o RowsAt(ticks, Q)
  BY <1>1, <1>6, <1>7, RowsAtBehind, SMTT(30)
<1>9. RowsAt(ticks, P) \in Seq(Trade) /\ RowsAt(ticks, Q) \in Seq(Trade)
  BY RowsAtType
<1>10. TicksIn(ticks, bars[k].time) = RowsAt(ticks, Q)
  BY <1>4 DEF TicksIn
<1>11. bars[k].time \in StartsOf(ticks)
  <2>1. bars[k].time \in TimesOf(bars)
    BY <1>2 DEF TimesOf
  <2> QED BY <2>1 DEF BarsOfBuckets
<1> QED BY <1>3, <1>5, <1>8, <1>9, <1>10, <1>11 DEF UpTo

LEMMA BarsTold ==
  ASSUME FitBuckets, FitActions, NEW ticks \in Seq(Trade), Ordered(ticks), FitTrades(ticks),
         WholeTrades(ticks), NEW bars, BarsOfBuckets(bars, ticks),
         NEW f, IsStat(f, bars, Adjuster(ActionsOf(query)))
  PROVE  Told(f[Len(bars)].acc, ScaledTicks(ActionsOf(query), ticks))
<1>1. PICK actions \in Seq(Action) : actions = ActionsOf(query) /\ Sorted(actions)
  BY DEF FitActions
<1>2. PICK m \in Nat : m = Len(bars) /\ DOMAIN bars = 1..m /\ bars \in Seq(BarType)
  BY DEF BarsOfBuckets
<1>3. PICK n \in Nat : n = Len(ticks) /\ DOMAIN ticks = 1..n
  OBVIOUS
<1>4. \A k \in 1..m : bars[k].time \in Int
  <2>1. \A b \in BarType : b.time \in Int
    BY DEF BarType
  <2> QED BY <1>2, <2>1
<1> DEFINE Cursor(k) == IF k = 0 THEN 1 ELSE Past(actions, bars[k].time) + 1
           Good(k) == /\ f[k].adj = Adjusting(actions, Cursor(k))
                      /\ Told(f[k].acc, ScaledTicks(actions, UpTo(bars, ticks, k)))
           T == {k \in 0..m : Good(k)}
<1>5. f[0] = Unstarted(Adjuster(actions)) /\ \A k \in 1..m : f[k] = StatBar(f[k - 1], bars[k])
  BY <1>1, <1>2 DEF IsStat
<1>6. 0 \in T
  <2>1. f[0].adj = Adjusting(actions, 1) /\ f[0].acc = NoStat
    BY <1>5, AdjusterLaw DEF Unstarted
  <2>2. UpTo(bars, ticks, 0) = <<>>
    <3>1. PlacesUpTo(bars, ticks, 0) = {}
      BY DEF PlacesUpTo
    <3> QED BY <3>1, RowsAtNone DEF UpTo
  <2>3. ScaledTicks(actions, <<>>) = <<>>
    BY DEF ScaledTicks
  <2>4. 0 \in 0..m
    BY <1>2
  <2> QED BY <2>1, <2>2, <2>3, <2>4, ToldNothing
<1>7. ASSUME NEW k \in 1..m, k - 1 \in T PROVE k \in T
  <2>1. PICK t \in Int : t = bars[k].time
    BY <1>4
  <2>2. PICK before : before = UpTo(bars, ticks, k - 1)
    OBVIOUS
  <2>3. PICK held : held = TicksIn(ticks, t)
    OBVIOUS
  <2>4. /\ before \in Seq(Trade) /\ held \in Seq(Trade)
        /\ UpTo(bars, ticks, k) = before \o held
        /\ t \in StartsOf(ticks)
    BY <1>2, <2>1, <2>2, <2>3, UpToMore
  <2>5. PICK a, b : a = ScaledTicks(actions, before) /\ b = ScaledTicks(actions, held)
    OBVIOUS
  <2>6. bars[k] = BarAt(t, TicksIn(ticks, t))
    BY <1>2, <2>1 DEF BarsOfBuckets, AreBuckets
  <2>7. /\ b \in Seq(Share) /\ b # <<>>
        /\ Brings(BarPart(ScaledBar(bars[k], FactorsAt(actions, t))), b)
    BY <1>1, <2>3, <2>4, <2>5, <2>6, BucketTold
  <2>8. before \in Seq(Share) /\ held \in Seq(Share)
    BY <2>4, TradeIsShare
  <2>9. a \in Seq(Share)
    <3>1. [time |-> 0, price |-> 0, size |-> 0] \in Share
      BY DEF Share
    <3> QED BY <2>5, <2>8, <3>1, ScaledAppend
  <2>10. ScaledTicks(actions, UpTo(bars, ticks, k)) = a \o b
    BY <2>4, <2>5, <2>8, ScaledConcat
  <2>11. PICK state : state = f[k - 1]
    OBVIOUS
  <2>12. state.adj = Adjusting(actions, Cursor(k - 1)) /\ Told(state.acc, a)
    BY <1>7, <2>2, <2>5, <2>11
  <2>13. Cursor(k - 1) \in 1..(Past(actions, t) + 1)
    <3>1. PICK N \in Nat : N = Len(actions)
      OBVIOUS
    <3>2. Past(actions, t) \in 0..N
      BY <3>1, PastIs
    <3>3. CASE k - 1 = 0
      BY <3>2, <3>3
    <3>4. CASE k - 1 # 0
      <4>1. k - 1 \in 1..m /\ k - 1 < k
        BY <3>4
      <4>2. PICK u \in Int : u = bars[k - 1].time
        BY <1>4, <4>1
      <4>3. u <= t
        <5>1. bars[k - 1].time < bars[k].time
          BY <1>2, <4>1 DEF BarsOfBuckets, InOrder
        <5> QED BY <2>1, <4>2, <5>1
      <4>4. Past(actions, u) \in 0..N /\ Past(actions, u) <= Past(actions, t)
        BY <3>1, <4>3, PastIs, PastOrder
      <4>5. Cursor(k - 1) = Past(actions, u) + 1
        BY <3>4, <4>2
      <4> QED BY <3>2, <4>4, <4>5
    <3> QED BY <3>3, <3>4
  <2>14. Cursor(k) = Past(actions, t) + 1
    BY <2>1
  <2> HIDE DEF Cursor
  <2>15. /\ Advanced(state.adj, t) = Adjusting(actions, Cursor(k))
         /\ Factors(Advanced(state.adj, t)) = FactorsAt(actions, t)
    BY <1>1, <2>12, <2>13, <2>14, AdvancedLaw
  <2>16. PICK part : part = BarPart(ScaledBar(bars[k], FactorsAt(actions, t)))
    OBVIOUS
  <2>17. StatBar(state, bars[k]) = [adj |-> Advanced(state.adj, t), acc |-> Observe(state.acc, t, part)]
    BY <2>1, <2>15, <2>16 DEF StatBar
  <2>18. Told(Observe(state.acc, t, part), a \o b)
    BY <2>7, <2>9, <2>12, <2>16, ToldMore
  <2>19. f[k] = StatBar(state, bars[k])
    BY <1>5, <2>11
  <2>20. f[k].adj = Adjusting(actions, Cursor(k))
    BY <2>15, <2>17, <2>19
  <2>21. f[k].acc = Observe(state.acc, t, part)
    BY <2>17, <2>19
  <2>22. Told(f[k].acc, ScaledTicks(actions, UpTo(bars, ticks, k)))
    BY <2>10, <2>18, <2>21, Zenon
  <2> QED BY <2>20, <2>22
<1>8. 0..m \subseteq T
  <2> HIDE DEF T
  <2> QED BY <1>6, <1>7, Induction
<1>9. Told(f[m].acc, ScaledTicks(actions, UpTo(bars, ticks, m)))
  <2>1. m \in 0..m
    OBVIOUS
  <2> QED BY <1>8, <2>1
<1>10. UpTo(bars, ticks, m) = ticks
  <2>1. ASSUME NEW i \in 1..n PROVE i \in PlacesUpTo(bars, ticks, m)
    <3>1. BucketOf(ticks[i]) \in TimesOf(bars)
      BY <1>3 DEF BarsOfBuckets, StartsOf
    <3> QED BY <1>2, <1>3, <3>1 DEF TimesOf, PlacesUpTo
  <2>2. 1..Len(ticks) \subseteq PlacesUpTo(bars, ticks, m)
    BY <1>3, <2>1
  <2> QED BY <2>2, RowsAtAll DEF UpTo
<1> QED BY <1>1, <1>2, <1>9, <1>10

\* Accumulators of the same trades answer the same row.
LEMMA ToldAlike ==
  ASSUME NEW shares, NEW acc, Told(acc, shares), NEW other, Told(other, shares),
         NEW f \in {"trades", "min", "max", "vwap", "volume"}
  PROVE  StatRow(acc)[f] = StatRow(other)[f]
<1>1. /\ acc.trades = other.trades /\ acc.volume = other.volume /\ acc.weighted = other.weighted
      /\ acc.min = other.min /\ acc.max = other.max
  BY DEF Told
<1>2. /\ StatRow(acc).trades = acc.trades /\ StatRow(other).trades = other.trades
      /\ StatRow(acc).min = acc.min /\ StatRow(other).min = other.min
      /\ StatRow(acc).max = acc.max /\ StatRow(other).max = other.max
      /\ StatRow(acc).volume = acc.volume /\ StatRow(other).volume = other.volume
  BY DEF StatRow
<1>3. StatRow(acc).vwap = StatRow(other).vwap
  BY <1>1 DEF StatRow
<1> QED BY <1>1, <1>2, <1>3

\* Without fill the filler hands on what the resampler delivers.
LEMMA BarsWithoutFill ==
  ASSUME FitBuckets, ~query.fill, NEW ticks \in Seq(Trade), NEW bars, BarsOfBuckets(bars, ticks)
  PROVE  BarsOfBuckets(FillerOf(query, bars).out, ticks)
<1>1. PICK out : out = FillerOf(query, bars).out
  OBVIOUS
<1>2. bars \in Seq(BarType) /\ InOrder(bars) /\ AreBuckets(bars, ticks) /\ TimesOf(bars) = StartsOf(ticks)
  BY DEF BarsOfBuckets
<1>3. FilledUp(out, bars)
  BY <1>1, <1>2, FillerFills
<1>4. EmptyBuckets(TimesOf(bars)) = {}
  BY DEF EmptyBuckets
<1>5. out \in Seq(BarType) /\ InOrder(out) /\ TimesOf(out) = StartsOf(ticks)
  BY <1>2, <1>3, <1>4 DEF FilledUp
<1>6. AreBuckets(out, ticks)
  <2>1. SUFFICES ASSUME NEW j \in 1..Len(out)
                 PROVE  out[j] = BarAt(out[j].time, TicksIn(ticks, out[j].time))
    BY DEF AreBuckets
  <2>2. out[j].time \in TimesOf(out)
    BY <1>5 DEF TimesOf
  <2>3. IsDue(out[j], bars)
    BY <1>3 DEF FilledUp
  <2>4. PICK i \in 1..Len(bars) : out[j] = bars[i]
    BY <1>2, <1>5, <2>2, <2>3 DEF IsDue
  <2> QED BY <1>2, <2>4 DEF AreBuckets
<1> QED BY <1>1, <1>5, <1>6 DEF BarsOfBuckets

LEMMA StatsAgree ==
  ASSUME FitQueries, IInv, SourceInOrder, StatInv
  PROVE  StatAgrees
<1> SUFFICES ASSUME phase = "done", query.source = "ticks", ~query.fill,
                    \A i \in DOMAIN KeptTicks : Today(KeptTicks[i]).size.d = 1,
                    NEW x \in {"trades", "min", "max", "vwap", "volume"}
             PROVE  StatOfBars(RawBars, Adjuster(ActionsOf(query)))[x] = StatRow(stat.acc)[x]
  BY DEF StatAgrees
<1>1. query \in Queries /\ Accepted(query)
  BY DEF IInv
<1>2. FitBuckets /\ FitActions
  BY <1>1, FitAll
<1>3. PICK ticks : ticks = KeptOf(query, source)
  OBVIOUS
<1>4. ticks \in Seq(Printed) /\ Ordered(ticks) /\ FitTrades(ticks)
  BY <1>1, <1>3, KeptFit
<1>5. ticks \in Seq(Trade)
  BY <1>4 DEF Printed
<1>6. WholeTrades(ticks)
  <2>1. KeptTicks = ticks
    BY <1>3 DEF KeptTicks, KeptOf
  <2>2. \A i \in 1..Len(ticks) : Today(ticks[i]).size.d = 1
    BY <1>5, <2>1
  <2> QED BY <2>2 DEF WholeTrades, Today
<1>7. PICK bars : bars = ResampledFrom(ticks).out \o FinishRows(ResampledFrom(ticks).res)
  OBVIOUS
<1>8. BarsOfBuckets(bars, ticks)
  BY <1>2, <1>4, <1>7, ResamplerDelivers
<1>9. bars = Delivered(query, phase, source)
  BY <1>3, <1>7 DEF Delivered, ResamplerOf, ResampledFrom
<1>10. PICK raw : raw = FillerOf(query, bars).out
  OBVIOUS
<1>11. RawBars = raw
  BY <1>9, <1>10, RawBarsLaw
<1>12. BarsOfBuckets(raw, ticks)
  BY <1>2, <1>5, <1>8, <1>10, BarsWithoutFill
<1>13. Len(raw) \in Nat
  BY <1>12 DEF BarsOfBuckets
<1>14. PICK f : /\ IsStat(f, raw, Adjuster(ActionsOf(query)))
                /\ StatOfBars(raw, Adjuster(ActionsOf(query))) = StatRow(f[Len(raw)].acc)
  BY <1>13, StatRun
<1>15. Told(f[Len(raw)].acc, ScaledTicks(ActionsOf(query), ticks))
  BY <1>2, <1>4, <1>5, <1>6, <1>12, <1>14, BarsTold
<1>16. Told(stat.acc, ScaledTicks(ActionsOf(query), ticks))
  <2>1. StatTold(query, stat, ticks)
    BY <1>3 DEF StatInv
  <2> QED BY <2>1 DEF StatTold
<1>17. StatRow(f[Len(raw)].acc)[x] = StatRow(stat.acc)[x]
  BY <1>15, <1>16, ToldAlike
<1> QED BY <1>11, <1>14, <1>17

\* The summary row of a query's ticks is that of the bars they resample into,
\* adjusted each on its own, for every query, hours, prices, sizes and actions:
\* as many trades of as many shares, at the same prices, the same average.
THEOREM SummariesAgree ==
  ASSUME FitQueries
  PROVE  Spec => []StatAgrees
<1>1. IInv /\ SourceInOrder /\ StatInv => StatAgrees
  BY StatsAgree
<1>2. Spec => []SourceInOrder
  BY OrderStart, OrderStep, PTL DEF Spec
<1>3. Spec => []StatInv
  BY <1>2, ChainInvariant, StatStart, StatStep, PTL DEF Spec
<1> QED BY <1>1, <1>2, <1>3, ChainInvariant, PTL
=============================================================================
