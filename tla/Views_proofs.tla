---------------------------- MODULE Views_proofs ----------------------------
(***************************************************************************)
(* What is shown of a source, for any canvas, ladder, file and query: the  *)
(* labels of the time axis, the pixels that a terminal draws, and the      *)
(* overview of a file.                                                     *)
(***************************************************************************)
EXTENDS Views, Analysis_proofs, FiniteSetTheorems

-----------------------------------------------------------------------------
(***************************************************************************)
(* Lengths are integers, and a character has some.                         *)
(***************************************************************************)
LEMMA RoundType ==
  ASSUME NEW q \in Positive
  PROVE  Round(q) \in Int /\ Round(q) >= 0
<1>1. q.n \in Nat \ {0} /\ q.d \in Nat \ {0}
  BY DEF Positive
<1>2. PICK a \in Nat : a = 2 * q.n + q.d
  BY <1>1
<1>3. PICK b \in Nat \ {0} : b = 2 * q.d
  BY <1>1
<1>4. PICK r \in Int : r = a \div b
  BY <1>2, <1>3
<1>5. a < b * r + b
  <2>1. a \in Int
    OBVIOUS
  <2> QED BY <1>4, <2>1, Division
<1>6. r >= 0
  <2>1. CASE r <= -1
    <3>1. b * r + b = b * (r + 1)
      <4>1. b \in Int /\ 1 \in Int /\ b * 1 = b
        BY <1>3
      <4> QED BY <4>1, Multiples
    <3>2. b * (r + 1) <= 0
      BY <1>3, <2>1
    <3> QED BY <1>2, <1>5, <3>1, <3>2
  <2> QED BY <2>1
<1> QED BY <1>2, <1>3, <1>4, <1>6 DEF Round

LEMMA ScaleType == Scale \in Positive
<1>1. /\ Height \in Int /\ Height > 0 /\ Width \in Int /\ Width > 0
      /\ 1080 \in Nat /\ 1080 > 0 /\ 1920 \in Nat /\ 1920 > 0
  BY ChartAssumption
<1>2. Quotient(Height, 1080) \in Positive /\ Quotient(Width, 1920) \in Positive
  BY <1>1, QuotientType
<1> QED BY <1>2 DEF Scale

LEMMA ScaledType ==
  ASSUME NEW length \in Nat
  PROVE  Scaled(length) \in Int
<1>1. Scale.n \in Nat \ {0} /\ Scale.d \in Nat \ {0}
  BY ScaleType DEF Positive
<1>2. length * Scale.n \in Int
  BY <1>1
<1> QED BY <1>1, <1>2 DEF Scaled

LEMMA CharWidthType == CharWidth \in Nat /\ CharWidth >= 8
<1>1. Quotient(8, 5) \in Positive
  BY QuotientType
<1>2. Times(Quotient(8, 5), Scale) \in Positive
  BY <1>1, ScaleType, TimesPositive
<1>3. PICK r \in Int : r = Round(Times(Quotient(8, 5), Scale))
  BY <1>2, RoundType
<1>4. ScaledRound(Quotient(8, 5)) = IF 1 >= r THEN 1 ELSE r
  BY <1>3, MaxPair DEF ScaledRound
<1> QED BY <1>3, <1>4 DEF CharWidth

LEMMA LeftType == Left \in Int
<1>1. Scaled(8) \in Int
  BY ScaledType
<1>2. LabelChars \in Int /\ CharWidth \in Int
  BY ChartAssumption, CharWidthType
<1>3. LabelChars * CharWidth \in Int
  BY <1>2
<1> QED BY <1>1, <1>3 DEF Left

LEMMA PlotWidthType == PlotWidth \in Nat \ {0}
<1>1. Scaled(14) \in Int /\ Left \in Int /\ Width \in Int
  BY ScaledType, LeftType, ChartAssumption
<1>2. PICK a \in Int : a = Width - Left - Scaled(14)
  BY <1>1
<1>3. PlotWidth = IF 1 >= a THEN 1 ELSE a
  BY <1>2, MaxPair DEF PlotWidth
<1> QED BY <1>2, <1>3

LEMMA XOfType ==
  ASSUME NEW n \in Nat, NEW i \in 1..n
  PROVE  XOf(i, n) \in Int
<1>1. PICK a \in Nat \ {0} : a = 2 * i - 1
  OBVIOUS
<1>2. PICK b \in Nat \ {0} : b = PlotWidth
  BY PlotWidthType
<1>3. a * b \in Nat \ {0}
  BY MultipleMod
<1>4. a * b \in Int /\ a * b > 0 /\ 2 * n \in Nat /\ 2 * n > 0
  BY <1>3
<1>5. Quotient(a * b, 2 * n) \in Positive
  BY <1>4, QuotientType
<1>6. Round(Quotient(a * b, 2 * n)) \in Int
  BY <1>5, RoundType
<1> QED BY <1>1, <1>2, <1>6, LeftType DEF XOf

-----------------------------------------------------------------------------
(***************************************************************************)
(* One label: what is placed, and how a date's place differs from that of  *)
(* the clock it replaces.                                                  *)
(***************************************************************************)
Room(width) == Width - width - Scaled(8)

PlaceOf(x, room) ==
    IF x <= room THEN IF 0 >= x THEN 0 ELSE x
    ELSE IF 0 >= room THEN 0 ELSE room

LEMMA PlacedLaw ==
  ASSUME NEW bars, Len(bars) \in Nat, NEW i \in 1..Len(bars), NEW shows,
         LabelWidth[shows] \in Nat
  PROVE  Placed(bars, i, shows)
            = [bar |-> i, shows |-> shows,
               x |-> PlaceOf(XOf(i, Len(bars)), Room(CharWidth * LabelWidth[shows])),
               width |-> CharWidth * LabelWidth[shows]]
<1> DEFINE x == XOf(i, Len(bars))
           width == CharWidth * LabelWidth[shows]
           room == Room(width)
           least == IF x <= room THEN x ELSE room
<1>1. x \in Int
  BY XOfType
<1>2. CharWidth \in Nat /\ Width \in Int /\ Scaled(8) \in Int
  BY CharWidthType, ChartAssumption, ScaledType
<1>3. width \in Nat
  BY <1>2
<1>4. room \in Int
  <2> HIDE DEF width
  <2> QED BY <1>2, <1>3 DEF Room
<1>5. Placed(bars, i, shows)
         = [bar |-> i, shows |-> shows, x |-> Max({0, Min({x, room})}), width |-> width]
  BY DEF Placed, Room
<1> HIDE DEF x, width, room
<1>6. Min({x, room}) = least /\ least \in Int
  BY <1>1, <1>4, MinPair
<1>7. Max({0, least}) = IF 0 >= least THEN 0 ELSE least
  <2> HIDE DEF least
  <2> QED BY <1>6, MaxPair
<1>8. Max({0, Min({x, room})}) = PlaceOf(x, room)
  BY <1>1, <1>4, <1>6, <1>7 DEF PlaceOf
<1> QED BY <1>5, <1>8 DEF x, width, room

\* A date instead of a clock is a character wider and at most as much further to
\* the left: because it is pushed back from the edge, if it moves at all.
DatesClock(d, c) ==
    /\ c.x \in Nat /\ d.x \in Nat /\ c.width \in Nat
    /\ d.width = c.width + CharWidth /\ c.width >= CharWidth
    /\ d.x <= c.x /\ c.x <= d.x + CharWidth
    /\ d.x = c.x \/ d.x + d.width = Width - Scaled(8) \/ c.x < CharWidth

LEMMA DateForClock ==
  ASSUME NEW bars, Len(bars) \in Nat, NEW i \in 1..Len(bars)
  PROVE  DatesClock(Placed(bars, i, "date"), Placed(bars, i, "clock"))
<1> DEFINE c == Placed(bars, i, "clock")
           d == Placed(bars, i, "date")
<1>1. PICK x \in Int : x = XOf(i, Len(bars))
  BY XOfType
<1>2. PICK s \in Int : s = Scaled(8)
  BY ScaledType
<1>3. PICK u \in Nat : u = CharWidth /\ u >= 8
  BY CharWidthType
<1>4. LabelWidth["clock"] = 5 /\ LabelWidth["date"] = 6
  BY DEF LabelWidth
<1>5. c.x = PlaceOf(x, Room(u * 5)) /\ c.width = u * 5
  BY <1>1, <1>3, <1>4, PlacedLaw
<1>6. d.x = PlaceOf(x, Room(u * 6)) /\ d.width = u * 6
  BY <1>1, <1>3, <1>4, PlacedLaw
<1>7. PICK w \in Int : w = Width
  BY ChartAssumption
<1> DEFINE l == w - 5 * u - s
<1>8. Room(u * 5) = l /\ Room(u * 6) = l - u /\ u * 5 = 5 * u /\ u * 6 = 6 * u /\ l \in Int
  BY <1>2, <1>3, <1>7 DEF Room
<1> HIDE DEF c, d
<1>9. c.x = PlaceOf(x, l) /\ d.x = PlaceOf(x, l - u) /\ c.width = 5 * u /\ d.width = 6 * u
  BY <1>5, <1>6, <1>8
<1>10. /\ c.x \in Nat /\ d.x \in Nat /\ d.x <= c.x /\ c.x <= d.x + u
       /\ d.x = c.x \/ d.x = l - u \/ c.x < u
  <2> HIDE DEF l
  <2> QED BY <1>3, <1>8, <1>9 DEF PlaceOf
<1>11. d.x = l - u => d.x + d.width = Width - Scaled(8)
  BY <1>2, <1>3, <1>7, <1>9
<1> QED BY <1>3, <1>9, <1>10, <1>11 DEF DatesClock, c, d

\* What a label shows.  A clock is for a time of the day of the one before.
LEMMA LabelOfLaw ==
  ASSUME NEW gran, NEW t, NEW s
  PROVE  /\ gran.unit = "clock" =>
               /\ LabelOf(gran, t, <<>>) = "date"
               /\ LabelOf(gran, t, <<s>>) = IF t \div (Day * 1) = s \div (Day * 1)
                                           THEN "clock" ELSE "date"
         /\ gran.unit # "clock" =>
               /\ LabelOf(gran, t, <<>>) # "clock" /\ LabelOf(gran, t, <<s>>) # "clock"
               /\ gran.unit # "month" =>
                     /\ LabelOf(gran, t, <<>>) \in {"date", "year"}
                     /\ LabelOf(gran, t, <<s>>) = LabelOf(gran, t, <<>>)
         /\ LabelWidth[LabelOf(gran, t, <<>>)] \in Nat
         /\ LabelWidth[LabelOf(gran, t, <<s>>)] \in Nat
<1>1. Calendar["day"] = 1
  BY ChartAssumption
<1>2. <<s>> # <<>> /\ <<s>>[1] = s
  OBVIOUS
<1>3. CASE gran.unit = "clock"
  <2>1. LabelOf(gran, t, <<>>) = "date"
    BY <1>3 DEF LabelOf
  <2>2. LabelOf(gran, t, <<s>>) = IF t \div (Day * 1) = s \div (Day * 1) THEN "clock" ELSE "date"
    BY <1>1, <1>2, <1>3 DEF LabelOf
  <2> QED BY <1>3, <2>1, <2>2 DEF LabelWidth
<1>4. CASE gran.unit = "month"
  <2>1. \A before : LabelOf(gran, t, before) \in {"month", "month_of_year"}
    BY <1>4 DEF LabelOf
  <2>2. \A before : LabelOf(gran, t, before) = "month" \/ LabelOf(gran, t, before) = "month_of_year"
    BY <2>1
  <2> QED BY <1>4, <2>2 DEF LabelWidth
<1>5. CASE gran.unit = "year"
  <2>1. \A before : LabelOf(gran, t, before) = "year"
    BY <1>5 DEF LabelOf
  <2> QED BY <1>5, <2>1 DEF LabelWidth
<1>6. CASE gran.unit \notin {"clock", "month", "year"}
  <2>1. \A before : LabelOf(gran, t, before) = "date"
    BY <1>6 DEF LabelOf
  <2> QED BY <1>6, <2>1 DEF LabelWidth
<1> QED BY <1>3, <1>4, <1>5, <1>6

-----------------------------------------------------------------------------
(***************************************************************************)
(* select_nonoverlapping.                                                  *)
(***************************************************************************)
FirstKept(labels) == IF Len(labels) >= 2 /\ ~Clear(labels[1], labels[2]) THEN 2 ELSE 1

KeptNext(labels, n, before) ==
    IF n < FirstKept(labels) THEN <<>>
    ELSE IF before = <<>> \/ Clear(Last(before), labels[n])
    THEN Append(before, labels[n]) ELSE before

IsKeeping(f, S, labels) ==
    /\ f \in [0..Len(labels) -> Seq(S)]
    /\ f[0] = <<>>
    /\ \A n \in 1..Len(labels) : f[n] = KeptNext(labels, n, f[n - 1])

LEMMA KeptRun ==
  ASSUME NEW S, NEW labels \in Seq(S)
  PROVE  \E f : IsKeeping(f, S, labels) /\ SelectNonoverlapping(labels) = f[Len(labels)]
<1> DEFINE N == Len(labels)
           first == FirstKept(labels)
           step == [x \in (1..N) \X Seq(S) |-> KeptNext(labels, x[1], x[2])]
           IsKept(f) == f = [n \in 0..N |->
                               IF n < first THEN <<>>
                               ELSE LET before == f[n - 1]
                                    IN  IF before = <<>> \/ Clear(Last(before), labels[n])
                                        THEN Append(before, labels[n]) ELSE before]
<1>1. N \in Nat /\ <<>> \in Seq(S) /\ \A n \in 1..N : labels[n] \in S
  OBVIOUS
<1>2. step \in [(1..N) \X Seq(S) -> Seq(S)]
  <2> SUFFICES ASSUME NEW n \in 1..N, NEW s \in Seq(S) PROVE KeptNext(labels, n, s) \in Seq(S)
    OBVIOUS
  <2>1. labels[n] \in S
    BY <1>1
  <2>2. Append(s, labels[n]) \in Seq(S)
    BY <2>1
  <2> QED BY <1>1, <2>2 DEF KeptNext
<1>3. PICK f : IsRun(f, N, Seq(S), <<>>, step)
  <2> HIDE DEF step, N
  <2> QED BY <1>1, <1>2, Recursion
<1>4. /\ f \in [0..N -> Seq(S)] /\ f[0] = <<>>
      /\ \A n \in 1..N : f[n] = KeptNext(labels, n, f[n - 1])
  <2>1. /\ f \in [0..N -> Seq(S)] /\ f[0] = <<>>
        /\ \A n \in 1..N : f[n] = step[<<n, f[n - 1]>>]
    BY <1>3 DEF IsRun
  <2>2. \A n \in 1..N : f[n - 1] \in Seq(S)
    BY <1>1, <2>1
  <2>3. \A n \in 1..N : <<n, f[n - 1]>> \in (1..N) \X Seq(S)
    BY <2>2
  <2> QED BY <2>1, <2>3
<1>5. first \in {1, 2}
  BY DEF FirstKept
<1>6. IsKept(f)
  <2> HIDE DEF N, first
  <2>1. f = [n \in 0..N |-> f[n]]
    BY <1>4
  <2>2. \A n \in 0..N : f[n] = IF n < first THEN <<>>
                               ELSE LET before == f[n - 1]
                                    IN  IF before = <<>> \/ Clear(Last(before), labels[n])
                                        THEN Append(before, labels[n]) ELSE before
    <3>1. \A n \in 0..N : n = 0 \/ n \in 1..N
      BY <1>1
    <3>2. 0 < first
      BY <1>5
    <3> QED BY <1>4, <3>1, <3>2, Zenon DEF KeptNext, first
  <2> QED BY <2>1, <2>2, Zenon
<1> DEFINE g == CHOOSE h : IsKept(h)
<1>7. IsKept(g)
  <2> HIDE DEF IsKept
  <2> QED BY <1>6
<1>8. SelectNonoverlapping(labels) = g[N]
  BY DEF SelectNonoverlapping, FirstKept
<1>9. f[N] = g[N]
  <2> HIDE DEF g, N
  <2>1. g[0] = <<>>
    <3>1. 0 < first /\ 0 \in 0..N
      BY <1>1, <1>5
    <3> QED BY <1>7, <3>1
  <2>2. \A n \in 1..N : g[n] = KeptNext(labels, n, g[n - 1])
    <3>1. \A n \in 1..N : n \in 0..N
      BY <1>1
    <3> HIDE DEF first
    <3> QED BY <1>7, <3>1, Zenon DEF KeptNext, first
  <2>3. StepAlike(f, g, N)
    BY <1>4, <2>1, <2>2, Zenon DEF StepAlike
  <2>4. N \in Nat
    BY <1>1
  <2> HIDE DEF IsKept, step
  <2> QED BY <2>3, <2>4, Determined
<1>10. IsKeeping(f, S, labels)
  BY <1>4 DEF IsKeeping
<1> QED BY <1>8, <1>9, <1>10

\* What is kept are labels, in their order, each of them clear of the next.
KeptOfFirst(kept, labels, n) ==
    /\ n >= FirstKept(labels) => kept # <<>>
    /\ \A k \in 1..Len(kept) : \E m \in 1..n : kept[k] = labels[m]
    /\ \A k \in 2..Len(kept) :
          Clear(kept[k - 1], kept[k]) /\ kept[k - 1].bar < kept[k].bar

LEMMA KeptLaw ==
  ASSUME NEW S, NEW labels \in Seq(S), labels # <<>>,
         \A i \in 1..Len(labels) : labels[i].bar \in Int,
         \A i, j \in 1..Len(labels) : i < j => labels[i].bar < labels[j].bar
  PROVE  /\ SelectNonoverlapping(labels) \in Seq(S)
         /\ SelectNonoverlapping(labels) # <<>>
         /\ KeptOfFirst(SelectNonoverlapping(labels), labels, Len(labels))
<1>1. PICK N \in Nat : N = Len(labels)
  OBVIOUS
<1>2. N >= 1 /\ FirstKept(labels) \in 1..N
  BY <1>1 DEF FirstKept
<1>3. PICK f : IsKeeping(f, S, labels) /\ SelectNonoverlapping(labels) = f[N]
  BY <1>1, KeptRun
<1>4. /\ f \in [0..N -> Seq(S)] /\ f[0] = <<>>
      /\ \A n \in 1..N : f[n] = KeptNext(labels, n, f[n - 1])
  BY <1>1, <1>3 DEF IsKeeping
<1> DEFINE Good == {n \in 0..N : KeptOfFirst(f[n], labels, n)}
<1>5. 0 \in Good
  <2>1. Len(f[0]) = 0 /\ ~(0 >= FirstKept(labels)) /\ 0 \in 0..N
    BY <1>1, <1>2, <1>4
  <2> QED BY <2>1 DEF KeptOfFirst
<1>6. ASSUME NEW n \in 1..N, n - 1 \in Good
      PROVE  n \in Good
  <2> DEFINE s == f[n - 1]
             e == labels[n]
  <2>1. s \in Seq(S) /\ e \in S /\ KeptOfFirst(s, labels, n - 1)
    <3>1. n - 1 \in 0..N /\ n \in 1..Len(labels)
      BY <1>1
    <3>2. s \in Seq(S) /\ e \in S
      BY <1>4, <3>1
    <3> QED BY <1>6, <3>2
  <2>2. f[n] = KeptNext(labels, n, s)
    BY <1>4
  <2> HIDE DEF s, e
  <2>3. PICK l \in Nat : l = Len(s)
    BY <2>1
  <2>4. \A k \in 1..l : \E m \in 1..n : s[k] = labels[m]
    BY <2>1, <2>3 DEF KeptOfFirst
  <2>5. CASE n < FirstKept(labels)
    <3>1. f[n] = <<>> /\ Len(<<>>) = 0
      BY <2>2, <2>5 DEF KeptNext
    <3>2. ~(n >= FirstKept(labels))
      BY <1>2, <2>5
    <3>3. KeptOfFirst(<<>>, labels, n)
      BY <3>1, <3>2 DEF KeptOfFirst
    <3> QED BY <3>1, <3>3
  <2>6. CASE ~(n < FirstKept(labels)) /\ (s = <<>> \/ Clear(Last(s), e))
    <3> DEFINE more == Append(s, e)
    <3>1. f[n] = more
      BY <2>2, <2>6 DEF KeptNext, e
    <3>2. /\ Len(more) = l + 1 /\ more[l + 1] = e /\ more # <<>>
          /\ \A k \in 1..l : more[k] = s[k]
      BY <2>1, <2>3, AppendProperties
    <3> HIDE DEF more
    <3>3. ASSUME NEW k \in 1..(l + 1) PROVE \E m \in 1..n : more[k] = labels[m]
      <4>1. CASE k = l + 1
        BY <3>2, <4>1 DEF e
      <4>2. CASE k # l + 1
        <5>1. k \in 1..l
          BY <2>3, <4>2
        <5> QED BY <2>4, <3>2, <5>1
      <4> QED BY <4>1, <4>2
    <3>4. ASSUME NEW k \in 2..(l + 1)
          PROVE  Clear(more[k - 1], more[k]) /\ more[k - 1].bar < more[k].bar
      <4>1. CASE k = l + 1
        <5>1. s # <<>> /\ k - 1 = l /\ l \in 1..l
          BY <2>3, <4>1
        <5>2. more[k - 1] = s[l] /\ more[k] = e
          BY <3>2, <4>1, <5>1
        <5>3. Clear(s[l], e)
          BY <2>3, <2>6, <5>1 DEF Last
        <5>4. PICK m \in 1..(n - 1) : s[l] = labels[m]
          BY <2>1, <2>3, <5>1 DEF KeptOfFirst
        <5>5. m \in 1..Len(labels) /\ n \in 1..Len(labels) /\ m < n
          BY <1>1
        <5>6. s[l].bar < e.bar
          BY <5>4, <5>5 DEF e
        <5> QED BY <5>2, <5>3, <5>6
      <4>2. CASE k # l + 1
        <5>1. k \in 2..l /\ k \in 1..l /\ k - 1 \in 1..l
          BY <2>3, <4>2
        <5>2. more[k] = s[k] /\ more[k - 1] = s[k - 1]
          BY <3>2, <5>1
        <5>3. Clear(s[k - 1], s[k]) /\ s[k - 1].bar < s[k].bar
          BY <2>1, <2>3, <5>1 DEF KeptOfFirst
        <5> QED BY <5>2, <5>3
      <4> QED BY <4>1, <4>2
    <3>5. KeptOfFirst(more, labels, n)
      BY <3>2, <3>3, <3>4 DEF KeptOfFirst
    <3> QED BY <3>1, <3>5
  <2>7. CASE ~(n < FirstKept(labels)) /\ ~(s = <<>> \/ Clear(Last(s), e))
    <3>1. f[n] = s
      BY <2>2, <2>7 DEF KeptNext, e
    <3>2. KeptOfFirst(s, labels, n)
      BY <2>1, <2>3, <2>4, <2>7 DEF KeptOfFirst
    <3> QED BY <3>1, <3>2
  <2> QED BY <2>5, <2>6, <2>7
<1>7. N \in Good
  <2>1. 0..N \subseteq Good
    <3> HIDE DEF Good
    <3> QED BY <1>5, <1>6, Induction
  <2> QED BY <2>1
<1>8. f[N] \in Seq(S) /\ KeptOfFirst(f[N], labels, N)
  BY <1>4, <1>7
<1>9. f[N] # <<>>
  BY <1>2, <1>8 DEF KeptOfFirst
<1> QED BY <1>1, <1>3, <1>8, <1>9

-----------------------------------------------------------------------------
(***************************************************************************)
(* The ticks of the axis and their labels.                                 *)
(***************************************************************************)
Rising(ticks) == \A i, j \in 1..Len(ticks) : i < j => ticks[i] < ticks[j]

LEMMA TicksLaw ==
  ASSUME NEW T, NEW bars \in Seq(T), bars # <<>>
  PROVE  /\ TimeTicks(bars) \in Seq(1..Len(bars))
         /\ TimeTicks(bars) # <<>>
         /\ Rising(TimeTicks(bars))
<1>1. PICK N \in Nat : N = Len(bars)
  OBVIOUS
<1>2. N >= 1 /\ DOMAIN bars = 1..N
  BY <1>1
<1> DEFINE all == [i \in 1..N |-> i]
           gran == Granularity(bars)
           P == {i \in 1..N : i = 1 \/ PeriodOf(gran, bars[i].time)
                                       # PeriodOf(gran, bars[i - 1].time)}
<1>3. TimeTicks(bars) = RowsAt(all, P)
  BY <1>2 DEF TimeTicks
<1>4. all \in Seq(1..N) /\ Len(all) = N /\ \A n \in 1..N : all[n] = n
  OBVIOUS
<1>5. 1 \in P
  BY <1>2
<1> HIDE DEF all, P
<1>6. PICK f : IsTaking(f, 1..N, all, P) /\ RowsAt(all, P) = f[N]
  BY <1>4, RowsAtRun
<1>7. /\ f \in [0..N -> Seq(1..N)] /\ f[0] = <<>>
      /\ \A n \in 1..N : f[n] = IF n \in P THEN Append(f[n - 1], n) ELSE f[n - 1]
  BY <1>4, <1>6 DEF IsTaking
<1> DEFINE Good == {n \in 0..N : /\ n >= 1 => f[n] # <<>>
                                 /\ \A k \in 1..Len(f[n]) : f[n][k] <= n
                                 /\ Rising(f[n])}
<1>8. 0 \in Good
  <2>1. Len(f[0]) = 0 /\ 0 \in 0..N
    BY <1>1, <1>7
  <2> QED BY <2>1 DEF Rising
<1>9. ASSUME NEW n \in 1..N, n - 1 \in Good
      PROVE  n \in Good
  <2> DEFINE s == f[n - 1]
  <2>1. /\ s \in Seq(1..N)
        /\ n - 1 >= 1 => s # <<>>
        /\ \A k \in 1..Len(s) : s[k] <= n - 1
        /\ Rising(s)
    BY <1>7, <1>9
  <2>2. f[n] = IF n \in P THEN Append(s, n) ELSE s
    BY <1>7
  <2> HIDE DEF s
  <2>3. PICK l \in Nat : l = Len(s) /\ \A k \in 1..l : s[k] \in 1..N
    BY <2>1
  <2>4. CASE n \in P
    <3> DEFINE more == Append(s, n)
    <3>1. /\ Len(more) = l + 1 /\ more[l + 1] = n /\ more # <<>>
          /\ \A k \in 1..l : more[k] = s[k]
      BY <2>1, <2>3, AppendProperties
    <3>2. f[n] = more
      BY <2>2, <2>4
    <3> HIDE DEF more
    <3>3. ASSUME NEW k \in 1..(l + 1) PROVE more[k] <= n /\ (k <= l => more[k] < n)
      <4>1. CASE k = l + 1
        BY <2>3, <3>1, <4>1
      <4>2. CASE k # l + 1
        <5>1. k \in 1..l
          BY <2>3, <4>2
        <5> QED BY <2>1, <2>3, <3>1, <5>1
      <4> QED BY <4>1, <4>2
    <3>4. ASSUME NEW i \in 1..(l + 1), NEW j \in 1..(l + 1), i < j
          PROVE  more[i] < more[j]
      <4>1. CASE j = l + 1
        <5>1. i <= l
          BY <2>3, <3>4, <4>1
        <5> QED BY <3>1, <3>3, <4>1, <5>1
      <4>2. CASE j # l + 1
        <5>1. i \in 1..l /\ j \in 1..l
          BY <2>3, <3>4, <4>2
        <5>2. s[i] < s[j]
          BY <2>1, <2>3, <3>4, <5>1 DEF Rising
        <5> QED BY <3>1, <5>1, <5>2
      <4> QED BY <4>1, <4>2
    <3>5. Rising(more)
      BY <3>1, <3>4 DEF Rising
    <3> QED BY <3>1, <3>2, <3>3, <3>5
  <2>5. CASE n \notin P
    <3>1. n >= 2
      BY <1>5, <2>5
    <3>2. \A k \in 1..Len(s) : s[k] <= n
      BY <2>1, <2>3
    <3> QED BY <2>1, <2>2, <2>5, <3>1, <3>2
  <2> QED BY <2>4, <2>5
<1>10. N \in Good
  <2>1. 0..N \subseteq Good
    <3> HIDE DEF Good
    <3> QED BY <1>8, <1>9, Induction
  <2> QED BY <2>1
<1>11. f[N] \in Seq(1..N) /\ f[N] # <<>> /\ Rising(f[N])
  BY <1>2, <1>7, <1>10
<1> QED BY <1>1, <1>3, <1>6, <1>11

ShowsAt(bars, ticks, k) ==
    LabelOf(Granularity(bars), bars[ticks[k]].time,
            IF k = 1 THEN <<>> ELSE <<bars[ticks[k - 1]].time>>)

LEMMA LabelTicksLaw ==
  ASSUME NEW bars, NEW n \in Nat, NEW ticks, DOMAIN ticks = 1..n
  PROVE  LabelTicks(bars, ticks)
            = [k \in 1..n |-> Placed(bars, ticks[k], ShowsAt(bars, ticks, k))]
<1> DEFINE S == {Placed(bars, ticks[k], ShowsAt(bars, ticks, k)) : k \in 1..n}
           labels == [k \in 1..n |-> Placed(bars, ticks[k], ShowsAt(bars, ticks, k))]
<1>1. LabelTicks(bars, ticks) = labels \o <<>>
  BY DEF LabelTicks, Listed, ShowsAt
<1>2. labels \in Seq(S)
  OBVIOUS
<1> HIDE DEF labels
<1>3. labels \o <<>> = labels
  BY <1>2
<1> QED BY <1>1, <1>3 DEF labels

LEMMA ShowsType ==
  ASSUME NEW bars, NEW ticks, NEW k
  PROVE  LabelWidth[ShowsAt(bars, ticks, k)] \in Nat
BY LabelOfLaw DEF ShowsAt

LEMMA DaysInOrder ==
  ASSUME NEW s \in Int, NEW t \in Int, s <= t
  PROVE  DayOf(s) \in Int /\ DayOf(t) \in Int /\ DayOf(s) <= DayOf(t)
<1>1. Day \in Nat \ {0}
  BY BarsAssumption
<1>2. PICK a \in Int : a = s \div Day /\ Day * a <= s
  BY <1>1, Division
<1>3. PICK b \in Int : b = t \div Day /\ t < Day * b + Day
  BY <1>1, Division
<1>4. a <= b
  <2>1. CASE a >= b + 1
    <3>1. Day * a - Day * b = Day * (a - b)
      BY <1>1, Multiples
    <3>2. Day * (a - b) >= Day
      <4>1. \A c \in Nat \ {0} : Day * c >= Day
        BY <1>1
      <4> QED BY <2>1, <4>1
    <3>3. Day * a \in Int /\ Day * b \in Int
      BY <1>1
    <3> QED BY <1>1, <1>2, <1>3, <3>1, <3>2, <3>3
  <2> QED BY <2>1
<1> QED BY <1>2, <1>3, <1>4 DEF DayOf

Relabels(bars, ticks, kept, at, k) ==
    /\ Granularity(bars).unit # "month" =>
          \/ ShowsAt(bars, kept, k) = ShowsAt(bars, ticks, at[k])
          \/ /\ ShowsAt(bars, ticks, at[k]) = "clock"
             /\ ShowsAt(bars, kept, k) = "date"
    /\ ShowsAt(bars, kept, k) = "clock" =>
          /\ k >= 2
          /\ DayOf(bars[kept[k - 1]].time) = DayOf(bars[kept[k]].time)
          /\ ShowsAt(bars, kept, k - 1) \in {"clock", "date"}

\* The label that is drawn for a tick is the one it was kept for, or a date in
\* place of a clock; and a clock comes after a label of its day.
LEMMA RelabelledLaw ==
  ASSUME NEW T, NEW bars \in Seq(T), bars # <<>>,
         \A i \in 1..Len(bars) : bars[i].time \in Int, Ascending(bars),
         NEW ticks \in Seq(1..Len(bars)), Rising(ticks),
         NEW kept \in Seq(1..Len(bars)),
         NEW at \in [1..Len(kept) -> 1..Len(ticks)],
         \A k \in 1..Len(kept) : kept[k] = ticks[at[k]],
         \A k \in 2..Len(kept) : kept[k - 1] < kept[k],
         NEW k \in 1..Len(kept)
  PROVE  Relabels(bars, ticks, kept, at, k)
<1> DEFINE gran == Granularity(bars)
           Time(i) == bars[i].time
           new == ShowsAt(bars, kept, k)
           old == ShowsAt(bars, ticks, at[k])
<1>1. /\ kept[k] \in 1..Len(bars) /\ at[k] \in 1..Len(ticks) /\ kept[k] = ticks[at[k]]
      /\ Len(kept) \in Nat /\ Len(ticks) \in Nat /\ Len(bars) \in Nat
  <2>1. Len(kept) \in Nat /\ Len(ticks) \in Nat /\ Len(bars) \in Nat
    OBVIOUS
  <2>2. kept[k] \in 1..Len(bars)
    OBVIOUS
  <2>3. at[k] \in 1..Len(ticks)
    OBVIOUS
  <2>4. kept[k] = ticks[at[k]]
    OBVIOUS
  <2> QED BY <2>1, <2>2, <2>3, <2>4
<1>2. new = IF k = 1 THEN LabelOf(gran, Time(kept[k]), <<>>)
            ELSE LabelOf(gran, Time(kept[k]), <<Time(kept[k - 1])>>)
  BY DEF ShowsAt
<1>3. old = IF at[k] = 1 THEN LabelOf(gran, Time(kept[k]), <<>>)
            ELSE LabelOf(gran, Time(kept[k]), <<Time(ticks[at[k] - 1])>>)
  BY <1>1 DEF ShowsAt
<1>4. \A t : DayOf(t) = t \div (Day * 1)
  BY BarsAssumption DEF DayOf
<1> HIDE DEF gran, new, old
<1>5. CASE gran.unit = "clock"
  <2>1. ASSUME NEW t, NEW s
        PROVE  /\ LabelOf(gran, t, <<>>) = "date"
               /\ LabelOf(gran, t, <<s>>) = IF DayOf(t) = DayOf(s) THEN "clock" ELSE "date"
    <3>1. LabelOf(gran, t, <<>>) = "date"
      BY <1>5, LabelOfLaw
    <3>2. LabelOf(gran, t, <<s>>) = IF t \div (Day * 1) = s \div (Day * 1)
                                  THEN "clock" ELSE "date"
      BY <1>5, LabelOfLaw
    <3> QED BY <1>4, <3>1, <3>2
  <2>2. new \in {"clock", "date"} /\ old \in {"clock", "date"}
    BY <1>2, <1>3, <2>1, SMTT(30)
  <2>3. ASSUME new = "clock"
        PROVE  k >= 2 /\ DayOf(Time(kept[k - 1])) = DayOf(Time(kept[k]))
    <3>1. k # 1
      BY <1>2, <2>1, <2>3
    <3>2. DayOf(Time(kept[k - 1])) = DayOf(Time(kept[k]))
      BY <1>2, <2>1, <2>3, <3>1
    <3> QED BY <3>1, <3>2
  <2>4. ASSUME new = "clock" PROVE old = "clock"
    <3> DEFINE i == at[k]
               j == at[k - 1]
    <3>1. k \in 2..Len(kept) /\ k - 1 \in 1..Len(kept)
      <4>1. PICK n \in Nat : n = Len(kept)
        BY <1>1
      <4>2. k \in 1..n /\ k >= 2
        BY <2>3, <2>4, <4>1
      <4>3. k \in 2..n /\ k - 1 \in 1..n
        BY <4>2
      <4> QED BY <4>1, <4>3
    <3>2. kept[k - 1] < kept[k] /\ kept[k - 1] = ticks[j] /\ j \in 1..Len(ticks)
      BY <3>1
    <3>3. i \in 1..Len(ticks) /\ kept[k] = ticks[i]
      OBVIOUS
    <3> HIDE DEF i, j
    <3>4. ticks[i] \in 1..Len(bars) /\ ticks[j] \in 1..Len(bars)
      <4>1. \A m \in 1..Len(ticks) : ticks[m] \in 1..Len(bars)
        OBVIOUS
      <4> QED BY <3>2, <3>3, <4>1
    <3>5. j < i
      <4>1. CASE j = i
        BY <3>2, <3>3, <3>4, <4>1
      <4>2. CASE i < j
        <5>1. ticks[i] < ticks[j]
          BY <3>2, <3>3, <4>2 DEF Rising
        <5> QED BY <3>2, <3>3, <3>4, <5>1
      <4> QED BY <3>2, <3>3, <4>1, <4>2
    <3>6. i - 1 \in 1..Len(ticks) /\ j <= i - 1
      <4>1. PICK n \in Nat : n = Len(ticks)
        OBVIOUS
      <4>2. i \in 1..n /\ j \in 1..n
        BY <3>2, <3>3, <4>1
      <4>3. i - 1 \in 1..n /\ j <= i - 1
        BY <3>5, <4>2
      <4> QED BY <4>1, <4>3
    <3>7. ticks[i - 1] \in 1..Len(bars)
      <4>1. \A m \in 1..Len(ticks) : ticks[m] \in 1..Len(bars)
        OBVIOUS
      <4> QED BY <3>6, <4>1
    <3>8. ticks[j] = ticks[i - 1] \/ ticks[j] < ticks[i - 1]
      <4>1. CASE j = i - 1
        BY <4>1
      <4>2. CASE j < i - 1
        BY <3>2, <3>6, <4>2 DEF Rising
      <4> QED BY <3>2, <3>6, <4>1, <4>2
    <3>9. ticks[i - 1] < ticks[i]
      BY <3>3, <3>6 DEF Rising
    <3>10. Time(ticks[j]) \in Int /\ Time(ticks[i - 1]) \in Int /\ Time(ticks[i]) \in Int
      BY <3>4, <3>7
    <3>11. Time(ticks[j]) <= Time(ticks[i - 1]) /\ Time(ticks[i - 1]) <= Time(ticks[i])
      <4>1. \A x, y \in 1..Len(bars) : x < y => Time(x) <= Time(y)
        BY DEF Ascending
      <4> HIDE DEF Time
      <4>2. Time(ticks[i - 1]) <= Time(ticks[i])
        BY <3>4, <3>7, <3>9, <4>1
      <4>3. CASE ticks[j] = ticks[i - 1]
        <5>1. Time(ticks[j]) = Time(ticks[i - 1])
          BY <4>3
        <5> QED BY <3>10, <4>2, <5>1
      <4>4. CASE ticks[j] < ticks[i - 1]
        BY <3>4, <3>7, <4>1, <4>2, <4>4
      <4> QED BY <3>8, <4>3, <4>4
    <3> DEFINE a == DayOf(Time(ticks[j]))
               b == DayOf(Time(ticks[i - 1]))
               c == DayOf(Time(ticks[i]))
    <3>12. a <= b /\ b <= c /\ a \in Int /\ b \in Int /\ c \in Int
      <4> HIDE DEF Time
      <4> QED BY <3>10, <3>11, DaysInOrder
    <3>13. a = c
      BY <2>3, <2>4, <3>2, <3>3
    <3> HIDE DEF a, b, c
    <3>14. b = c
      BY <3>12, <3>13
    <3>15. i # 1
      BY <3>2, <3>3, <3>5
    <3>16. old = LabelOf(gran, Time(ticks[i]), <<Time(ticks[i - 1])>>)
      BY <1>3, <3>3, <3>15 DEF i
    <3> QED BY <2>1, <3>14, <3>16 DEF b, c
  <2>5. ASSUME new = "clock" PROVE ShowsAt(bars, kept, k - 1) \in {"clock", "date"}
    BY <2>1 DEF ShowsAt, gran
  <2> QED BY <2>2, <2>3, <2>4, <2>5 DEF new, old, gran, Relabels
<1>6. CASE gran.unit # "clock"
  <2>1. ASSUME NEW t, NEW s
        PROVE  LabelOf(gran, t, <<>>) # "clock" /\ LabelOf(gran, t, <<s>>) # "clock"
    <3>1. LabelOf(gran, t, <<>>) # "clock"
      BY <1>6, LabelOfLaw
    <3>2. LabelOf(gran, t, <<s>>) # "clock"
      BY <1>6, LabelOfLaw
    <3> QED BY <3>1, <3>2
  <2>2. new # "clock"
    BY <1>2, <2>1
  <2>3. ASSUME gran.unit # "month" PROVE new = old
    <3>1. ASSUME NEW t, NEW s PROVE LabelOf(gran, t, <<s>>) = LabelOf(gran, t, <<>>)
      BY <1>6, <2>3, LabelOfLaw
    <3> QED BY <1>2, <1>3, <3>1
  <2> QED BY <2>2, <2>3 DEF new, old, gran, Relabels
<1> QED BY <1>5, <1>6

\* A drawn label against the next one, when both were kept clear of each other.
LEMMA DrawnBeside ==
  ASSUME NEW p, NEW q, NEW a, NEW b, Clear(p, q),
         p.x \in Nat, p.width \in Nat, q.x \in Nat, q.width \in Nat,
         a = p \/ DatesClock(a, p),
         b = q \/ (DatesClock(b, q) /\ b.shows = "date")
  PROVE  a.x + a.width <= b.x + (IF /\ b.shows = "date"
                                    /\ b.x + b.width = Width - Scaled(8)
                                 THEN CharWidth ELSE 0)
<1>1. CharWidth \in Nat /\ CharWidth >= 8
  BY CharWidthType
<1>2. p.x + p.width + CharWidth <= q.x
  BY DEF Clear
<1>3. a.x \in Nat /\ a.width \in Nat /\ a.x + a.width <= p.x + p.width + CharWidth
  BY <1>1 DEF DatesClock
<1>4. a.x + a.width <= q.x
  BY <1>1, <1>2, <1>3
<1>5. CASE b = q
  BY <1>1, <1>3, <1>4, <1>5
<1>6. CASE DatesClock(b, q) /\ b.shows = "date"
  <2>1. /\ b.x \in Nat /\ q.x <= b.x + CharWidth
        /\ b.x = q.x \/ b.x + b.width = Width - Scaled(8) \/ q.x < CharWidth
    BY <1>6 DEF DatesClock
  <2>2. ~(q.x < CharWidth)
    BY <1>1, <1>2
  <2> QED BY <1>1, <1>3, <1>4, <1>6, <2>1, <2>2
<1> QED BY <1>5, <1>6

\* The axis of any bars in order can be read.
LEMMA AxisLaw ==
  ASSUME NEW T, NEW bars \in Seq(T), bars # <<>>,
         \A i \in 1..Len(bars) : bars[i].time \in Int, Ascending(bars)
  PROVE  CanBeRead(bars, TimeLabels(bars))
<1> DEFINE ticks == TimeTicks(bars)
           S == {Placed(bars, i, LabelOf(Granularity(bars), bars[i].time, b)) :
                    i \in 1..Len(bars), b \in {<<>>} \cup {<<bars[j].time>> : j \in 1..Len(bars)}}
           labels == LabelTicks(bars, ticks)
           kept == SelectNonoverlapping(labels)
           chosen == [k \in DOMAIN kept |-> kept[k].bar]
           drawn == LabelTicks(bars, chosen)
<1>1. TimeLabels(bars) = drawn
  BY DEF TimeLabels, Relabelled
<1>2. PICK N \in Nat : N = Len(bars) /\ N >= 1
  OBVIOUS
<1>3. ticks \in Seq(1..N) /\ ticks # <<>> /\ Rising(ticks)
  BY <1>2, TicksLaw
<1> HIDE DEF ticks
<1>4. PICK m \in Nat : m = Len(ticks) /\ m >= 1 /\ DOMAIN ticks = 1..m
  BY <1>3
<1>5. labels = [k \in 1..m |-> Placed(bars, ticks[k], ShowsAt(bars, ticks, k))]
  <2>1. DOMAIN ticks = 1..m
    BY <1>4
  <2>2. LabelTicks(bars, ticks) = [k \in 1..m |-> Placed(bars, ticks[k], ShowsAt(bars, ticks, k))]
    BY <2>1, LabelTicksLaw, Zenon
  <2> QED BY <2>2
<1> HIDE DEF labels
<1> DEFINE L == {labels[k] : k \in 1..m}
<1>6. labels \in Seq(L) /\ Len(labels) = m /\ labels # <<>>
  BY <1>4, <1>5, SMTT(30)
<1>7. ASSUME NEW k \in 1..m
      PROVE  /\ labels[k] = Placed(bars, ticks[k], ShowsAt(bars, ticks, k))
             /\ labels[k].bar = ticks[k] /\ ticks[k] \in 1..N
             /\ labels[k].x \in Nat /\ labels[k].width \in Nat
  <2>1. ticks[k] \in 1..N
    BY <1>3, <1>4
  <2>2. labels[k] = Placed(bars, ticks[k], ShowsAt(bars, ticks, k))
    BY <1>5
  <2>3. LabelWidth[ShowsAt(bars, ticks, k)] \in Nat
    BY ShowsType
  <2> DEFINE shows == ShowsAt(bars, ticks, k)
             width == CharWidth * LabelWidth[shows]
  <2>4. width \in Nat
    BY <2>3, CharWidthType
  <2>5. labels[k] = [bar |-> ticks[k], shows |-> shows,
                     x |-> PlaceOf(XOf(ticks[k], Len(bars)), Room(width)), width |-> width]
    <3> HIDE DEF shows
    <3> QED BY <1>2, <2>1, <2>2, <2>3, PlacedLaw DEF shows
  <2> HIDE DEF width, shows
  <2>6. XOf(ticks[k], Len(bars)) \in Int
    BY <1>2, <2>1, XOfType
  <2>7. Room(width) \in Int
    <3>1. Width \in Int /\ Scaled(8) \in Int
      BY ChartAssumption, ScaledType
    <3> QED BY <2>4, <3>1 DEF Room
  <2>8. PlaceOf(XOf(ticks[k], Len(bars)), Room(width)) \in Nat
    BY <2>6, <2>7 DEF PlaceOf
  <2> QED BY <2>1, <2>2, <2>4, <2>5, <2>8
<1>8. /\ kept \in Seq(L) /\ kept # <<>> /\ KeptOfFirst(kept, labels, m)
  <2>1. \A i \in 1..Len(labels) : labels[i].bar \in Int
    BY <1>6, <1>7
  <2>2. \A i, j \in 1..Len(labels) : i < j => labels[i].bar < labels[j].bar
    BY <1>3, <1>4, <1>6, <1>7 DEF Rising
  <2> HIDE DEF L
  <2> QED BY <1>6, <2>1, <2>2, KeptLaw
<1> HIDE DEF kept
<1>9. PICK K \in Nat : K = Len(kept) /\ K >= 1 /\ DOMAIN kept = 1..K
  BY <1>8
<1>10. /\ \A k \in 1..K : \E j \in 1..m : kept[k] = labels[j]
       /\ \A k \in 2..K : Clear(kept[k - 1], kept[k]) /\ kept[k - 1].bar < kept[k].bar
  BY <1>8, <1>9 DEF KeptOfFirst
<1> DEFINE at == [k \in 1..K |-> CHOOSE j \in 1..m : kept[k] = labels[j]]
<1>11. ASSUME NEW k \in 1..K
       PROVE  /\ at[k] \in 1..m /\ kept[k] = labels[at[k]]
              /\ kept[k] = Placed(bars, ticks[at[k]], ShowsAt(bars, ticks, at[k]))
              /\ kept[k].bar = ticks[at[k]] /\ ticks[at[k]] \in 1..N
              /\ kept[k].x \in Nat /\ kept[k].width \in Nat
  <2>1. at[k] \in 1..m /\ kept[k] = labels[at[k]]
    BY <1>10
  <2> HIDE DEF at
  <2> QED BY <1>7, <2>1
<1>12. at \in [1..K -> 1..m]
  BY <1>11
<1> HIDE DEF at
<1>13. /\ chosen = [k \in 1..K |-> kept[k].bar]
       /\ chosen \in Seq(1..N) /\ Len(chosen) = K /\ DOMAIN chosen = 1..K
       /\ \A k \in 1..K : chosen[k] = ticks[at[k]] /\ chosen[k] \in 1..N
       /\ \A k \in 2..K : chosen[k - 1] < chosen[k]
  <2>1. chosen = [k \in 1..K |-> kept[k].bar]
    BY <1>9
  <2>2. \A k \in 1..K : kept[k].bar = ticks[at[k]] /\ kept[k].bar \in 1..N
    BY <1>11
  <2>3. \A k \in 2..K : k \in 1..K /\ k - 1 \in 1..K
    OBVIOUS
  <2> QED BY <1>9, <1>10, <2>1, <2>2, <2>3
<1> HIDE DEF chosen
<1>14. drawn = [k \in 1..K |-> Placed(bars, chosen[k], ShowsAt(bars, chosen, k))]
  <2>1. DOMAIN chosen = 1..K
    BY <1>13
  <2>2. LabelTicks(bars, chosen) = [k \in 1..K |-> Placed(bars, chosen[k], ShowsAt(bars, chosen, k))]
    BY <2>1, LabelTicksLaw, ZenonT(30)
  <2> QED BY <2>2
<1> HIDE DEF drawn
<1>15. ASSUME NEW k \in 1..K
       PROVE  /\ drawn[k] = Placed(bars, chosen[k], ShowsAt(bars, chosen, k))
              /\ drawn[k].bar = chosen[k] /\ drawn[k].shows = ShowsAt(bars, chosen, k)
  <2>1. drawn[k] = Placed(bars, chosen[k], ShowsAt(bars, chosen, k))
    BY <1>14
  <2>2. LabelWidth[ShowsAt(bars, chosen, k)] \in Nat
    BY ShowsType
  <2>3. chosen[k] \in 1..Len(bars) /\ Len(bars) \in Nat
    BY <1>2, <1>13
  <2> QED BY <2>1, <2>2, <2>3, PlacedLaw
<1>16. ASSUME NEW k \in 1..K
       PROVE  /\ Granularity(bars).unit # "month" =>
                    \/ ShowsAt(bars, chosen, k) = ShowsAt(bars, ticks, at[k])
                    \/ /\ ShowsAt(bars, ticks, at[k]) = "clock"
                       /\ ShowsAt(bars, chosen, k) = "date"
              /\ ShowsAt(bars, chosen, k) = "clock" =>
                    /\ k >= 2
                    /\ DayOf(bars[chosen[k - 1]].time) = DayOf(bars[chosen[k]].time)
                    /\ ShowsAt(bars, chosen, k - 1) \in {"clock", "date"}
  <2>1. /\ ticks \in Seq(1..Len(bars)) /\ Rising(ticks) /\ chosen \in Seq(1..Len(bars))
        /\ at \in [1..Len(chosen) -> 1..Len(ticks)]
    BY <1>2, <1>3, <1>4, <1>12, <1>13
  <2>2. /\ \A i \in 1..Len(chosen) : chosen[i] = ticks[at[i]]
        /\ \A i \in 2..Len(chosen) : chosen[i - 1] < chosen[i]
        /\ k \in 1..Len(chosen)
    BY <1>13
  <2>3. Relabels(bars, ticks, chosen, at, k)
    BY <2>1, <2>2, RelabelledLaw
  <2> QED BY <2>3 DEF Relabels
<1>17. Len(drawn) = K /\ DOMAIN drawn = 1..K /\ drawn # <<>>
  BY <1>9, <1>14
<1> DEFINE Of(k) == DayOf(bars[chosen[k]].time)
           Dated(k) == \E d \in 1..(k - 1) : drawn[d].shows = "date" /\ Of(d) = Of(k)
<1>18. ASSUME NEW k \in 1..K, drawn[k].shows = "clock" PROVE Dated(k)
  <2> DEFINE Good == {n \in 0..K : \A i \in 1..n : drawn[i].shows = "clock" => Dated(i)}
  <2>1. 0 \in Good
    BY <1>9
  <2>2. ASSUME NEW n \in 1..K, n - 1 \in Good
        PROVE  n \in Good
    <3>1. ASSUME drawn[n].shows = "clock" PROVE Dated(n)
      <4>1. n >= 2 /\ Of(n - 1) = Of(n) /\ drawn[n - 1].shows \in {"clock", "date"}
        <5>1. ShowsAt(bars, chosen, n) = "clock"
          BY <1>15, <3>1
        <5>2. n >= 2 /\ Of(n - 1) = Of(n) /\ ShowsAt(bars, chosen, n - 1) \in {"clock", "date"}
          BY <1>16, <5>1
        <5>3. n - 1 \in 1..K
          BY <5>2
        <5> QED BY <1>15, <5>2, <5>3
      <4> HIDE DEF Of
      <4>2. CASE drawn[n - 1].shows = "date"
        BY <4>1, <4>2
      <4>3. CASE drawn[n - 1].shows = "clock"
        <5>1. Dated(n - 1)
          <6>1. n - 1 \in 1..(n - 1)
            BY <4>1
          <6> QED BY <2>2, <4>3, <6>1
        <5>2. PICK d \in 1..(n - 1 - 1) : drawn[d].shows = "date" /\ Of(d) = Of(n - 1)
          BY <5>1
        <5>3. d \in 1..(n - 1)
          BY <5>2
        <5> QED BY <4>1, <5>2, <5>3
      <4> QED BY <4>1, <4>2, <4>3
    <3>2. \A i \in 1..n : i \in 1..(n - 1) \/ i = n
      OBVIOUS
    <3> HIDE DEF Dated
    <3> QED BY <2>2, <3>1, <3>2
  <2>3. K \in Good
    <3>1. 0..K \subseteq Good
      <4> HIDE DEF Good
      <4> QED BY <2>1, <2>2, Induction
    <3> QED BY <3>1
  <2> HIDE DEF Dated
  <2> QED BY <1>18, <2>3
<1> DEFINE AtEdge(k) == drawn[k].shows = "date" /\ drawn[k].x + drawn[k].width = Width - Scaled(8)
<1>19. ASSUME NEW k \in 2..K, Granularity(bars).unit # "month"
       PROVE  drawn[k - 1].x + drawn[k - 1].width
                 <= drawn[k].x + (IF AtEdge(k) THEN CharWidth ELSE 0)
  <2>1. ASSUME NEW i \in 1..K
        PROVE  drawn[i] = kept[i] \/ (DatesClock(drawn[i], kept[i]) /\ drawn[i].shows = "date")
    <3>1. /\ kept[i] = Placed(bars, chosen[i], ShowsAt(bars, ticks, at[i]))
          /\ drawn[i] = Placed(bars, chosen[i], ShowsAt(bars, chosen, i))
          /\ drawn[i].shows = ShowsAt(bars, chosen, i)
      BY <1>11, <1>13, <1>15
    <3>2. CASE ShowsAt(bars, chosen, i) = ShowsAt(bars, ticks, at[i])
      BY <3>1, <3>2
    <3>3. CASE /\ ShowsAt(bars, ticks, at[i]) = "clock"
               /\ ShowsAt(bars, chosen, i) = "date"
      <4>1. chosen[i] \in 1..Len(bars) /\ Len(bars) \in Nat
        BY <1>2, <1>13
      <4>2. DatesClock(Placed(bars, chosen[i], "date"), Placed(bars, chosen[i], "clock"))
        BY <4>1, DateForClock
      <4> QED BY <3>1, <3>3, <4>2
    <3> QED BY <1>16, <1>19, <3>2, <3>3
  <2>2. k \in 1..K /\ k - 1 \in 1..K
    OBVIOUS
  <2>3. /\ Clear(kept[k - 1], kept[k])
        /\ kept[k - 1].x \in Nat /\ kept[k - 1].width \in Nat
        /\ kept[k].x \in Nat /\ kept[k].width \in Nat
    BY <1>10, <1>11, <2>2
  <2>4. /\ drawn[k - 1] = kept[k - 1] \/ DatesClock(drawn[k - 1], kept[k - 1])
        /\ drawn[k] = kept[k] \/ (DatesClock(drawn[k], kept[k]) /\ drawn[k].shows = "date")
    BY <2>1, <2>2
  <2> QED BY <2>3, <2>4, DrawnBeside
<1>20. \A k \in 1..K : drawn[k].bar = chosen[k]
  BY <1>15
<1>21. ASSUME NEW k \in 1..K, drawn[k].shows = "clock"
       PROVE  \E d \in 1..(k - 1) : /\ drawn[d].shows = "date"
                                    /\ DayOf(bars[drawn[d].bar].time) = DayOf(bars[drawn[k].bar].time)
  <2>1. PICK d \in 1..(k - 1) : drawn[d].shows = "date" /\ Of(d) = Of(k)
    BY <1>18, <1>21
  <2>2. d \in 1..K
    OBVIOUS
  <2> QED BY <1>20, <2>1, <2>2
<1>22. CanBeRead(bars, drawn)
  BY <1>17, <1>19, <1>21 DEF CanBeRead
<1> QED BY <1>1, <1>22

\* The time axis of every chart can be read, whatever the canvas, the ladder, the
\* source and the request: a clock stands to the right of its day's date, and no
\* label is printed over another but for the date at the right edge that took
\* the place of a clock (plot.rs, label_ticks and select_nonoverlapping).
THEOREM AxisReads == Spec => []TimeAxisReads
<1>1. IInv => TimeAxisReads
  <2> SUFFICES ASSUME IInv, phase = "done", PlotBars # <<>>
               PROVE  CanBeRead(PlotBars, TimeLabels(PlotBars))
    BY DEF TimeAxisReads, Charted, Looked
  <2>1. /\ RawBars \in Seq(BarType) /\ Ascending(RawBars)
        /\ PlotBars = Adjusted(ActionsOf(query), RawBars)
    BY RawBarsLaw DEF PlotBars
  <2> DEFINE n == Len(RawBars)
             T == {PlotBars[i] : i \in 1..n}
  <2>2. n \in Nat /\ DOMAIN RawBars = 1..n /\ \A i \in 1..n : RawBars[i].time \in Int
    <3>1. n \in Nat /\ DOMAIN RawBars = 1..n /\ \A i \in 1..n : RawBars[i] \in BarType
      BY <2>1
    <3> HIDE DEF n
    <3>2. \A bar \in BarType : bar.time \in Int
      BY DEF BarType
    <3> QED BY <3>1, <3>2
  <2>3. DOMAIN PlotBars = 1..n /\ \A i \in 1..n : PlotBars[i].time = RawBars[i].time
    BY <2>1, <2>2 DEF Adjusted, ScaledBar
  <2>4. PlotBars \in Seq(T) /\ Len(PlotBars) = n
    <3>1. PlotBars = [i \in 1..n |-> PlotBars[i]]
      BY <2>1, <2>2 DEF Adjusted
    <3> QED BY <2>2, <3>1
  <2>5. \A i \in 1..Len(PlotBars) : PlotBars[i].time \in Int
    BY <2>2, <2>3, <2>4
  <2>6. Ascending(PlotBars)
    BY <2>1, <2>3, <2>4 DEF Ascending
  <2> HIDE DEF T, n
  <2> QED BY <2>4, <2>5, <2>6, AxisLaw
<1> QED BY <1>1, ChainInvariant, PTL

-----------------------------------------------------------------------------
(***************************************************************************)
(* Runs: what was counted is what is drawn.                                *)
(***************************************************************************)
RunType(S) == [rows : S, count : Nat]
Spread(run) == [i \in 1..run.count |-> run.rows]

LEMMA SpreadType ==
  ASSUME NEW S, NEW run \in RunType(S)
  PROVE  Spread(run) \in Seq(S)
<1>1. run.rows \in S /\ run.count \in Nat
  BY DEF RunType
<1> QED BY <1>1 DEF Spread

IsDrawing(f, S, runs) ==
    /\ f \in [0..Len(runs) -> Seq(S)]
    /\ f[0] = <<>>
    /\ \A n \in 1..Len(runs) : f[n] = f[n - 1] \o Spread(runs[n])

LEMMA CellsRun ==
  ASSUME NEW S, NEW runs \in Seq(RunType(S))
  PROVE  \E f : IsDrawing(f, S, runs) /\ CellsOf(runs) = f[Len(runs)]
<1> DEFINE N == Len(runs)
           step == [x \in (1..N) \X Seq(S) |-> x[2] \o Spread(runs[x[1]])]
           Is(f) == f = [n \in 0..N |-> IF n = 0 THEN <<>>
                           ELSE f[n - 1] \o [i \in 1..runs[n].count |-> runs[n].rows]]
<1>1. N \in Nat /\ <<>> \in Seq(S) /\ \A n \in 1..N : Spread(runs[n]) \in Seq(S)
  <2>1. \A n \in 1..N : runs[n] \in RunType(S)
    OBVIOUS
  <2> QED BY <2>1, SpreadType
<1>2. step \in [(1..N) \X Seq(S) -> Seq(S)]
  <2> HIDE DEF N
  <2>1. \A n \in 1..N : \A s \in Seq(S) : s \o Spread(runs[n]) \in Seq(S)
    BY <1>1, ConcatProperties
  <2> QED BY <2>1
<1>3. PICK f : IsRun(f, N, Seq(S), <<>>, step)
  <2> HIDE DEF step, N
  <2> QED BY <1>1, <1>2, Recursion
<1>4. /\ f \in [0..N -> Seq(S)] /\ f[0] = <<>>
      /\ \A n \in 1..N : f[n] = f[n - 1] \o Spread(runs[n])
  <2>1. /\ f \in [0..N -> Seq(S)] /\ f[0] = <<>>
        /\ \A n \in 1..N : f[n] = step[<<n, f[n - 1]>>]
    BY <1>3 DEF IsRun
  <2>2. \A n \in 1..N : f[n - 1] \in Seq(S)
    BY <1>1, <2>1, SMTT(30)
  <2>3. \A n \in 1..N : <<n, f[n - 1]>> \in (1..N) \X Seq(S)
    BY <2>2
  <2> QED BY <2>1, <2>3
<1>5. Is(f)
  <2> HIDE DEF N
  <2>1. f = [n \in 0..N |-> f[n]]
    BY <1>4
  <2>2. \A n \in 0..N : f[n] = IF n = 0 THEN <<>>
                           ELSE f[n - 1] \o [i \in 1..runs[n].count |-> runs[n].rows]
    <3>1. \A n \in 0..N : n = 0 \/ (n # 0 /\ n \in 1..N)
      BY <1>1
    <3> QED BY <1>4, <3>1, Zenon DEF Spread
  <2> QED BY <2>1, <2>2, Zenon
<1> DEFINE g == CHOOSE h : Is(h)
<1>6. Is(g)
  <2> HIDE DEF Is
  <2> QED BY <1>5
<1>7. CellsOf(runs) = g[N]
  BY DEF CellsOf
<1>8. f[N] = g[N]
  <2> HIDE DEF g, N
  <2>1. g[0] = <<>>
    BY <1>1, <1>6
  <2>2. \A n \in 1..N : g[n] = g[n - 1] \o Spread(runs[n])
    <3>1. \A n \in 1..N : n # 0 /\ n \in 0..N
      BY <1>1
    <3> QED BY <1>6, <3>1, Zenon DEF Spread
  <2>3. StepAlike(f, g, N)
    BY <1>4, <2>1, <2>2, Zenon DEF StepAlike
  <2>4. N \in Nat
    BY <1>1
  <2> HIDE DEF Is, step
  <2> QED BY <2>3, <2>4, Determined
<1>9. IsDrawing(f, S, runs)
  BY <1>4 DEF IsDrawing
<1> QED BY <1>7, <1>8, <1>9

LEMMA CellsType ==
  ASSUME NEW S, NEW runs \in Seq(RunType(S))
  PROVE  CellsOf(runs) \in Seq(S)
<1>1. PICK N \in Nat : N = Len(runs)
  OBVIOUS
<1>2. PICK f : IsDrawing(f, S, runs) /\ CellsOf(runs) = f[Len(runs)]
  BY CellsRun
<1>3. f \in [0..N -> Seq(S)] /\ N \in 0..N
  BY <1>1, <1>2 DEF IsDrawing
<1> QED BY <1>1, <1>2, <1>3

LEMMA CellsEmpty == CellsOf(<<>>) = <<>>
<1>1. <<>> \in Seq(RunType({})) /\ Len(<<>>) = 0
  OBVIOUS
<1>2. PICK f : IsDrawing(f, {}, <<>>) /\ CellsOf(<<>>) = f[Len(<<>>)]
  BY <1>1, CellsRun
<1> QED BY <1>1, <1>2, Zenon DEF IsDrawing

LEMMA CellsAppend ==
  ASSUME NEW S, NEW runs \in Seq(RunType(S)), NEW run \in RunType(S)
  PROVE  CellsOf(Append(runs, run)) = CellsOf(runs) \o Spread(run)
<1> DEFINE N == Len(runs)
           more == Append(runs, run)
<1>1. /\ N \in Nat /\ more \in Seq(RunType(S)) /\ Len(more) = N + 1 /\ more[N + 1] = run
      /\ \A n \in 1..N : more[n] = runs[n]
  BY AppendProperties
<1>2. PICK f : IsDrawing(f, S, runs) /\ CellsOf(runs) = f[N]
  BY CellsRun
<1>3. PICK g : IsDrawing(g, S, more) /\ CellsOf(more) = g[N + 1]
  <2> HIDE DEF more, N
  <2> QED BY <1>1, CellsRun
<1> HIDE DEF more
<1>4. StepAlike(f, g, N)
  <2>1. \A n \in 1..N : n \in 1..(N + 1)
    BY <1>1
  <2> QED BY <1>1, <1>2, <1>3, <2>1, Zenon DEF IsDrawing, StepAlike
<1>5. f[N] = g[N]
  <2>1. N \in Nat
    BY <1>1
  <2> HIDE DEF N
  <2> QED BY <1>4, <2>1, Determined
<1>6. N + 1 \in 1..(N + 1) /\ (N + 1) - 1 = N
  BY <1>1
<1>7. g[N + 1] = g[N] \o Spread(more[N + 1])
  BY <1>1, <1>3, <1>6, Zenon DEF IsDrawing
<1> QED BY <1>1, <1>2, <1>3, <1>5, <1>7, Zenon DEF more

Counted(s, column) ==
    IF s.run # <<>> /\ s.run[1].rows = column
    THEN [out |-> s.out, run |-> <<[rows |-> column, count |-> s.run[1].count + 1]>>]
    ELSE [out |-> s.out \o s.run, run |-> <<[rows |-> column, count |-> 1]>>]

NothingCounted == [out |-> <<>>, run |-> <<>>]

CountType(S) == {s \in [out : Seq(RunType(S)), run : Seq(RunType(S))] : TRUE}

IsCounting(f, S, columns) ==
    /\ f \in [0..Len(columns) -> CountType(S)]
    /\ f[0] = NothingCounted
    /\ \A n \in 1..Len(columns) : f[n] = Counted(f[n - 1], columns[n])

LEMMA CountedType ==
  ASSUME NEW S, NEW s \in CountType(S), NEW column \in S
  PROVE  Counted(s, column) \in CountType(S)
<1>1. s.out \in Seq(RunType(S)) /\ s.run \in Seq(RunType(S))
  BY DEF CountType
<1>2. s.out \o s.run \in Seq(RunType(S))
  BY <1>1, ConcatProperties
<1>3. <<[rows |-> column, count |-> 1]>> \in Seq(RunType(S))
  <2>1. [rows |-> column, count |-> 1] \in RunType(S)
    BY DEF RunType
  <2> QED BY <2>1
<1>4. ASSUME s.run # <<>>
      PROVE  <<[rows |-> column, count |-> s.run[1].count + 1]>> \in Seq(RunType(S))
  <2>1. s.run[1] \in RunType(S)
    BY <1>1, <1>4
  <2>2. s.run[1].count + 1 \in Nat
    BY <2>1 DEF RunType
  <2>3. [rows |-> column, count |-> s.run[1].count + 1] \in RunType(S)
    BY <2>2 DEF RunType
  <2> QED BY <2>3
<1> QED BY <1>1, <1>2, <1>3, <1>4 DEF Counted, CountType

LEMMA RunsRun ==
  ASSUME NEW S, NEW columns \in Seq(S)
  PROVE  \E f : IsCounting(f, S, columns) /\ Image!RunsOf(columns) = f[Len(columns)]
<1> DEFINE N == Len(columns)
           T == CountType(S)
           step == [x \in (1..N) \X T |-> Counted(x[2], columns[x[1]])]
           Is(f) == f = [n \in 0..N |->
                           IF n = 0 THEN [out |-> <<>>, run |-> <<>>]
                           ELSE LET s == f[n - 1]
                                    Of(count) == <<[rows |-> columns[n], count |-> count]>>
                                IN  IF s.run # <<>> /\ s.run[1].rows = columns[n]
                                    THEN [out |-> s.out, run |-> Of(s.run[1].count + 1)]
                                    ELSE [out |-> s.out \o s.run, run |-> Of(1)]]
<1>1. N \in Nat /\ NothingCounted \in T /\ \A n \in 1..N : columns[n] \in S
  <2>1. <<>> \in Seq(RunType(S))
    OBVIOUS
  <2> QED BY <2>1 DEF NothingCounted, CountType
<1> HIDE DEF T
<1>2. step \in [(1..N) \X T -> T]
  <2>1. \A n \in 1..N : \A s \in T : Counted(s, columns[n]) \in T
    BY <1>1, CountedType DEF T
  <2> HIDE DEF N
  <2> QED BY <2>1
<1>3. PICK f : IsRun(f, N, T, NothingCounted, step)
  <2> HIDE DEF step, N
  <2> QED BY <1>1, <1>2, Recursion
<1>4. /\ f \in [0..N -> T] /\ f[0] = NothingCounted
      /\ \A n \in 1..N : f[n] = Counted(f[n - 1], columns[n])
  <2>1. /\ f \in [0..N -> T] /\ f[0] = NothingCounted
        /\ \A n \in 1..N : f[n] = step[<<n, f[n - 1]>>]
    BY <1>3 DEF IsRun
  <2>2. \A n \in 1..N : f[n - 1] \in T
    BY <1>1, <2>1
  <2>3. \A n \in 1..N : <<n, f[n - 1]>> \in (1..N) \X T
    BY <2>2
  <2> HIDE DEF N
  <2> QED BY <2>1, <2>3
<1>5. Is(f)
  <2> HIDE DEF N
  <2>1. f = [n \in 0..N |-> f[n]]
    BY <1>4
  <2>2. \A n \in 0..N : f[n] = IF n = 0 THEN NothingCounted ELSE Counted(f[n - 1], columns[n])
    <3>1. \A n \in 0..N : n = 0 \/ (n # 0 /\ n \in 1..N)
      BY <1>1
    <3> QED BY <1>4, <3>1, Zenon
  <2>3. f = [n \in 0..N |-> IF n = 0 THEN NothingCounted ELSE Counted(f[n - 1], columns[n])]
    BY <2>1, <2>2, Zenon
  <2> QED BY <2>3 DEF NothingCounted, Counted
<1> DEFINE g == CHOOSE h : Is(h)
<1>6. Is(g)
  <2> HIDE DEF Is
  <2> QED BY <1>5
<1>7. Image!RunsOf(columns) = g[N]
  BY DEF Image!RunsOf
<1>8. f[N] = g[N]
  <2> HIDE DEF g, N
  <2>1. g = [n \in 0..N |-> IF n = 0 THEN NothingCounted ELSE Counted(g[n - 1], columns[n])]
    BY <1>6 DEF NothingCounted, Counted
  <2> HIDE DEF Is
  <2>2. g[0] = NothingCounted
    BY <1>1, <2>1
  <2>3. \A n \in 1..N : g[n] = Counted(g[n - 1], columns[n])
    <3>1. \A n \in 1..N : n # 0 /\ n \in 0..N
      BY <1>1
    <3> QED BY <2>1, <3>1, Zenon
  <2>4. StepAlike(f, g, N)
    BY <1>4, <2>2, <2>3, Zenon DEF StepAlike
  <2>5. N \in Nat
    BY <1>1
  <2> HIDE DEF step
  <2> QED BY <2>4, <2>5, Determined
<1>9. IsCounting(f, S, columns)
  BY <1>4 DEF IsCounting, T
<1> QED BY <1>7, <1>8, <1>9

LEMMA RunsOfLaws ==
  /\ Image!RunsOf(<<>>) = NothingCounted
  /\ \A S : \A columns \in Seq(S) :
        /\ Image!RunsOf(columns) \in CountType(S)
        /\ \A c \in S : Image!RunsOf(Append(columns, c)) = Counted(Image!RunsOf(columns), c)
<1>1. Image!RunsOf(<<>>) = NothingCounted
  <2>1. <<>> \in Seq({}) /\ Len(<<>>) = 0
    OBVIOUS
  <2>2. PICK f : IsCounting(f, {}, <<>>) /\ Image!RunsOf(<<>>) = f[Len(<<>>)]
    BY <2>1, RunsRun
  <2> QED BY <2>1, <2>2, Zenon DEF IsCounting
<1>2. ASSUME NEW S, NEW columns \in Seq(S)
      PROVE  Image!RunsOf(columns) \in CountType(S)
  <2>1. PICK N \in Nat : N = Len(columns)
    OBVIOUS
  <2>2. PICK f : IsCounting(f, S, columns) /\ Image!RunsOf(columns) = f[Len(columns)]
    BY RunsRun
  <2>3. f \in [0..N -> CountType(S)] /\ N \in 0..N
    BY <2>1, <2>2 DEF IsCounting
  <2> QED BY <2>1, <2>2, <2>3
<1>3. ASSUME NEW S, NEW columns \in Seq(S), NEW c \in S
      PROVE  Image!RunsOf(Append(columns, c)) = Counted(Image!RunsOf(columns), c)
  <2> DEFINE N == Len(columns)
             more == Append(columns, c)
  <2>1. /\ N \in Nat /\ more \in Seq(S) /\ Len(more) = N + 1 /\ more[N + 1] = c
        /\ \A n \in 1..N : more[n] = columns[n]
    BY AppendProperties
  <2>2. PICK f : IsCounting(f, S, columns) /\ Image!RunsOf(columns) = f[N]
    BY RunsRun
  <2>3. PICK g : IsCounting(g, S, more) /\ Image!RunsOf(more) = g[N + 1]
    <3> HIDE DEF more, N
    <3> QED BY <2>1, RunsRun
  <2> HIDE DEF more
  <2>4. StepAlike(f, g, N)
    <3>1. \A n \in 1..N : n \in 1..(N + 1)
      BY <2>1
    <3> QED BY <2>1, <2>2, <2>3, <3>1, Zenon DEF IsCounting, StepAlike
  <2>5. f[N] = g[N]
    <3>1. N \in Nat
      BY <2>1
    <3> HIDE DEF N
    <3> QED BY <2>4, <3>1, Determined
  <2>6. N + 1 \in 1..(N + 1) /\ (N + 1) - 1 = N
    BY <2>1
  <2>7. g[N + 1] = Counted(g[N], more[N + 1])
    BY <2>1, <2>3, <2>6, Zenon DEF IsCounting
  <2> QED BY <2>1, <2>2, <2>3, <2>5, <2>7, Zenon DEF more
<1> QED BY <1>1, <1>2, <1>3

\* What was written and what is being counted are the columns so far.
HasCounted(s, columns) ==
    IF columns = <<>> THEN s = NothingCounted
    ELSE Len(s.run) = 1 /\ CellsOf(s.out) \o Spread(s.run[1]) = columns

LEMMA CountedLaw ==
  ASSUME NEW S, NEW columns \in Seq(S), NEW c \in S, NEW s \in CountType(S),
         HasCounted(s, columns)
  PROVE  HasCounted(Counted(s, c), Append(columns, c))
<1>1. s.out \in Seq(RunType(S)) /\ s.run \in Seq(RunType(S))
  BY DEF CountType
<1>2. Append(columns, c) # <<>>
  <2>1. Len(Append(columns, c)) = Len(columns) + 1 /\ Len(columns) \in Nat
    BY AppendProperties
  <2>2. Len(<<>>) = 0
    OBVIOUS
  <2> QED BY <2>1, <2>2
<1> DEFINE one == [rows |-> c, count |-> 1]
<1>3. Spread(one) = <<c>> /\ one \in RunType(S)
  BY DEF Spread, RunType
<1>4. CASE columns = <<>>
  <2>1. s = NothingCounted
    BY <1>4 DEF HasCounted
  <2>2. s.run = <<>> /\ s.out = <<>> /\ <<>> \o <<>> = <<>>
    BY <2>1 DEF NothingCounted
  <2>3. Counted(s, c) = [out |-> <<>>, run |-> <<one>>]
    BY <2>2 DEF Counted
  <2>4. CellsOf(<<>>) \o Spread(one) = Append(columns, c)
    <3>1. <<>> \o <<c>> = Append(<<>>, c)
      OBVIOUS
    <3> QED BY <1>3, <1>4, <3>1, CellsEmpty
  <2>5. Len(<<one>>) = 1 /\ <<one>>[1] = one
    OBVIOUS
  <2> HIDE DEF one
  <2> QED BY <1>2, <2>3, <2>4, <2>5 DEF HasCounted
<1>5. CASE columns # <<>>
  <2>1. Len(s.run) = 1 /\ CellsOf(s.out) \o Spread(s.run[1]) = columns
    BY <1>5 DEF HasCounted
  <2>2. PICK r \in RunType(S) : s.run = <<r>> /\ s.run[1] = r
    BY <1>1, <2>1
  <2>3. r.rows \in S /\ r.count \in Nat /\ Spread(r) \in Seq(S) /\ CellsOf(s.out) \in Seq(S)
    BY <1>1, SpreadType, CellsType DEF RunType
  <2>4. CASE r.rows = c
    <3> DEFINE more == [rows |-> c, count |-> r.count + 1]
    <3>1. Counted(s, c) = [out |-> s.out, run |-> <<more>>]
      BY <2>2, <2>4 DEF Counted
    <3>2. Spread(more) = Append(Spread(r), c)
      BY <2>3, <2>4 DEF Spread
    <3>3. CellsOf(s.out) \o Append(Spread(r), c) = Append(CellsOf(s.out) \o Spread(r), c)
      BY <2>3
    <3>4. CellsOf(s.out) \o Spread(more) = Append(columns, c)
      BY <2>1, <2>2, <3>2, <3>3
    <3>5. Len(<<more>>) = 1 /\ <<more>>[1] = more
      OBVIOUS
    <3> HIDE DEF more
    <3> QED BY <1>2, <3>1, <3>4, <3>5 DEF HasCounted
  <2>5. CASE r.rows # c
    <3>1. s.out \o s.run = Append(s.out, r)
      BY <1>1, <2>2
    <3>2. Counted(s, c) = [out |-> Append(s.out, r), run |-> <<one>>]
      BY <2>2, <2>5, <3>1 DEF Counted
    <3>3. CellsOf(Append(s.out, r)) = columns
      BY <1>1, <2>1, <2>2, CellsAppend
    <3>4. columns \o <<c>> = Append(columns, c)
      OBVIOUS
    <3>5. CellsOf(Append(s.out, r)) \o Spread(one) = Append(columns, c)
      BY <1>3, <3>3, <3>4
    <3>6. Len(<<one>>) = 1 /\ <<one>>[1] = one
      OBVIOUS
    <3> HIDE DEF one
    <3> QED BY <1>2, <3>2, <3>5, <3>6 DEF HasCounted
  <2> QED BY <2>4, <2>5
<1> QED BY <1>4, <1>5

\* The runs of a pass give back its columns.
LEMMA RunsLaw ==
  ASSUME NEW S, NEW columns \in Seq(S)
  PROVE  CellsOf(Image!Runs(columns)) = columns
<1> DEFINE Good == {c \in Seq(S) : HasCounted(Image!RunsOf(c), c)}
<1>1. <<>> \in Good
  <2>1. <<>> \in Seq(S)
    OBVIOUS
  <2> QED BY <2>1, RunsOfLaws DEF HasCounted
<1>2. ASSUME NEW c \in Seq(S), NEW e \in S, c \in Good
      PROVE  Append(c, e) \in Good
  <2>1. Append(c, e) \in Seq(S)
    BY AppendProperties
  <2>2. Image!RunsOf(c) \in CountType(S) /\ Image!RunsOf(Append(c, e)) = Counted(Image!RunsOf(c), e)
    BY RunsOfLaws
  <2>3. HasCounted(Image!RunsOf(c), c)
    BY <1>2
  <2>4. HasCounted(Counted(Image!RunsOf(c), e), Append(c, e))
    BY <2>2, <2>3, CountedLaw
  <2> QED BY <2>1, <2>2, <2>4
<1>3. columns \in Good
  <2>1. Seq(S) \subseteq Good
    <3> HIDE DEF Good
    <3> QED BY <1>1, <1>2, SeqInduction
  <2> QED BY <2>1
<1> DEFINE s == Image!RunsOf(columns)
<1>4. HasCounted(s, columns) /\ Image!Runs(columns) = s.out \o s.run /\ s \in CountType(S)
  BY <1>3, RunsOfLaws DEF Image!Runs
<1> HIDE DEF s
<1>5. s.out \in Seq(RunType(S)) /\ s.run \in Seq(RunType(S))
  BY <1>4 DEF CountType
<1>6. CASE columns = <<>>
  <2>1. s.out = <<>> /\ s.run = <<>>
    BY <1>4, <1>6 DEF HasCounted, NothingCounted
  <2>2. <<>> \o <<>> = <<>>
    OBVIOUS
  <2> QED BY <1>4, <1>6, <2>1, <2>2, CellsEmpty
<1>7. CASE columns # <<>>
  <2>1. Len(s.run) = 1 /\ CellsOf(s.out) \o Spread(s.run[1]) = columns
    BY <1>4, <1>7 DEF HasCounted
  <2>2. PICK r \in RunType(S) : s.run = <<r>> /\ s.run[1] = r
    BY <1>5, <2>1
  <2>3. s.out \o s.run = Append(s.out, r)
    BY <1>5, <2>2
  <2> QED BY <1>4, <1>5, <2>1, <2>2, <2>3, CellsAppend
<1> QED BY <1>6, <1>7

-----------------------------------------------------------------------------
(***************************************************************************)
(* Bands: the passes that are sent, and the pixels they draw.              *)
(***************************************************************************)
\* RowsAt leaves out none of what it is asked for.
LEMMA RowsAtOnto ==
  ASSUME NEW S, NEW list \in Seq(S), NEW P
  PROVE  \A i \in 1..Len(list) :
            i \in P => \E k \in 1..Len(RowsAt(list, P)) : RowsAt(list, P)[k] = list[i]
<1> DEFINE Onto(s) == \A i \in 1..Len(s) :
                         i \in P => \E k \in 1..Len(RowsAt(s, P)) : RowsAt(s, P)[k] = s[i]
           T == {s \in Seq(S) : Onto(s)}
<1>1. <<>> \in T
  <2>1. <<>> \in Seq(S) /\ Len(<<>>) = 0
    OBVIOUS
  <2> QED BY <2>1
<1>2. ASSUME NEW s \in Seq(S), NEW e \in S, s \in T
      PROVE  Append(s, e) \in T
  <2> DEFINE old == RowsAt(s, P)
             more == Append(s, e)
  <2>1. /\ Len(s) \in Nat /\ more \in Seq(S) /\ Len(more) = Len(s) + 1
        /\ more[Len(s) + 1] = e /\ \A i \in 1..Len(s) : more[i] = s[i]
    BY AppendProperties
  <2>2. old \in Seq(S)
    BY RowsAtType
  <2>3. /\ Len(old) \in Nat /\ Len(Append(old, e)) = Len(old) + 1
        /\ Append(old, e)[Len(old) + 1] = e
        /\ \A k \in 1..Len(old) : Append(old, e)[k] = old[k]
    BY <2>2, AppendProperties
  <2>4. RowsAt(more, P) = IF Len(s) + 1 \in P THEN Append(old, e) ELSE old
    BY RowsAtAppend
  <2>5. ASSUME NEW i \in 1..Len(more), i \in P
        PROVE  \E k \in 1..Len(RowsAt(more, P)) : RowsAt(more, P)[k] = more[i]
    <3>1. CASE i = Len(s) + 1
      <4>1. Len(old) + 1 \in 1..Len(Append(old, e))
        BY <2>3
      <4>2. RowsAt(more, P) = Append(old, e)
        BY <2>4, <2>5, <3>1
      <4> HIDE DEF more, old
      <4> QED BY <2>1, <2>3, <3>1, <4>1, <4>2
    <3>2. CASE i # Len(s) + 1
      <4>1. i \in 1..Len(s)
        BY <2>1, <3>2
      <4>2. PICK k \in 1..Len(old) : old[k] = s[i]
        BY <1>2, <2>5, <4>1
      <4> HIDE DEF more, old
      <4>3. k \in 1..Len(Append(old, e)) /\ Append(old, e)[k] = old[k]
        BY <2>3
      <4> QED BY <2>1, <2>4, <4>1, <4>2, <4>3
    <3> QED BY <3>1, <3>2
  <2> QED BY <2>1, <2>5
<1>3. Seq(S) \subseteq T
  <2> HIDE DEF T
  <2> QED BY <1>1, <1>2, SeqInduction
<1> QED BY <1>3

LEMMA ImageRowsAt == \A list, P : Image!RowsAt(list, P) = RowsAt(list, P)
BY DEF Image!RowsAt, RowsAt

LEMMA CountedIsSeq ==
  ASSUME NEW n \in Nat, NEW e, DOMAIN e = 1..n, e = [i \in 1..n |-> e[i]]
  PROVE  e \in Seq({e[i] : i \in 1..n})
OBVIOUS

LEMMA ListedIs ==
  ASSUME NEW S, NEW list \in Seq(S)
  PROVE  Listed(list) = list /\ Image!Listed(list) = list
BY DEF Listed, Image!Listed

Canvas == [1..(PaintedWidth * PaintedHeight) -> 0..10]

\* The columns of a color in a band.
ColumnsAre(px, band, color) ==
    [x \in 1..PaintedWidth |->
        {r \in 0..5 : /\ 6 * band + r < PaintedHeight
                      /\ px[PaintedWidth * (6 * band + r) + x] = color}]

LEMMA ColumnsLaw ==
  ASSUME NEW px, NEW band, NEW color
  PROVE  /\ Image!Columns(px, band, color) = ColumnsAre(px, band, color)
         /\ ColumnsAre(px, band, color) \in Seq(SUBSET (0..5))
         /\ Len(ColumnsAre(px, band, color)) = PaintedWidth
<1>1. PaintedWidth \in Nat
  BY ViewsAssumption
<1>2. /\ ColumnsAre(px, band, color) \in Seq(SUBSET (0..5))
      /\ Len(ColumnsAre(px, band, color)) = PaintedWidth
  BY <1>1 DEF ColumnsAre
<1>3. Image!Columns(px, band, color) = ColumnsAre(px, band, color) \o <<>>
  BY DEF Image!Columns, Image!Listed, Image!Rows, ColumnsAre
<1>4. ColumnsAre(px, band, color) \o <<>> = ColumnsAre(px, band, color)
  BY <1>2
<1> QED BY <1>2, <1>3, <1>4

\* What is drawn of a band: a sheet for each color that occurs in it.
SheetOf(px, band, c) == [color |-> c - 1, cells |-> ColumnsAre(px, band, c - 1)]
UsedIn(px, band) ==
    {c \in 1..11 : \E x \in 1..PaintedWidth : ColumnsAre(px, band, c - 1)[x] # {}}

LEMMA SheetsLaw ==
  ASSUME NEW px, NEW band
  PROVE  \E n \in Nat :
            LET sheets == Sheets(Image!Sent(px, band))
            IN  /\ Len(sheets) = n
                /\ \A p \in 1..n : \E c \in 1..11 : sheets[p] = SheetOf(px, band, c)
                /\ \A c \in UsedIn(px, band) : \E p \in 1..n : sheets[p] = SheetOf(px, band, c)
<1> DEFINE Pass(c) == [color |-> c - 1, columns |-> ColumnsAre(px, band, c - 1)]
           passes == [c \in 1..11 |-> Pass(c)]
           S == {Pass(c) : c \in 1..11}
           used == UsedIn(px, band)
           sent == RowsAt(passes, used)
           written == [p \in DOMAIN sent |-> [color |-> sent[p].color,
                                              runs |-> Image!Runs(sent[p].columns)]]
           sheets == [p \in DOMAIN sent |-> [color |-> sent[p].color, cells |-> sent[p].columns]]
<1>1. passes \in Seq(S) /\ Len(passes) = 11 /\ \A c \in 1..11 : passes[c] = Pass(c)
  OBVIOUS
<1>2. Image!Passes(px, band) = passes
  BY ColumnsLaw DEF Image!Passes
<1>3. Image!Listed(Image!Passes(px, band)) = passes
  <2> HIDE DEF passes, S
  <2> QED BY <1>1, <1>2, ListedIs
<1>4. used = {c \in 1..11 : \E x \in 1..PaintedWidth : passes[c].columns[x] # {}}
  BY <1>1 DEF UsedIn
<1> HIDE DEF passes, S, used
<1>5. sent \in Seq(S)
  BY <1>1, RowsAtType
<1>6. \A k \in 1..Len(sent) : \E i \in 1..11 : i \in used /\ sent[k] = passes[i]
  <2>1. \A k \in 1..Len(sent) : \E i \in 1..Len(passes) : i \in used /\ sent[k] = passes[i]
    <3>1. passes \in Seq(S)
      BY <1>1
    <3> QED BY <3>1, RowsAtElements
  <2> HIDE DEF sent
  <2> QED BY <1>1, <2>1
<1>7. \A i \in used : \E k \in 1..Len(sent) : sent[k] = passes[i]
  <2>1. used \subseteq 1..11
    BY <1>4
  <2>2. \A i \in 1..Len(passes) : i \in used => \E k \in 1..Len(sent) : sent[k] = passes[i]
    <3>1. passes \in Seq(S)
      BY <1>1
    <3> QED BY <3>1, RowsAtOnto
  <2> HIDE DEF sent
  <2> QED BY <1>1, <2>1, <2>2
<1>8. Image!Sent(px, band) = Image!Listed(written)
  BY <1>3, <1>4, ImageRowsAt DEF Image!Sent
<1> HIDE DEF sent
<1>9. PICK n \in Nat : n = Len(sent) /\ DOMAIN sent = 1..n
  BY <1>5
<1>10. Image!Sent(px, band) = written
  <2>1. written \in Seq({written[p] : p \in 1..n})
    BY <1>9
  <2> HIDE DEF written
  <2> QED BY <1>8, <2>1, ListedIs
<1>11. \A p \in 1..n : CellsOf(Image!Runs(sent[p].columns)) = sent[p].columns
  <2> SUFFICES ASSUME NEW p \in 1..n PROVE CellsOf(Image!Runs(sent[p].columns)) = sent[p].columns
    OBVIOUS
  <2>1. PICK c \in 1..11 : sent[p] = Pass(c)
    BY <1>1, <1>6, <1>9
  <2>2. sent[p].columns \in Seq(SUBSET (0..5))
    BY <2>1, ColumnsLaw
  <2> QED BY <2>2, RunsLaw
<1>12. [p \in DOMAIN written |-> [color |-> written[p].color, cells |-> CellsOf(written[p].runs)]]
          = sheets
  BY <1>9, <1>11
<1>13. Sheets(Image!Sent(px, band)) = sheets
  <2>1. Sheets(Image!Sent(px, band)) = Listed(sheets)
    <3>1. Sheets(written) = Listed(sheets)
      <4> HIDE DEF written, sheets
      <4> QED BY <1>12 DEF Sheets
    <3> QED BY <1>10, <3>1
  <2>2. sheets \in Seq({sheets[p] : p \in 1..n})
    BY <1>9
  <2> HIDE DEF sheets
  <2> QED BY <2>1, <2>2, ListedIs
<1>14. Len(sheets) = n
  BY <1>9
<1>15. \A p \in 1..n : \E c \in 1..11 : sheets[p] = SheetOf(px, band, c)
  <2> SUFFICES ASSUME NEW p \in 1..n PROVE \E c \in 1..11 : sheets[p] = SheetOf(px, band, c)
    OBVIOUS
  <2>1. PICK c \in 1..11 : sent[p] = Pass(c)
    BY <1>1, <1>6, <1>9
  <2> QED BY <1>9, <2>1 DEF SheetOf
<1>16. \A c \in used : \E p \in 1..n : sheets[p] = SheetOf(px, band, c)
  <2> SUFFICES ASSUME NEW c \in used PROVE \E p \in 1..n : sheets[p] = SheetOf(px, band, c)
    OBVIOUS
  <2>1. c \in 1..11
    BY <1>4
  <2>2. PICK p \in 1..n : sent[p] = passes[c]
    BY <1>7, <1>9
  <2>3. sent[p] = Pass(c)
    BY <1>1, <2>1, <2>2
  <2> QED BY <1>9, <2>3 DEF SheetOf
<1> HIDE DEF sheets
<1> QED BY <1>13, <1>14, <1>15, <1>16 DEF used

\* What is drawn at a place is what was painted there: some sheet of its band has
\* the place, and any that has it has its color.
LEMMA DrawnIsPainted ==
  ASSUME NEW px \in Canvas, NEW x \in 1..PaintedWidth, NEW y \in 0..(PaintedHeight - 1),
         NEW band \in Nat, NEW r \in 0..5, y = 6 * band + r,
         PaintedWidth * y + x \in 1..(PaintedWidth * PaintedHeight)
  PROVE  DrawnAt(Sheets(Image!Sent(px, band)), x, r) = px[PaintedWidth * y + x]
<1> DEFINE sheets == Sheets(Image!Sent(px, band))
           at == PaintedWidth * y + x
           hits == {p \in 1..Len(sheets) : x <= Len(sheets[p].cells) /\ r \in sheets[p].cells[x]}
<1>1. PICK n \in Nat :
         /\ Len(sheets) = n
         /\ \A p \in 1..n : \E c \in 1..11 : sheets[p] = SheetOf(px, band, c)
         /\ \A c \in UsedIn(px, band) : \E p \in 1..n : sheets[p] = SheetOf(px, band, c)
  BY SheetsLaw
<1> HIDE DEF sheets
<1>2. px[at] \in 0..10
  BY DEF Canvas
<1>3. ASSUME NEW color
      PROVE  r \in ColumnsAre(px, band, color)[x] <=> px[at] = color
  <2>1. 6 * band + r < PaintedHeight /\ PaintedWidth * (6 * band + r) + x = at
    BY ViewsAssumption
  <2>2. ColumnsAre(px, band, color)[x]
           = {s \in 0..5 : /\ 6 * band + s < PaintedHeight
                           /\ px[PaintedWidth * (6 * band + s) + x] = color}
    BY DEF ColumnsAre
  <2> HIDE DEF at
  <2> QED BY <2>1, <2>2
<1> HIDE DEF at
<1>4. ASSUME NEW c \in 1..11
      PROVE  /\ SheetOf(px, band, c).color = c - 1
             /\ x <= Len(SheetOf(px, band, c).cells)
             /\ r \in SheetOf(px, band, c).cells[x] <=> px[at] = c - 1
  BY <1>3, ColumnsLaw DEF SheetOf
<1>5. PICK q \in 1..n : sheets[q] = SheetOf(px, band, px[at] + 1)
  <2>1. px[at] + 1 \in 1..11 /\ (px[at] + 1) - 1 = px[at]
    BY <1>2
  <2>2. r \in ColumnsAre(px, band, (px[at] + 1) - 1)[x]
    BY <1>3, <2>1
  <2>3. px[at] + 1 \in UsedIn(px, band)
    BY <2>1, <2>2 DEF UsedIn
  <2> QED BY <1>1, <2>3
<1>6. q \in hits
  <2>1. px[at] + 1 \in 1..11 /\ (px[at] + 1) - 1 = px[at]
    BY <1>2
  <2>2. x <= Len(sheets[q].cells) /\ r \in sheets[q].cells[x]
    BY <1>4, <1>5, <2>1
  <2> QED BY <1>1, <2>2
<1>7. Max(hits) \in hits
  <2>1. hits \subseteq 0..n /\ hits # {}
    BY <1>1, <1>6, SMTT(30)
  <2> HIDE DEF hits
  <2> QED BY <2>1, MaxIs
<1>8. \A p \in hits : sheets[p].color = px[at]
  <2> SUFFICES ASSUME NEW p \in hits PROVE sheets[p].color = px[at]
    OBVIOUS
  <2>1. p \in 1..n /\ r \in sheets[p].cells[x]
    BY <1>1
  <2>2. PICK c \in 1..11 : sheets[p] = SheetOf(px, band, c)
    BY <1>1, <2>1
  <2> QED BY <1>4, <2>1, <2>2
<1>9. DrawnAt(sheets, x, r) = IF hits # {} THEN sheets[Max(hits)].color ELSE -1
  BY DEF DrawnAt
<1> HIDE DEF hits
<1>10. DrawnAt(sheets, x, r) = px[at]
  BY <1>6, <1>7, <1>8, <1>9
<1> QED BY <1>10 DEF sheets, at

\* What a terminal shows of a chart is, pixel by pixel, what was painted, for any
\* canvas in the colors of the palette: runs and passes lose nothing, and the
\* rows past the last one of an odd band add nothing (plot.rs, encode_sixel).
THEOREM SixelIsLossless == \A px \in Canvas : ShownAsPainted(px)
<1> SUFFICES ASSUME NEW px \in Canvas PROVE Decoded(Image!EncodeSixel(px)) = px
  BY DEF ShownAsPainted
<1> DEFINE W == PaintedWidth
           H == PaintedHeight
           bands == (H + 5) \div 6
           sixel == [b \in 1..bands |-> Image!Sent(px, b - 1)]
           drawn == [b \in 1..bands |-> Sheets(Image!Sent(px, b - 1))]
           Color(x, y) == DrawnAt(drawn[(y \div 6) + 1], x, y % 6)
<1>1. W \in Nat /\ H \in Nat /\ bands \in Nat
  <2>1. W \in Nat /\ H \in Nat
    BY ViewsAssumption
  <2>2. (H + 5) \div 6 \in Int /\ H + 5 < 6 * ((H + 5) \div 6) + 6
    BY <2>1
  <2> QED BY <2>1, <2>2
<1>2. Image!EncodeSixel(px) = sixel
  <2>1. Image!EncodeSixel(px) = Image!Listed(sixel)
    BY DEF Image!EncodeSixel
  <2>2. sixel \in Seq({sixel[b] : b \in 1..bands})
    <3>1. DOMAIN sixel = 1..bands /\ sixel = [b \in 1..bands |-> sixel[b]]
      OBVIOUS
    <3> HIDE DEF sixel, bands
    <3> QED BY <1>1, <3>1, CountedIsSeq
  <2> HIDE DEF sixel
  <2> QED BY <2>1, <2>2, ListedIs
<1>3. Listed([b \in DOMAIN sixel |-> Sheets(sixel[b])]) = drawn
  <2>1. [b \in DOMAIN sixel |-> Sheets(sixel[b])] = drawn
    OBVIOUS
  <2>2. drawn \in Seq({drawn[b] : b \in 1..bands})
    <3>1. DOMAIN drawn = 1..bands /\ drawn = [b \in 1..bands |-> drawn[b]]
      OBVIOUS
    <3> HIDE DEF drawn, bands
    <3> QED BY <1>1, <3>1, CountedIsSeq
  <2> HIDE DEF drawn, sixel
  <2> QED BY <2>1, <2>2, ListedIs
<1>4. Decoded(sixel) = [i \in 1..(W * H) |-> Color(((i - 1) % W) + 1, (i - 1) \div W)]
  <2> HIDE DEF sixel, drawn
  <2> QED BY <1>3 DEF Decoded
<1> HIDE DEF sixel
<1>5. ASSUME NEW i \in 1..(W * H)
      PROVE  Color(((i - 1) % W) + 1, (i - 1) \div W) = px[i]
  <2>1. W \in Nat \ {0} /\ H \in Nat \ {0} /\ W * H \in Nat
    BY <1>1
  <2>2. PICK a \in Int : a = (i - 1) % W
    BY <2>1
  <2>3. PICK y \in Int : y = (i - 1) \div W
    BY <2>1
  <2>4. i - 1 = W * y + a /\ a \in 0..(W - 1)
    BY <2>1, <2>2, <2>3
  <2>5. y \in 0..(H - 1)
    <3>1. CASE y <= -1
      <4>1. W * y <= -W
        BY <2>1, <3>1
      <4> QED BY <2>1, <2>4, <4>1
    <3>2. CASE y >= H
      <4>1. W * y >= W * H
        BY <2>1, <3>2
      <4> QED BY <2>1, <2>4, <4>1
    <3> QED BY <1>1, <3>1, <3>2
  <2>6. PICK band \in Int : band = y \div 6
    BY <2>5
  <2>7. PICK r \in Int : r = y % 6
    BY <2>5
  <2>8. y = 6 * band + r /\ r \in 0..5 /\ band \in Nat
    BY <2>5, <2>6, <2>7
  <2>9. band + 1 \in 1..bands
    <3>1. PICK m \in Int : m = (H + 5) \div 6
      BY <1>1
    <3>2. H + 5 < 6 * m + 6
      BY <1>1, <3>1
    <3> QED BY <1>1, <2>5, <2>8, <3>1, <3>2
  <2>10. W * y + (a + 1) = i /\ a + 1 \in 1..W
    <3>1. W * y \in Int
      BY <2>1
    <3> QED BY <2>1, <2>4, <3>1
  <2>11. DrawnAt(Sheets(Image!Sent(px, band)), a + 1, r) = px[i]
    BY <2>5, <2>8, <2>10, DrawnIsPainted
  <2>12. drawn[band + 1] = Sheets(Image!Sent(px, band))
    <3>1. (band + 1) - 1 = band
      BY <2>8
    <3> QED BY <2>9, <3>1
  <2> HIDE DEF drawn
  <2> QED BY <2>2, <2>3, <2>6, <2>7, <2>11, <2>12
<1>6. px = [i \in 1..(W * H) |-> px[i]]
  BY DEF Canvas
<1> HIDE DEF drawn
<1> QED BY <1>2, <1>4, <1>5, <1>6

-----------------------------------------------------------------------------
(***************************************************************************)
(* The overview of a file.                                                 *)
(***************************************************************************)
IsFile(times) ==
    /\ times \in Seq(Int) /\ times # <<>>
    /\ \A i, j \in 1..Len(times) : i < j => times[i] <= times[j]

\* What is used of a file of n frames: its days are in order.
InDays(times, n) ==
    /\ n = Len(times) /\ DOMAIN times = 1..n /\ Head(times) = times[1] /\ Last(times) = times[n]
    /\ \A i \in 1..n : times[i] \in Int /\ DayOf(times[i]) \in Int
    /\ \A i, j \in 1..n : i < j => DayOf(times[i]) <= DayOf(times[j])
    /\ LaterDays(times) = {DayOf(times[i]) : i \in 1..n} \ {DayOf(times[1])}

LEMMA FileInDays ==
  ASSUME NEW times, IsFile(times)
  PROVE  \E n \in Nat \ {0} : InDays(times, n)
<1>1. times \in Seq(Int) /\ times # <<>>
  BY DEF IsFile
<1>2. PICK n \in Nat \ {0} : n = Len(times)
  BY <1>1
<1>3. DOMAIN times = 1..n /\ \A i \in 1..n : times[i] \in Int
  BY <1>1, <1>2
<1>4. Head(times) = times[1] /\ Last(times) = times[n]
  BY <1>1, <1>2 DEF Last
<1>5. \A i, j \in 1..n : i < j => times[i] <= times[j]
  BY <1>2 DEF IsFile
<1>6. \A i \in 1..n : DayOf(times[i]) \in Int
  <2> TAKE i \in 1..n
  <2>1. times[i] \in Int /\ times[i] <= times[i]
    BY <1>3
  <2> QED BY <2>1, DaysInOrder
<1>7. ASSUME NEW i \in 1..n, NEW j \in 1..n, i < j
      PROVE  DayOf(times[i]) <= DayOf(times[j])
  <2>1. times[i] \in Int /\ times[j] \in Int /\ times[i] <= times[j]
    BY <1>3, <1>5, <1>7
  <2> QED BY <2>1, DaysInOrder
<1>8. LaterDays(times) = {DayOf(times[i]) : i \in 1..n} \ {DayOf(times[1])}
  <2>1. ToSet(times) = {times[i] : i \in 1..n}
    BY <1>3 DEF ToSet
  <2>2. {DayOf(t) : t \in ToSet(times)} = {DayOf(times[i]) : i \in 1..n}
    BY <2>1
  <2> QED BY <1>4, <2>2 DEF LaterDays
<1> QED BY <1>2, <1>3, <1>4, <1>6, <1>7, <1>8 DEF InDays

LEMMA DayFrom ==
  ASSUME NEW t \in Int, NEW day \in Int
  PROVE  Day * day \in Int /\ (Day * day <= t <=> day <= DayOf(t))
<1>1. Day \in Nat \ {0}
  BY BarsAssumption
<1>2. PICK a \in Int : a = DayOf(t) /\ Day * a <= t /\ t < Day * a + Day
  BY <1>1, Division DEF DayOf
<1>3. Day * day \in Int /\ Day * a \in Int
  BY <1>1
<1>4. Day * day - Day * a = Day * (day - a)
  BY <1>1, Multiples
<1>5. CASE day <= a
  <2>1. Day * (day - a) <= 0
    BY <1>1, <1>5
  <2> QED BY <1>2, <1>3, <1>4, <1>5, <2>1
<1>6. CASE day >= a + 1
  <2>1. Day * (day - a) >= Day
    <3>1. \A c \in Nat \ {0} : Day * c >= Day
      BY <1>1
    <3> QED BY <1>6, <3>1
  <2> QED BY <1>1, <1>2, <1>3, <1>4, <1>6, <2>1
<1> QED BY <1>2, <1>5, <1>6

LEMMA LeastOf ==
  ASSUME NEW S, S \subseteq Nat, S # {}
  PROVE  Min(S) \in S /\ \A k \in S : Min(S) <= k
<1>1. PICK m \in S : \A k \in S : m <= k
  BY LeastElement
<1>2. Min(S) \in S /\ \A y \in S : Min(S) <= y
  BY <1>1 DEF Min
<1> QED BY <1>2

\* The frame where a day opens: those before it are of days before.
LEMMA OpenLaw ==
  ASSUME NEW times, NEW n \in Nat \ {0}, InDays(times, n), NEW i \in 1..n,
         \A j \in 1..(i - 1) : DayOf(times[j]) < DayOf(times[i])
  PROVE  OpenOf(times, DayOf(times[i])) = i
<1> DEFINE S == {j \in DOMAIN times : DayOf(times[j]) = DayOf(times[i])}
<1>1. DOMAIN times = 1..n /\ \A j \in 1..n : DayOf(times[j]) \in Int
  BY DEF InDays
<1>2. S \subseteq Nat /\ i \in S
  BY <1>1
<1>3. Min(S) \in S /\ Min(S) <= i
  <2> HIDE DEF S
  <2> QED BY <1>2, LeastOf
<1>4. Min(S) = i
  <2>1. CASE Min(S) < i
    <3>1. Min(S) \in 1..(i - 1) /\ DayOf(times[Min(S)]) = DayOf(times[i])
      BY <1>1, <1>3, <2>1
    <3> QED BY <1>1, <3>1
  <2> QED BY <1>1, <1>3, <2>1
<1> QED BY <1>4 DEF OpenOf

LEMMA OpensWhere ==
  ASSUME NEW times, NEW n \in Nat \ {0}, InDays(times, n), NEW d \in LaterDays(times)
  PROVE  /\ OpenOf(times, d) \in 2..n /\ DayOf(times[OpenOf(times, d)]) = d
         /\ \A j \in 1..(OpenOf(times, d) - 1) : DayOf(times[j]) < d
         /\ d \in Int /\ DayOf(times[1]) < d
<1> DEFINE S == {j \in DOMAIN times : DayOf(times[j]) = d}
           i == Min(S)
<1>1. /\ DOMAIN times = 1..n /\ \A j \in 1..n : DayOf(times[j]) \in Int
      /\ \A j, k \in 1..n : j < k => DayOf(times[j]) <= DayOf(times[k])
      /\ LaterDays(times) = {DayOf(times[j]) : j \in 1..n} \ {DayOf(times[1])}
  BY DEF InDays
<1>2. S \subseteq Nat /\ S # {} /\ d # DayOf(times[1])
  BY <1>1
<1>3. i \in S /\ \A k \in S : i <= k
  <2> HIDE DEF S
  <2> QED BY <1>2, LeastOf
<1>4. i \in 1..n /\ DayOf(times[i]) = d
  BY <1>1, <1>3
<1>5. \A j \in 1..n : DayOf(times[j]) = d => i <= j
  BY <1>1, <1>3
<1>6. OpenOf(times, d) = i
  BY DEF OpenOf
<1> HIDE DEF i, S
<1>7. i # 1
  BY <1>2, <1>4
<1>8. ASSUME NEW j \in 1..(i - 1) PROVE DayOf(times[j]) < d
  <2>1. j \in 1..n /\ j < i
    BY <1>4
  <2>2. DayOf(times[j]) <= d /\ DayOf(times[j]) # d
    BY <1>1, <1>4, <1>5, <2>1
  <2> QED BY <1>1, <1>4, <2>1, <2>2
<1>9. 1 \in 1..(i - 1)
  BY <1>4, <1>7
<1> QED BY <1>1, <1>4, <1>6, <1>7, <1>8, <1>9

\* The first frame from a midnight on opens a day, and no frame is of a day
\* between.
LEMMA LandLaw ==
  ASSUME NEW times, NEW n \in Nat \ {0}, InDays(times, n), NEW day \in Int,
         Day * day <= times[n]
  PROVE  /\ LowerBound(times, Day * day) \in 1..n
         /\ day <= DayOf(times[LowerBound(times, Day * day)])
         /\ \A j \in 1..(LowerBound(times, Day * day) - 1) : DayOf(times[j]) < day
<1> DEFINE S == {i \in DOMAIN times : times[i] >= Day * day}
           T == S \cup {Len(times) + 1}
           m == Min(T)
<1>1. DOMAIN times = 1..n /\ \A j \in 1..n : times[j] \in Int /\ DayOf(times[j]) \in Int
  BY DEF InDays
<1>2. \A j \in 1..n : times[j] >= Day * day <=> day <= DayOf(times[j])
  <2> TAKE j \in 1..n
  <2>1. times[j] \in Int
    BY <1>1
  <2>2. Day * day \in Int /\ (Day * day <= times[j] <=> day <= DayOf(times[j]))
    BY <2>1, DayFrom
  <2> QED BY <2>1, <2>2
<1>3. Len(times) = n
  BY DEF InDays
<1>4. S = {j \in 1..n : day <= DayOf(times[j])}
  BY <1>1, <1>2
<1>5. n \in S
  BY <1>2, <1>4, DayFrom, <1>1
<1>6. T \subseteq Nat /\ T # {}
  BY <1>1, <1>3
<1>7. m \in T /\ \A k \in T : m <= k
  <2> HIDE DEF T
  <2> QED BY <1>6, LeastOf
<1>8. m <= n
  BY <1>5, <1>7
<1>9. m \in S
  BY <1>3, <1>7, <1>8
<1>10. m \in 1..n /\ day <= DayOf(times[m])
  BY <1>4, <1>9
<1>11. LowerBound(times, Day * day) = m
  BY DEF LowerBound
<1> HIDE DEF m
<1>12. ASSUME NEW j \in 1..(m - 1) PROVE DayOf(times[j]) < day
  <2>1. j \in 1..n /\ j < m
    BY <1>10
  <2>2. ~(day <= DayOf(times[j]))
    BY <1>4, <1>7, <2>1
  <2> QED BY <1>1, <2>1, <2>2
<1> QED BY <1>10, <1>11, <1>12

-----------------------------------------------------------------------------
\* What is read of some days.
LEMMA OpensJoin ==
  ASSUME NEW times, NEW A, NEW B
  PROVE  OpensOf(times, A \cup B) = OpensOf(times, A) \cup OpensOf(times, B)
BY DEF OpensOf

LEMMA ToSetConcat ==
  ASSUME NEW a \in Seq(Int), NEW b \in Seq(Int)
  PROVE  ToSet(a \o b) = ToSet(a) \cup ToSet(b)
<1> DEFINE c == a \o b
<1>1. PICK m \in Nat : m = Len(a)
  OBVIOUS
<1>2. PICK l \in Nat : l = Len(b)
  OBVIOUS
<1>3. DOMAIN a = 1..m /\ DOMAIN b = 1..l /\ DOMAIN c = 1..(m + l)
  BY <1>1, <1>2
<1>4. \A i \in 1..m : c[i] = a[i]
  BY <1>1
<1>5. \A i \in 1..l : c[m + i] = b[i]
  BY <1>1, <1>2
<1> HIDE DEF c
<1>6. ASSUME NEW x \in ToSet(c) PROVE x \in ToSet(a) \cup ToSet(b)
  <2>1. PICK i \in 1..(m + l) : x = c[i]
    BY <1>3 DEF ToSet
  <2>2. CASE i \in 1..m
    BY <1>3, <1>4, <2>1, <2>2 DEF ToSet
  <2>3. CASE i \notin 1..m
    <3>1. i - m \in 1..l /\ m + (i - m) = i
      BY <2>3
    <3>2. x = b[i - m]
      BY <1>5, <2>1, <3>1
    <3> QED BY <1>3, <3>1, <3>2 DEF ToSet
  <2> QED BY <2>2, <2>3
<1>7. ToSet(a) \subseteq ToSet(c)
  <2>1. \A i \in 1..m : i \in 1..(m + l)
    OBVIOUS
  <2> QED BY <1>3, <1>4, <2>1 DEF ToSet
<1>8. ToSet(b) \subseteq ToSet(c)
  <2>1. \A i \in 1..l : m + i \in 1..(m + l)
    OBVIOUS
  <2> QED BY <1>3, <1>5, <2>1 DEF ToSet
<1> QED BY <1>6, <1>7, <1>8 DEF c

LEMMA PartOf ==
  ASSUME NEW s \in Seq(Int), NEW a \in Nat \ {0}, NEW b \in 0..Len(s), a <= b + 1
  PROVE  /\ SubSeq(s, a, b) \in Seq(Int) /\ Len(SubSeq(s, a, b)) = b - a + 1
         /\ \A i \in 1..(b - a + 1) : SubSeq(s, a, b)[i] = s[a + i - 1]
<1>1. PICK n \in Nat : n = Len(s) /\ DOMAIN s = 1..n
  OBVIOUS
<1>2. \A i \in a..b : s[i] \in Int
  BY <1>1
<1>3. a \in Int /\ b \in Int
  BY <1>1
<1>4. /\ SubSeq(s, a, b) \in Seq(Int)
      /\ Len(SubSeq(s, a, b)) = IF a <= b THEN b - a + 1 ELSE 0
      /\ \A i \in 1..(b - a + 1) : SubSeq(s, a, b)[i] = s[a + i - 1]
  BY <1>2, <1>3, SubSeqProperties
<1> QED BY <1>3, <1>4

LEMMA FramesAre ==
  ASSUME NEW times, NEW n \in Nat \ {0}, InDays(times, n), times \in Seq(Int),
         NEW i \in 1..n, NEW d, i = OpenOf(times, d)
  PROVE  /\ FramesFrom(times, i) \in Seq(Int)
         /\ ToSet(FramesFrom(times, i)) = OpensOf(times, {d})
         /\ times[i] \in OpensOf(times, {d})
<1>1. ProbeFrames \in Nat \ {0}
  BY InspectAssumption
<1>2. PICK F \in Nat \ {0} : F = ProbeFrames
  BY <1>1
<1>3. n = Len(times) /\ DOMAIN times = 1..n /\ \A j \in 1..n : times[j] \in Int
  BY DEF InDays
<1>4. PICK hi \in i..n : /\ hi = Min({n, i + F - 1})
                         /\ \A j \in 1..n : j <= hi <=> j <= i + F - 1
  <2>1. Min({n, i + F - 1}) = IF n <= i + F - 1 THEN n ELSE i + F - 1
    BY MinPair
  <2> QED BY <2>1
<1>5. FramesFrom(times, i) = SubSeq(times, i, hi)
  BY <1>2, <1>3, <1>4 DEF FramesFrom
<1> DEFINE s == SubSeq(times, i, hi)
<1>6. i \in Nat \ {0} /\ hi \in 0..Len(times) /\ i <= hi + 1
  BY <1>3
<1>7. /\ s \in Seq(Int) /\ Len(s) = hi - i + 1
      /\ \A k \in 1..(hi - i + 1) : s[k] = times[i + k - 1]
  BY <1>6, PartOf
<1>8. DOMAIN s = 1..(hi - i + 1) /\ \A k \in 1..(hi - i + 1) : s[k] = times[i + k - 1]
  BY <1>7, SMTT(30)
<1> HIDE DEF s
<1>9. ToSet(s) = {times[j] : j \in i..hi}
  <2>1. \A k \in 1..(hi - i + 1) : i + k - 1 \in i..hi
    OBVIOUS
  <2>2. \A j \in i..hi : j - i + 1 \in 1..(hi - i + 1) /\ i + (j - i + 1) - 1 = j
    OBVIOUS
  <2>3. ASSUME NEW j \in i..hi PROVE times[j] \in ToSet(s)
    <3>1. s[j - i + 1] = times[j]
      BY <1>8, <2>2
    <3> QED BY <1>8, <2>2, <3>1 DEF ToSet
  <2>4. \A k \in 1..(hi - i + 1) : s[k] \in {times[j] : j \in i..hi}
    BY <1>8, <2>1
  <2>5. ToSet(s) \subseteq {times[j] : j \in i..hi}
    BY <1>8, <2>4, ZenonT(40) DEF ToSet
  <2>6. {times[j] : j \in i..hi} \subseteq ToSet(s)
    BY <2>3
  <2> QED BY <2>5, <2>6
<1>10. {j \in 1..n : j \in i..(i + F - 1)} = i..hi
  <2>1. \A j \in 1..n : j \in i..(i + F - 1) <=> j \in i..hi
    <3> TAKE j \in 1..n
    <3>1. j <= hi <=> j <= i + F - 1
      BY <1>4
    <3> QED BY <3>1
  <2>2. \A j \in i..hi : j \in 1..n
    OBVIOUS
  <2> QED BY <2>1, <2>2
<1>11. OpensOf(times, {d}) = {times[j] : j \in i..hi}
  <2>1. OpensOf(times, {d}) = {times[j] : j \in {k \in 1..n : k \in i..(i + F - 1)}}
    BY <1>2, <1>3 DEF OpensOf
  <2> QED BY <1>10, <2>1
<1>12. i \in i..hi
  OBVIOUS
<1>13. FramesFrom(times, i) = s
  BY <1>5 DEF s
<1> QED BY <1>7, <1>9, <1>11, <1>12, <1>13

-----------------------------------------------------------------------------
\* Days before, and after, a day.
Below(times, day) == {d \in LaterDays(times) : d < day}
Above(times, day) == {d \in LaterDays(times) : d > day}

LEMMA DaysFinite ==
  ASSUME NEW times, NEW n \in Nat \ {0}, InDays(times, n)
  PROVE  /\ IsFiniteSet(LaterDays(times))
         /\ \A A \in SUBSET LaterDays(times) : IsFiniteSet(A) /\ Cardinality(A) \in Nat
<1>1. /\ \A i \in 1..n : DayOf(times[i]) \in Int
      /\ \A i, j \in 1..n : i < j => DayOf(times[i]) <= DayOf(times[j])
      /\ LaterDays(times) \subseteq {DayOf(times[i]) : i \in 1..n}
  BY DEF InDays
<1>2. PICK a \in Int : a = DayOf(times[1])
  BY <1>1
<1>3. PICK b \in Int : b = DayOf(times[n])
  BY <1>1
<1>4. \A i \in 1..n : DayOf(times[i]) \in a..b
  <2> TAKE i \in 1..n
  <2>1. a <= DayOf(times[i])
    BY <1>1, <1>2
  <2>2. DayOf(times[i]) <= b
    BY <1>1, <1>3
  <2> QED BY <1>1, <2>1, <2>2
<1>5. LaterDays(times) \subseteq a..b
  BY <1>1, <1>4
<1>6. IsFiniteSet(a..b)
  BY FS_Interval
<1>7. IsFiniteSet(LaterDays(times))
  BY <1>5, <1>6, FS_Subset
<1> QED BY <1>7, FS_Subset, FS_CardinalityType

WalkType == [day : Int, probed : SUBSET Nat, opens : Seq(Int), over : BOOLEAN, decided : BOOLEAN]

\* What a walk has read, and where: the opens of some days.
HasRead(times, w, days) ==
    /\ w \in WalkType
    /\ w.probed = {OpenOf(times, d) : d \in days}
    /\ ToSet(w.opens) = OpensOf(times, days)
    /\ w.decided <=> Outside(w.opens)
    /\ ~w.over => ~w.decided

LEMMA WalkIs ==
  ASSUME NEW day \in Int, NEW probed \in SUBSET Nat, NEW opens \in Seq(Int), NEW b \in BOOLEAN
  PROVE  [day |-> day, probed |-> probed, opens |-> opens, over |-> b, decided |-> b] \in WalkType
BY DEF WalkType

\* The walk after frame i was probed.
Probed(times, w, i, day) ==
    [day |-> day, probed |-> w.probed \cup {i}, opens |-> w.opens \o FramesFrom(times, i),
     over |-> Outside(FramesFrom(times, i)), decided |-> Outside(FramesFrom(times, i))]

\* Where frame i, of day d, is probed next.
Probes(times, n, w, days, i, d) ==
    /\ n \in Nat \ {0} /\ InDays(times, n) /\ times \in Seq(Int)
    /\ HasRead(times, w, days) /\ ~w.over
    /\ i \in 1..n /\ i = OpenOf(times, d)

LEMMA ReadMore ==
  ASSUME NEW times, NEW n, NEW w, NEW days, NEW i, NEW d, Probes(times, n, w, days, i, d),
         NEW day \in Int
  PROVE  /\ HasRead(times, Probed(times, w, i, day), days \cup {d})
         /\ Probed(times, w, i, day).day = day
         /\ Probed(times, w, i, day).over <=> Probed(times, w, i, day).decided
<1> DEFINE f == FramesFrom(times, i)
           next == Probed(times, w, i, day)
<1>0. /\ n \in Nat \ {0} /\ InDays(times, n) /\ times \in Seq(Int)
      /\ HasRead(times, w, days) /\ ~w.over
      /\ i \in 1..n /\ i = OpenOf(times, d)
  BY DEF Probes
<1>1. f \in Seq(Int) /\ ToSet(f) = OpensOf(times, {d})
  BY <1>0, FramesAre
<1> HIDE DEF f
<1>2. /\ w \in WalkType /\ ~w.decided
      /\ w.probed = {OpenOf(times, e) : e \in days}
      /\ ToSet(w.opens) = OpensOf(times, days)
      /\ ~Outside(w.opens)
  BY <1>0 DEF HasRead
<1>3. w.opens \in Seq(Int) /\ w.probed \subseteq Nat
  BY <1>2 DEF WalkType
<1>4. ToSet(w.opens \o f) = ToSet(w.opens) \cup ToSet(f)
  BY <1>1, <1>3, ToSetConcat
<1>5. ToSet(w.opens \o f) = OpensOf(times, days \cup {d})
  <2>1. OpensOf(times, days \cup {d}) = OpensOf(times, days) \cup OpensOf(times, {d})
    BY OpensJoin
  <2> QED BY <1>1, <1>2, <1>4, <2>1
<1>6. Outside(w.opens \o f) <=> Outside(f)
  BY <1>2, <1>4 DEF Outside
<1>7. w.opens \o f \in Seq(Int)
  BY <1>1, <1>3
<1>8. w.probed \cup {i} = {OpenOf(times, e) : e \in days \cup {d}}
  BY <1>0, <1>2
<1>9. PICK b \in BOOLEAN : b <=> Outside(f)
  OBVIOUS
<1>10. next = [day |-> day, probed |-> w.probed \cup {i}, opens |-> w.opens \o f,
               over |-> b, decided |-> b]
  <2>1. Outside(f) \in BOOLEAN
    BY DEF Outside
  <2>2. b = Outside(f)
    BY <1>9, <2>1
  <2> QED BY <2>2 DEF f, Probed
<1> HIDE DEF next
<1>11. next \in WalkType
  <2>1. w.probed \cup {i} \in SUBSET Nat
    BY <1>0, <1>3
  <2> HIDE DEF WalkType
  <2> QED BY <1>7, <1>9, <1>10, <2>1, WalkIs
<1>12. /\ next.day = day /\ next.probed = w.probed \cup {i} /\ next.opens = w.opens \o f
       /\ next.over = b /\ next.decided = b
  BY <1>10
<1>13. HasRead(times, next, days \cup {d})
  BY <1>5, <1>6, <1>8, <1>9, <1>11, <1>12 DEF HasRead
<1> QED BY <1>12, <1>13 DEF next

LEMMA Stopped ==
  ASSUME NEW times, NEW w, NEW days, HasRead(times, w, days)
  PROVE  LET next == [w EXCEPT !.over = TRUE]
         IN  /\ HasRead(times, next, days)
             /\ next.day = w.day /\ next.over /\ (next.decided <=> w.decided)
<1> DEFINE next == [w EXCEPT !.over = TRUE]
<1>1. w \in WalkType
  BY DEF HasRead
<1>2. /\ next \in WalkType /\ next.over = TRUE
      /\ next.day = w.day /\ next.probed = w.probed /\ next.opens = w.opens
      /\ next.decided = w.decided
  BY <1>1 DEF WalkType
<1> HIDE DEF next
<1>3. /\ HasRead(times, next, days)
      /\ next.day = w.day /\ next.over /\ (next.decided <=> w.decided)
  BY <1>2 DEF HasRead
<1> QED BY <1>3 DEF next

-----------------------------------------------------------------------------
\* Where the head's walk is after m probes.
HeadFine(times, w, m) ==
    /\ HasRead(times, w, Below(times, w.day))
    /\ w.day > DayOf(times[1])
    /\ Cardinality(Below(times, w.day)) <= m
    /\ ~w.over => Cardinality(Below(times, w.day)) = m
    /\ w.over /\ ~w.decided => Below(times, w.day) = LaterDays(times)

LEMMA HeadStops ==
  ASSUME NEW times, NEW n \in Nat \ {0}, InDays(times, n),
         NEW m \in Nat, NEW w, HeadFine(times, w, m), w.over \/ Day * w.day > times[n]
  PROVE  HeadFine(times, [w EXCEPT !.over = TRUE], m + 1)
<1> DEFINE next == [w EXCEPT !.over = TRUE]
           B == Below(times, w.day)
<1>1. /\ HasRead(times, w, B) /\ w.day > DayOf(times[1]) /\ Cardinality(B) <= m
      /\ w.over /\ ~w.decided => B = LaterDays(times)
  BY DEF HeadFine
<1>2. /\ HasRead(times, next, B)
      /\ next.day = w.day /\ next.over /\ (next.decided <=> w.decided)
  <2> HIDE DEF B
  <2> QED BY <1>1, Stopped
<1>3. w.day \in Int
  BY <1>1 DEF HasRead, WalkType
<1>4. ASSUME ~w.over, NEW e \in LaterDays(times) PROVE e < w.day
  <2>1. /\ \A i \in 1..n : times[i] \in Int /\ DayOf(times[i]) \in Int
        /\ \A i, j \in 1..n : i < j => DayOf(times[i]) <= DayOf(times[j])
        /\ LaterDays(times) = {DayOf(times[i]) : i \in 1..n} \ {DayOf(times[1])}
    BY DEF InDays
  <2>2. PICK i \in 1..n : e = DayOf(times[i])
    BY <1>4, <2>1
  <2>3. e <= DayOf(times[n]) /\ e \in Int /\ DayOf(times[n]) \in Int
    BY <2>1, <2>2
  <2>4. Day * w.day \in Int /\ (Day * w.day <= times[n] <=> w.day <= DayOf(times[n]))
    BY <1>3, <2>1, DayFrom
  <2>5. Day * w.day > times[n]
    BY <1>4
  <2>6. ~(w.day <= DayOf(times[n]))
    BY <2>1, <2>4, <2>5
  <2> QED BY <1>3, <2>3, <2>6
<1>5. ~w.over => B = LaterDays(times)
  BY <1>4 DEF Below
<1>6. Cardinality(B) <= m + 1
  <2>1. B \in SUBSET LaterDays(times)
    BY DEF Below
  <2>2. PICK c \in Nat : c = Cardinality(B)
    BY <2>1, DaysFinite
  <2> HIDE DEF B
  <2> QED BY <1>1, <2>2
<1>7. B = Below(times, next.day)
  BY <1>2
<1> HIDE DEF next, B
<1>8. HeadFine(times, next, m + 1)
  BY <1>1, <1>2, <1>5, <1>6, <1>7 DEF HeadFine
<1> QED BY <1>8 DEF next

LEMMA HeadReads ==
  ASSUME NEW times, NEW n \in Nat \ {0}, InDays(times, n), times \in Seq(Int),
         NEW m \in Nat, NEW w, HeadFine(times, w, m), ~w.over, ~(Day * w.day > times[n])
  PROVE  HeadFine(times, HeadProbe(times, w), m + 1)
<1> DEFINE i == LowerBound(times, Day * w.day)
           d == DayOf(times[i])
           B == Below(times, w.day)
           next == Probed(times, w, i, d + 1)
<1>1. HasRead(times, w, B) /\ w.day > DayOf(times[1]) /\ Cardinality(B) = m
  BY DEF HeadFine
<1>2. w.day \in Int
  BY <1>1 DEF HasRead, WalkType
<1>3. /\ \A j \in 1..n : times[j] \in Int /\ DayOf(times[j]) \in Int
      /\ \A j, k \in 1..n : j < k => DayOf(times[j]) <= DayOf(times[k])
      /\ LaterDays(times) = {DayOf(times[j]) : j \in 1..n} \ {DayOf(times[1])}
      /\ Last(times) = times[n]
  BY DEF InDays
<1>4. Day * w.day <= times[n]
  <2>1. Day * w.day \in Int /\ times[n] \in Int
    BY <1>2, <1>3, DayFrom
  <2> QED BY <2>1
<1>5. /\ i \in 1..n /\ w.day <= d
      /\ \A j \in 1..(i - 1) : DayOf(times[j]) < w.day
  BY <1>2, <1>4, LandLaw
<1>6. d \in Int
  BY <1>3, <1>5
<1>7. HeadProbe(times, w) = next
  <2>1. ~(w.over \/ Day * w.day > Last(times))
    BY <1>3
  <2> QED BY <2>1 DEF HeadProbe, Probed
<1> HIDE DEF i
<1>8. i = OpenOf(times, d)
  <2>1. \A j \in 1..(i - 1) : DayOf(times[j]) < DayOf(times[i])
    <3> TAKE j \in 1..(i - 1)
    <3>1. DayOf(times[j]) < w.day /\ DayOf(times[j]) \in Int
      BY <1>3, <1>5
    <3> QED BY <1>2, <1>5, <1>6, <3>1
  <2> QED BY <1>5, <2>1, OpenLaw
<1>9. d \in LaterDays(times) /\ d > DayOf(times[1]) /\ d \notin B
  <2>1. DayOf(times[1]) \in Int
    BY <1>3
  <2>2. d > DayOf(times[1])
    BY <1>1, <1>2, <1>5, <1>6, <2>1
  <2>3. d \in LaterDays(times)
    BY <1>3, <1>5, <1>6, <2>1, <2>2
  <2>4. ~(d < w.day)
    BY <1>2, <1>5, <1>6
  <2> QED BY <2>2, <2>3, <2>4 DEF Below
<1>10. Below(times, d + 1) = B \cup {d}
  <2>1. ASSUME NEW e \in LaterDays(times)
        PROVE  e < d + 1 <=> (e < w.day \/ e = d)
    <3>1. PICK j \in 1..n : e = DayOf(times[j])
      BY <1>3, <2>1
    <3>2. e \in Int
      BY <1>3, <3>1
    <3>3. CASE j < i
      <4>1. j \in 1..(i - 1)
        BY <1>5, <3>3
      <4>2. e < w.day
        BY <1>5, <3>1, <4>1
      <4> QED BY <1>2, <1>5, <1>6, <3>2, <4>2
    <3>4. CASE j >= i
      <4>1. d <= e
        <5>1. i = j \/ i < j
          BY <1>5, <3>4
        <5>2. i < j => DayOf(times[i]) <= DayOf(times[j])
          BY <1>3, <1>5
        <5> QED BY <1>6, <3>1, <5>1, <5>2
      <4> QED BY <1>2, <1>5, <1>6, <3>2, <4>1
    <3> QED BY <1>5, <3>3, <3>4
  <2> HIDE DEF d
  <2>2. Below(times, d + 1) \subseteq B \cup {d}
    BY <2>1 DEF Below
  <2>3. B \cup {d} \subseteq Below(times, d + 1)
    BY <1>9, <2>1 DEF Below
  <2> QED BY <2>2, <2>3
<1> HIDE DEF d, B
<1>11. /\ HasRead(times, next, B \cup {d}) /\ next.day = d + 1
       /\ next.over <=> next.decided
  <2>1. d + 1 \in Int
    BY <1>6
  <2>2. HasRead(times, Probed(times, w, i, d + 1), B \cup {d}) /\ Probed(times, w, i, d + 1).day = d + 1
        /\ (Probed(times, w, i, d + 1).over <=> Probed(times, w, i, d + 1).decided)
    <3>1. Probes(times, n, w, B, i, d)
      BY <1>1, <1>5, <1>8 DEF Probes
    <3> QED BY <2>1, <3>1, ReadMore
  <2> QED BY <2>2
<1>12. Cardinality(B \cup {d}) = m + 1
  <2>1. IsFiniteSet(B)
    <3>1. B \in SUBSET LaterDays(times)
      BY DEF B, Below
    <3> QED BY <3>1, DaysFinite
  <2> QED BY <1>1, <1>9, <2>1, FS_AddElement
<1> HIDE DEF next
<1>14. HeadFine(times, next, m + 1)
  <2> DEFINE X == B \cup {d}
  <2>1. Below(times, next.day) = X /\ HasRead(times, next, X)
    BY <1>10, <1>11
  <2>2. next.day > DayOf(times[1])
    <3>1. DayOf(times[1]) \in Int
      BY <1>3
    <3> QED BY <1>6, <1>9, <1>11, <3>1
  <2>3. Cardinality(X) = m + 1 /\ Cardinality(X) <= m + 1
    BY <1>12
  <2> HIDE DEF X
  <2> QED BY <1>11, <2>1, <2>2, <2>3 DEF HeadFine
<1> QED BY <1>7, <1>14

LEMMA HeadKeeps ==
  ASSUME NEW times, NEW n \in Nat \ {0}, InDays(times, n), times \in Seq(Int),
         NEW m \in Nat, NEW w, HeadFine(times, w, m)
  PROVE  HeadFine(times, HeadProbe(times, w), m + 1)
<1>1. Last(times) = times[n]
  BY DEF InDays
<1>2. CASE w.over \/ Day * w.day > times[n]
  <2>1. HeadProbe(times, w) = [w EXCEPT !.over = TRUE]
    BY <1>1, <1>2 DEF HeadProbe
  <2> QED BY <1>2, <2>1, HeadStops
<1>3. CASE ~(w.over \/ Day * w.day > times[n])
  BY <1>3, HeadReads
<1> QED BY <1>2, <1>3

LEMMA HeadBegins ==
  ASSUME NEW times, NEW n \in Nat \ {0}, InDays(times, n)
  PROVE  HeadFine(times, [day |-> DayOf(Head(times)) + 1, probed |-> {}, opens |-> <<>>,
                          over |-> FALSE, decided |-> FALSE], 0)
<1> DEFINE first == [day |-> DayOf(Head(times)) + 1, probed |-> {}, opens |-> <<>>,
                     over |-> FALSE, decided |-> FALSE]
<1>1. Head(times) = times[1] /\ DayOf(times[1]) \in Int
  BY DEF InDays
<1>2. PICK a \in Int : a = DayOf(Head(times)) /\ a = DayOf(times[1])
  BY <1>1
<1>3. /\ first.day = a + 1 /\ first.probed = {} /\ first.opens = <<>>
      /\ ~first.over /\ ~first.decided
  BY <1>2
<1>4. first \in WalkType
  <2>1. {} \in SUBSET Nat /\ <<>> \in Seq(Int) /\ DayOf(Head(times)) + 1 \in Int
    BY <1>2
  <2>2. FALSE \in BOOLEAN
    OBVIOUS
  <2> HIDE DEF WalkType
  <2> QED BY <2>1, <2>2, WalkIs
<1> HIDE DEF first
<1>5. Below(times, a + 1) = {}
  <2>1. \A d \in LaterDays(times) : d \in Int /\ a < d
    BY <1>2, OpensWhere
  <2>2. \A d \in LaterDays(times) : ~(d < a + 1)
    BY <2>1
  <2> QED BY <2>2 DEF Below
<1>6. HasRead(times, first, {})
  <2>1. ToSet(<<>>) = {}
    BY DEF ToSet
  <2>2. OpensOf(times, {}) = {}
    BY DEF OpensOf
  <2>3. ~Outside(<<>>)
    BY <2>1 DEF Outside
  <2> QED BY <1>3, <1>4, <2>1, <2>2, <2>3 DEF HasRead
<1>7. Cardinality({}) = 0
  BY FS_EmptySet
<1>8. HeadFine(times, first, 0)
  <2>1. Below(times, first.day) = {} /\ first.day > DayOf(times[1])
    BY <1>2, <1>3, <1>5
  <2>2. Cardinality({}) <= 0
    BY <1>7
  <2> QED BY <1>3, <1>6, <1>7, <2>1, <2>2 DEF HeadFine
<1> QED BY <1>8 DEF first

LEMMA HeadRan ==
  ASSUME NEW times, NEW n \in Nat \ {0}, InDays(times, n), times \in Seq(Int)
  PROVE  HeadFine(times, HeadWalk(times), ProbeDays)
<1> DEFINE N == ProbeDays
           S == {w \in WalkType : \E m \in Nat : HeadFine(times, w, m)}
           first == [day |-> DayOf(Head(times)) + 1, probed |-> {}, opens |-> <<>>,
                     over |-> FALSE, decided |-> FALSE]
           step == [x \in (1..N) \X S |-> HeadProbe(times, x[2])]
           Is(f) == f = [k \in 0..N |-> IF k = 0 THEN first ELSE HeadProbe(times, f[k - 1])]
<1>1. N \in Nat
  BY InspectAssumption
<1>2. \A w, m : HeadFine(times, w, m) => w \in WalkType
  BY DEF HeadFine, HasRead
<1>3. HeadFine(times, first, 0)
  BY HeadBegins
<1> HIDE DEF first
<1>4. first \in S
  BY <1>2, <1>3
<1>5. \A w \in S : HeadProbe(times, w) \in S
  <2> TAKE w \in S
  <2>1. PICK m \in Nat : HeadFine(times, w, m)
    OBVIOUS
  <2>2. HeadFine(times, HeadProbe(times, w), m + 1) /\ m + 1 \in Nat
    BY <2>1, HeadKeeps
  <2> QED BY <1>2, <2>2
<1> HIDE DEF S
<1>6. step \in [(1..N) \X S -> S]
  <2> HIDE DEF N
  <2> QED BY <1>5
<1>7. PICK f : IsRun(f, N, S, first, step)
  <2> HIDE DEF step, N
  <2> QED BY <1>1, <1>4, <1>6, Recursion
<1>8. /\ f \in [0..N -> S] /\ f[0] = first
      /\ \A k \in 1..N : f[k] = HeadProbe(times, f[k - 1])
  <2>1. /\ f \in [0..N -> S] /\ f[0] = first
        /\ \A k \in 1..N : f[k] = step[<<k, f[k - 1]>>]
    BY <1>7 DEF IsRun
  <2> HIDE DEF N
  <2>2. \A k \in 1..N : f[k - 1] \in S
    BY <1>1, <2>1
  <2>3. \A k \in 1..N : <<k, f[k - 1]>> \in (1..N) \X S
    BY <2>2
  <2> QED BY <2>1, <2>3
<1>9. Is(f)
  <2> HIDE DEF N
  <2>1. f = [k \in 0..N |-> f[k]]
    BY <1>8
  <2>2. \A k \in 0..N : f[k] = IF k = 0 THEN first ELSE HeadProbe(times, f[k - 1])
    <3>1. \A k \in 0..N : k = 0 \/ (k # 0 /\ k \in 1..N)
      BY <1>1
    <3> QED BY <1>8, <3>1, Zenon
  <2> QED BY <2>1, <2>2, Zenon
<1> DEFINE g == CHOOSE h : Is(h)
<1>10. Is(g)
  <2> HIDE DEF Is
  <2> QED BY <1>9
<1>11. HeadWalk(times) = g[N]
  BY DEF HeadWalk, first
<1>12. f[N] = g[N]
  <2> HIDE DEF g, N
  <2>1. g = [k \in 0..N |-> IF k = 0 THEN first ELSE HeadProbe(times, g[k - 1])]
    BY <1>10
  <2> HIDE DEF Is
  <2>2. g[0] = first
    BY <1>1, <2>1
  <2>3. \A k \in 1..N : g[k] = HeadProbe(times, g[k - 1])
    <3>1. \A k \in 1..N : k # 0 /\ k \in 0..N
      BY <1>1
    <3> QED BY <2>1, <3>1, Zenon
  <2>4. StepAlike(f, g, N)
    BY <1>8, <2>2, <2>3, Zenon DEF StepAlike
  <2> HIDE DEF step
  <2> QED BY <1>1, <2>4, Determined
<1> DEFINE Good == {k \in 0..N : HeadFine(times, f[k], k)}
<1>13. 0..N \subseteq Good
  <2>1. 0 \in Good
    BY <1>1, <1>3, <1>8
  <2>2. ASSUME NEW k \in 1..N, k - 1 \in Good PROVE k \in Good
    <3>1. HeadFine(times, f[k - 1], k - 1) /\ k - 1 \in Nat /\ (k - 1) + 1 = k
      BY <2>2
    <3>2. HeadFine(times, HeadProbe(times, f[k - 1]), k)
      <4>1. HeadFine(times, HeadProbe(times, f[k - 1]), (k - 1) + 1)
        BY <3>1, HeadKeeps
      <4> QED BY <3>1, <4>1
    <3> QED BY <1>8, <3>2
  <2> HIDE DEF Good, N
  <2> QED BY <1>1, <2>1, <2>2, Induction
<1>14. HeadFine(times, f[N], N)
  <2> HIDE DEF N
  <2> QED BY <1>1, <1>13
<1> HIDE DEF g
<1> QED BY <1>11, <1>12, <1>14 DEF N

\* Where the tail's walk is after m probes, the head's having ended before day h.
TailFine(times, n, h, w, m) ==
    /\ w.day \in {DayOf(times[i]) : i \in 1..n}
    /\ HasRead(times, w, Below(times, h) \cup Above(times, w.day))
    /\ Cardinality(Above(times, w.day)) <= m
    /\ ~w.over => Cardinality(Above(times, w.day)) = m
    /\ w.over /\ ~w.decided => Below(times, h) \cup Above(times, w.day) = LaterDays(times)

LEMMA TailLands ==
  ASSUME NEW times, NEW n \in Nat \ {0}, InDays(times, n),
         NEW day, day \in {DayOf(times[i]) : i \in 1..n}
  PROVE  LET i == LowerBound(times, Day * day)
         IN  /\ i \in 1..n /\ DayOf(times[i]) = day /\ i = OpenOf(times, day)
             /\ \A j \in 1..(i - 1) : DayOf(times[j]) < day
             /\ \A j \in i..n : day <= DayOf(times[j])
             /\ Day * day <= Head(times) <=> day = DayOf(times[1])
             /\ i = 1 => day = DayOf(times[1])
<1> DEFINE i == LowerBound(times, Day * day)
<1>1. /\ \A j \in 1..n : times[j] \in Int /\ DayOf(times[j]) \in Int
      /\ \A j, k \in 1..n : j < k => DayOf(times[j]) <= DayOf(times[k])
      /\ Head(times) = times[1]
  BY DEF InDays
<1>2. PICK k \in 1..n : day = DayOf(times[k])
  OBVIOUS
<1>3. day \in Int
  BY <1>1, <1>2
<1>4. \A j \in 1..n : Day * day <= times[j] <=> day <= DayOf(times[j])
  <2> TAKE j \in 1..n
  <2>1. times[j] \in Int
    BY <1>1
  <2> QED BY <1>3, <2>1, DayFrom
<1>5. day <= DayOf(times[n]) /\ DayOf(times[1]) <= day
  <2>1. k = n \/ k < n
    OBVIOUS
  <2>2. k = 1 \/ 1 < k
    OBVIOUS
  <2>3. day <= DayOf(times[n])
    BY <1>1, <1>2, <1>3, <2>1
  <2>4. DayOf(times[1]) <= day
    BY <1>1, <1>2, <1>3, <2>2
  <2> QED BY <2>3, <2>4
<1>6. Day * day <= times[n]
  BY <1>4, <1>5
<1>7. /\ i \in 1..n /\ day <= DayOf(times[i])
      /\ \A j \in 1..(i - 1) : DayOf(times[j]) < day
  BY <1>3, <1>6, LandLaw
<1> HIDE DEF i
<1>8. DayOf(times[i]) <= day
  <2>1. CASE k < i
    <3>1. k \in 1..(i - 1)
      BY <1>7, <2>1
    <3>2. DayOf(times[k]) < day
      BY <1>7, <3>1
    <3> QED BY <1>2, <1>3, <3>2
  <2>2. CASE k = i
    BY <1>2, <1>3, <2>2
  <2>3. CASE i < k
    BY <1>1, <1>2, <1>7, <2>3
  <2> QED BY <1>7, <2>1, <2>2, <2>3
<1>9. DayOf(times[i]) = day
  <2>1. DayOf(times[i]) \in Int
    BY <1>1, <1>7
  <2> QED BY <1>3, <1>7, <1>8, <2>1
<1>10. i = OpenOf(times, day)
  <2>1. \A j \in 1..(i - 1) : DayOf(times[j]) < DayOf(times[i])
    BY <1>7, <1>9
  <2>2. OpenOf(times, DayOf(times[i])) = i
    BY <1>7, <2>1, OpenLaw
  <2> QED BY <1>9, <2>2
<1>11. ASSUME NEW j \in i..n PROVE day <= DayOf(times[j])
  <2>1. j \in 1..n /\ (j = i \/ i < j)
    BY <1>7
  <2>2. i < j => DayOf(times[i]) <= DayOf(times[j])
    BY <1>1, <1>7, <2>1
  <2> QED BY <1>3, <1>9, <2>1, <2>2
<1>12. Day * day <= Head(times) <=> day = DayOf(times[1])
  <2>1. Day * day <= times[1] <=> day <= DayOf(times[1])
    BY <1>4
  <2>2. DayOf(times[1]) \in Int
    BY <1>1
  <2> QED BY <1>1, <1>3, <1>5, <2>1, <2>2
<1>13. i = 1 => day = DayOf(times[1])
  BY <1>9
<1> QED BY <1>7, <1>9, <1>10, <1>11, <1>12, <1>13 DEF i

LEMMA TailStops ==
  ASSUME NEW times, NEW n \in Nat \ {0}, InDays(times, n), NEW h \in Int,
         NEW m \in Nat, NEW w, TailFine(times, n, h, w, m),
         w.over \/ Day * w.day <= Head(times) \/ LowerBound(times, Day * w.day) \in w.probed
  PROVE  TailFine(times, n, h, [w EXCEPT !.over = TRUE], m + 1)
<1> DEFINE next == [w EXCEPT !.over = TRUE]
           day == w.day
           A == Above(times, day)
           D == Below(times, h) \cup A
           i == LowerBound(times, Day * day)
<1>1. /\ day \in {DayOf(times[j]) : j \in 1..n}
      /\ HasRead(times, w, D) /\ Cardinality(A) <= m
      /\ w.over /\ ~w.decided => D = LaterDays(times)
  BY DEF TailFine
<1>2. /\ HasRead(times, next, D)
      /\ next.day = day /\ next.over /\ (next.decided <=> w.decided)
  <2> HIDE DEF D
  <2> QED BY <1>1, Stopped
<1>3. day \in Int
  BY <1>1 DEF HasRead, WalkType
<1>4. /\ i \in 1..n /\ DayOf(times[i]) = day
      /\ Day * day <= Head(times) <=> day = DayOf(times[1])
  <2> HIDE DEF day
  <2> QED BY <1>1, TailLands
<1>5. ASSUME ~w.over, NEW e \in LaterDays(times) PROVE e \in D
  <2>1. /\ OpenOf(times, e) \in 2..n /\ DayOf(times[OpenOf(times, e)]) = e
        /\ e \in Int /\ DayOf(times[1]) < e
    BY OpensWhere
  <2>2. CASE Day * day <= Head(times)
    <3>1. day < e
      BY <1>4, <2>1, <2>2
    <3>2. e \in A
      BY <3>1 DEF Above
    <3> QED BY <3>2
  <2>3. CASE i \in w.probed
    <3>1. PICK d \in D : i = OpenOf(times, d)
      BY <1>1, <2>3 DEF HasRead
    <3>2. d \in LaterDays(times)
      BY <3>1 DEF Below, Above
    <3>3. DayOf(times[OpenOf(times, d)]) = d
      BY <3>2, OpensWhere
    <3>4. d = day
      BY <1>4, <3>1, <3>3
    <3>5. day \notin A
      BY <1>3 DEF Above
    <3>6. day < h
      BY <3>1, <3>4, <3>5 DEF Below
    <3>7. CASE day < e
      BY <3>7 DEF Above
    <3>8. CASE ~(day < e)
      <4>1. e < h
        BY <1>3, <2>1, <3>6, <3>8
      <4> QED BY <4>1 DEF Below
    <3> QED BY <3>7, <3>8
  <2> QED BY <1>5, <2>2, <2>3
<1>6. ~w.over => D = LaterDays(times)
  <2>1. D \subseteq LaterDays(times)
    BY DEF Below, Above
  <2> QED BY <1>5, <2>1
<1>7. Cardinality(A) <= m + 1
  <2>1. A \in SUBSET LaterDays(times)
    BY DEF Above
  <2>2. PICK c \in Nat : c = Cardinality(A)
    BY <2>1, DaysFinite
  <2> HIDE DEF A
  <2> QED BY <1>1, <2>2
<1>8. A = Above(times, next.day) /\ D = Below(times, h) \cup Above(times, next.day)
  BY <1>2
<1> HIDE DEF next, A, D, day, i
<1>9. TailFine(times, n, h, next, m + 1)
  BY <1>1, <1>2, <1>6, <1>7, <1>8 DEF TailFine
<1> QED BY <1>9 DEF next

LEMMA TailReads ==
  ASSUME NEW times, NEW n \in Nat \ {0}, InDays(times, n), times \in Seq(Int), NEW h \in Int,
         NEW m \in Nat, NEW w, TailFine(times, n, h, w, m), ~w.over,
         ~(Day * w.day <= Head(times)), LowerBound(times, Day * w.day) \notin w.probed
  PROVE  TailFine(times, n, h, TailProbe(times, w), m + 1)
<1> DEFINE day == w.day
           A == Above(times, day)
           B == Below(times, h)
           i == LowerBound(times, Day * day)
           d == DayOf(times[i - 1])
           next == Probed(times, w, i, d)
<1>1. /\ day \in {DayOf(times[j]) : j \in 1..n}
      /\ HasRead(times, w, B \cup A) /\ Cardinality(A) = m
  BY DEF TailFine
<1>2. day \in Int
  BY <1>1 DEF HasRead, WalkType
<1>3. /\ i \in 1..n /\ DayOf(times[i]) = day /\ i = OpenOf(times, day)
      /\ \A j \in 1..(i - 1) : DayOf(times[j]) < day
      /\ \A j \in i..n : day <= DayOf(times[j])
      /\ Day * day <= Head(times) <=> day = DayOf(times[1])
      /\ i = 1 => day = DayOf(times[1])
  <2> HIDE DEF day
  <2> QED BY <1>1, TailLands
<1>4. TailProbe(times, w) = next
  BY DEF TailProbe, Probed
<1> HIDE DEF i
<1>5. /\ \A j \in 1..n : times[j] \in Int /\ DayOf(times[j]) \in Int
      /\ \A j, k \in 1..n : j < k => DayOf(times[j]) <= DayOf(times[k])
      /\ LaterDays(times) = {DayOf(times[j]) : j \in 1..n} \ {DayOf(times[1])}
  BY DEF InDays
<1>6. day # DayOf(times[1]) /\ i # 1 /\ day \in LaterDays(times)
  BY <1>3, <1>5
<1>7. i - 1 \in 1..n /\ i - 1 \in 1..(i - 1)
  BY <1>3, <1>6
<1>8. d \in Int /\ d < day /\ d \in {DayOf(times[j]) : j \in 1..n}
  BY <1>3, <1>5, <1>7
<1>9. ASSUME NEW e \in LaterDays(times)
      PROVE  e > d <=> (e > day \/ e = day)
  <2>1. PICK j \in 1..n : e = DayOf(times[j])
    BY <1>5, <1>9
  <2>2. e \in Int
    BY <1>5, <2>1
  <2>3. CASE j < i
    <3>1. j = i - 1 \/ j < i - 1
      BY <1>3, <2>3
    <3>2. j < i - 1 => DayOf(times[j]) <= DayOf(times[i - 1])
      BY <1>5, <1>7
    <3>3. e <= d
      BY <1>8, <2>1, <2>2, <3>1, <3>2
    <3> HIDE DEF d
    <3> QED BY <1>2, <1>8, <2>2, <3>3
  <2>4. CASE j >= i
    <3>1. day <= e
      BY <1>3, <2>1, <2>4
    <3> HIDE DEF d
    <3> QED BY <1>2, <1>8, <2>2, <3>1
  <2> QED BY <1>3, <2>3, <2>4
<1>10. Above(times, d) = A \cup {day}
  <2> HIDE DEF d, day
  <2>1. Above(times, d) \subseteq A \cup {day}
    BY <1>9 DEF Above
  <2>2. A \cup {day} \subseteq Above(times, d)
    BY <1>6, <1>9 DEF Above
  <2> QED BY <2>1, <2>2
<1>11. day \notin A
  BY <1>2 DEF Above
<1>12. Cardinality(A \cup {day}) = m + 1
  <2>1. IsFiniteSet(A)
    <3>1. A \in SUBSET LaterDays(times)
      BY DEF Above
    <3> QED BY <3>1, DaysFinite
  <2> HIDE DEF A
  <2> QED BY <1>1, <1>11, <2>1, FS_AddElement
<1> HIDE DEF d, A, B, day
<1>13. /\ HasRead(times, next, (B \cup A) \cup {day}) /\ next.day = d
       /\ next.over <=> next.decided
  <2>1. Probes(times, n, w, B \cup A, i, day)
    BY <1>1, <1>3 DEF Probes
  <2>2. /\ HasRead(times, Probed(times, w, i, d), (B \cup A) \cup {day})
        /\ Probed(times, w, i, d).day = d
        /\ (Probed(times, w, i, d).over <=> Probed(times, w, i, d).decided)
    <3> DEFINE E == B \cup A
    <3>1. Probes(times, n, w, E, i, day)
      BY <2>1
    <3> HIDE DEF E
    <3>2. /\ HasRead(times, Probed(times, w, i, d), E \cup {day})
          /\ Probed(times, w, i, d).day = d
          /\ (Probed(times, w, i, d).over <=> Probed(times, w, i, d).decided)
      BY <1>8, <3>1, ReadMore
    <3> QED BY <3>2 DEF E
  <2> QED BY <2>2
<1> HIDE DEF next
<1>14. TailFine(times, n, h, next, m + 1)
  <2> DEFINE X == A \cup {day}
             D == B \cup X
  <2>1. (B \cup A) \cup {day} = B \cup X
    OBVIOUS
  <2>2. Above(times, next.day) = X /\ HasRead(times, next, D)
    BY <1>10, <1>13, <2>1
  <2>3. Cardinality(X) = m + 1 /\ Cardinality(X) <= m + 1
    BY <1>12
  <2> HIDE DEF X
  <2>4. Below(times, h) \cup Above(times, next.day) = D
    BY <2>2 DEF B
  <2> HIDE DEF D
  <2>5. next.day \in {DayOf(times[j]) : j \in 1..n}
    BY <1>8, <1>13
  <2> QED BY <1>13, <2>2, <2>3, <2>4, <2>5 DEF TailFine
<1> QED BY <1>4, <1>14

LEMMA TailKeeps ==
  ASSUME NEW times, NEW n \in Nat \ {0}, InDays(times, n), times \in Seq(Int), NEW h \in Int,
         NEW m \in Nat, NEW w, TailFine(times, n, h, w, m)
  PROVE  TailFine(times, n, h, TailProbe(times, w), m + 1)
<1> DEFINE Stops == \/ w.over \/ Day * w.day <= Head(times)
                    \/ LowerBound(times, Day * w.day) \in w.probed
<1>1. CASE Stops
  <2>1. TailProbe(times, w) = [w EXCEPT !.over = TRUE]
    BY <1>1 DEF TailProbe
  <2> QED BY <1>1, <2>1, TailStops
<1>2. CASE ~Stops
  BY <1>2, TailReads
<1> QED BY <1>1, <1>2

LEMMA TailBegins ==
  ASSUME NEW times, NEW n \in Nat \ {0}, InDays(times, n),
         NEW head, NEW mh, HeadFine(times, head, mh), ~head.decided
  PROVE  TailFine(times, n, head.day, [head EXCEPT !.day = DayOf(Last(times)), !.over = FALSE], 0)
<1> DEFINE first == [head EXCEPT !.day = DayOf(Last(times)), !.over = FALSE]
           B == Below(times, head.day)
<1>1. /\ Last(times) = times[n] /\ n \in 1..n
      /\ \A i \in 1..n : DayOf(times[i]) \in Int
      /\ \A i, j \in 1..n : i < j => DayOf(times[i]) <= DayOf(times[j])
      /\ LaterDays(times) = {DayOf(times[j]) : j \in 1..n} \ {DayOf(times[1])}
  BY DEF InDays
<1>2. PICK a \in Int : a = DayOf(Last(times)) /\ a = DayOf(times[n])
  BY <1>1
<1>3. HasRead(times, head, B)
  BY DEF HeadFine
<1>4. head \in WalkType
  BY <1>3 DEF HasRead
<1>5. /\ first.day = a /\ first.probed = head.probed /\ first.opens = head.opens
      /\ ~first.over /\ (first.decided <=> head.decided) /\ first \in WalkType
  <2>1. first = [head EXCEPT !.day = a, !.over = FALSE]
    BY <1>2
  <2> HIDE DEF first
  <2> QED BY <1>4, <2>1 DEF WalkType
<1> HIDE DEF first
<1>6. Above(times, a) = {}
  <2>1. ASSUME NEW d \in LaterDays(times) PROVE ~(d > a)
    <3>1. PICK j \in 1..n : d = DayOf(times[j])
      BY <1>1, <2>1
    <3>2. j = n \/ j < n
      OBVIOUS
    <3>3. j < n => DayOf(times[j]) <= DayOf(times[n])
      BY <1>1
    <3>4. d <= a /\ d \in Int
      BY <1>1, <1>2, <3>1, <3>2, <3>3
    <3> QED BY <3>4
  <2> QED BY <2>1 DEF Above
<1>7. Cardinality({}) = 0
  BY FS_EmptySet
<1>8. HasRead(times, first, B)
  <2> HIDE DEF B
  <2> QED BY <1>3, <1>5 DEF HasRead
<1>9. TailFine(times, n, head.day, first, 0)
  <2>1. Above(times, first.day) = {}
    BY <1>5, <1>6
  <2>2. B \cup {} = B
    OBVIOUS
  <2>3. Below(times, head.day) \cup Above(times, first.day) = B
    BY <2>1, <2>2
  <2>4. Cardinality({}) <= 0
    BY <1>7
  <2>5. first.day \in {DayOf(times[i]) : i \in 1..n}
    BY <1>1, <1>2, <1>5
  <2> HIDE DEF B
  <2> QED BY <1>5, <1>7, <1>8, <2>1, <2>3, <2>4, <2>5 DEF TailFine
<1> QED BY <1>9 DEF first

LEMMA TailRan ==
  ASSUME NEW times, NEW n \in Nat \ {0}, InDays(times, n), times \in Seq(Int),
         NEW head, NEW mh, HeadFine(times, head, mh), ~head.decided
  PROVE  TailFine(times, n, head.day, TailWalk(times, head), ProbeDays)
<1> DEFINE N == ProbeDays
           S == {w \in WalkType : \E m \in Nat : TailFine(times, n, head.day, w, m)}
           first == [head EXCEPT !.day = DayOf(Last(times)), !.over = FALSE]
           step == [x \in (1..N) \X S |-> TailProbe(times, x[2])]
           Is(f) == f = [k \in 0..N |-> IF k = 0 THEN first ELSE TailProbe(times, f[k - 1])]
<1>0. head.day \in Int
  BY DEF HeadFine, HasRead, WalkType
<1>1. N \in Nat
  BY InspectAssumption
<1>2. \A w, m : TailFine(times, n, head.day, w, m) => w \in WalkType
  BY DEF TailFine, HasRead
<1>3. TailFine(times, n, head.day, first, 0)
  BY TailBegins
<1> HIDE DEF first
<1>4. first \in S
  BY <1>2, <1>3
<1>5. \A w \in S : TailProbe(times, w) \in S
  <2> TAKE w \in S
  <2>1. PICK m \in Nat : TailFine(times, n, head.day, w, m)
    OBVIOUS
  <2>2. TailFine(times, n, head.day, TailProbe(times, w), m + 1) /\ m + 1 \in Nat
    BY <2>1, <1>0, TailKeeps
  <2> QED BY <1>2, <2>2
<1> HIDE DEF S
<1>6. step \in [(1..N) \X S -> S]
  <2> HIDE DEF N
  <2> QED BY <1>5
<1>7. PICK f : IsRun(f, N, S, first, step)
  <2> HIDE DEF step, N
  <2> QED BY <1>1, <1>4, <1>6, Recursion
<1>8. /\ f \in [0..N -> S] /\ f[0] = first
      /\ \A k \in 1..N : f[k] = TailProbe(times, f[k - 1])
  <2>1. /\ f \in [0..N -> S] /\ f[0] = first
        /\ \A k \in 1..N : f[k] = step[<<k, f[k - 1]>>]
    BY <1>7 DEF IsRun
  <2> HIDE DEF N
  <2>2. \A k \in 1..N : f[k - 1] \in S
    BY <1>1, <2>1
  <2>3. \A k \in 1..N : <<k, f[k - 1]>> \in (1..N) \X S
    BY <2>2
  <2> QED BY <2>1, <2>3
<1>9. Is(f)
  <2> HIDE DEF N
  <2>1. f = [k \in 0..N |-> f[k]]
    BY <1>8
  <2>2. \A k \in 0..N : f[k] = IF k = 0 THEN first ELSE TailProbe(times, f[k - 1])
    <3>1. \A k \in 0..N : k = 0 \/ (k # 0 /\ k \in 1..N)
      BY <1>1
    <3> QED BY <1>8, <3>1, Zenon
  <2> QED BY <2>1, <2>2, Zenon
<1> DEFINE g == CHOOSE h : Is(h)
<1>10. Is(g)
  <2> HIDE DEF Is
  <2> QED BY <1>9
<1>11. TailWalk(times, head) = g[N]
  BY DEF TailWalk, first
<1>12. f[N] = g[N]
  <2> HIDE DEF g, N
  <2>1. g = [k \in 0..N |-> IF k = 0 THEN first ELSE TailProbe(times, g[k - 1])]
    BY <1>10
  <2> HIDE DEF Is
  <2>2. g[0] = first
    BY <1>1, <2>1
  <2>3. \A k \in 1..N : g[k] = TailProbe(times, g[k - 1])
    <3>1. \A k \in 1..N : k # 0 /\ k \in 0..N
      BY <1>1
    <3> QED BY <2>1, <3>1, Zenon
  <2>4. StepAlike(f, g, N)
    BY <1>8, <2>2, <2>3, Zenon DEF StepAlike
  <2> HIDE DEF step
  <2> QED BY <1>1, <2>4, Determined
<1> DEFINE Good == {k \in 0..N : TailFine(times, n, head.day, f[k], k)}
<1>13. 0..N \subseteq Good
  <2>1. 0 \in Good
    BY <1>1, <1>3, <1>8
  <2>2. ASSUME NEW k \in 1..N, k - 1 \in Good PROVE k \in Good
    <3>1. TailFine(times, n, head.day, f[k - 1], k - 1) /\ k - 1 \in Nat /\ (k - 1) + 1 = k
      BY <2>2
    <3>2. TailFine(times, n, head.day, TailProbe(times, f[k - 1]), k)
      <4>1. TailFine(times, n, head.day, TailProbe(times, f[k - 1]), (k - 1) + 1)
        BY <3>1, <1>0, TailKeeps
      <4> QED BY <3>1, <4>1
    <3> QED BY <1>8, <3>2
  <2> HIDE DEF Good, N
  <2> QED BY <1>1, <2>1, <2>2, Induction
<1>14. TailFine(times, n, head.day, f[N], N)
  <2> HIDE DEF N
  <2> QED BY <1>1, <1>13
<1> HIDE DEF g
<1> QED BY <1>11, <1>12, <1>14 DEF N

-----------------------------------------------------------------------------
\* The days read are probed ones, and all of them unless one was outside.
LEMMA BelowProbed ==
  ASSUME NEW times, NEW n \in Nat \ {0}, InDays(times, n), NEW day \in Int,
         Cardinality(Below(times, day)) <= ProbeDays
  PROVE  /\ Below(times, day) \subseteq ProbedDays(times)
         /\ Cardinality(Below(times, day)) = ProbeDays =>
               \A d \in LaterDays(times) \ Below(times, day) :
                   ~(Cardinality({e \in LaterDays(times) : e < d}) < ProbeDays)
<1> DEFINE B == Below(times, day)
<1>1. /\ \A A \in SUBSET LaterDays(times) : IsFiniteSet(A) /\ Cardinality(A) \in Nat
      /\ B \in SUBSET LaterDays(times)
  BY DaysFinite DEF Below
<1>2. \A d \in LaterDays(times) : d \in Int
  BY OpensWhere
<1>3. PICK N \in Nat : N = ProbeDays
  BY InspectAssumption
<1>4. ASSUME NEW d \in B PROVE d \in ProbedDays(times)
  <2> DEFINE E == {e \in LaterDays(times) : e < d}
  <2>1. d \in LaterDays(times) /\ d < day /\ d \in Int
    BY <1>2 DEF Below
  <2>2. E \subseteq B /\ d \notin E /\ d \in B
    <3>1. ASSUME NEW e \in LaterDays(times), e < d PROVE e \in B
      <4>1. e < day
        BY <1>2, <2>1, <3>1
      <4> QED BY <4>1 DEF Below
    <3>2. ~(d < d)
      BY <2>1
    <3>3. E \subseteq B
      BY <3>1
    <3>4. d \notin E
      BY <3>2
    <3> QED BY <3>3, <3>4
  <2>3. E \in SUBSET LaterDays(times)
    OBVIOUS
  <2> HIDE DEF E, B
  <2>4. Cardinality(E) <= Cardinality(B) /\ (Cardinality(B) = Cardinality(E) => B = E)
    <3>1. E \in SUBSET B /\ IsFiniteSet(B)
      BY <1>1, <2>2
    <3> QED BY <3>1, FS_Subset
  <2>5. PICK c \in Nat : c = Cardinality(E)
    BY <1>1, <2>3
  <2>6. PICK b \in Nat : b = Cardinality(B)
    BY <1>1
  <2>7. B # E
    BY <2>2
  <2>8. b <= N
    BY <1>3, <2>6 DEF B
  <2>9. Cardinality(E) < ProbeDays
    BY <1>3, <2>4, <2>5, <2>6, <2>7, <2>8
  <2> QED BY <2>1, <2>9 DEF E, ProbedDays
<1>5. ASSUME Cardinality(B) = ProbeDays, NEW d \in LaterDays(times) \ B
      PROVE  ~(Cardinality({e \in LaterDays(times) : e < d}) < ProbeDays)
  <2> DEFINE E == {e \in LaterDays(times) : e < d}
  <2>1. ~(d < day) /\ d \in Int
    BY <1>2 DEF Below
  <2>2. B \subseteq E
    <3>1. ASSUME NEW e \in B PROVE e \in E
      <4>1. e \in LaterDays(times) /\ e < day /\ e \in Int
        BY <1>2 DEF Below
      <4>2. e < d
        BY <2>1, <4>1
      <4> QED BY <4>1, <4>2
    <3> QED BY <3>1
  <2>3. E \in SUBSET LaterDays(times)
    OBVIOUS
  <2> HIDE DEF E, B
  <2>4. Cardinality(B) <= Cardinality(E)
    <3>1. B \in SUBSET E /\ IsFiniteSet(E)
      BY <1>1, <2>2, <2>3
    <3> QED BY <3>1, FS_Subset
  <2>5. PICK c \in Nat : c = Cardinality(E)
    BY <1>1, <2>3
  <2>6. N <= c
    BY <1>3, <1>5, <2>4, <2>5
  <2>7. ~(Cardinality(E) < ProbeDays)
    BY <1>3, <2>5, <2>6
  <2> QED BY <2>7 DEF E
<1> QED BY <1>4, <1>5

LEMMA AboveProbed ==
  ASSUME NEW times, NEW n \in Nat \ {0}, InDays(times, n), NEW day \in Int,
         Cardinality(Above(times, day)) <= ProbeDays
  PROVE  /\ Above(times, day) \subseteq ProbedDays(times)
         /\ Cardinality(Above(times, day)) = ProbeDays =>
               \A d \in LaterDays(times) \ Above(times, day) :
                   ~(Cardinality({e \in LaterDays(times) : e > d}) < ProbeDays)
<1> DEFINE B == Above(times, day)
<1>1. /\ \A A \in SUBSET LaterDays(times) : IsFiniteSet(A) /\ Cardinality(A) \in Nat
      /\ B \in SUBSET LaterDays(times)
  BY DaysFinite DEF Above
<1>2. \A d \in LaterDays(times) : d \in Int
  BY OpensWhere
<1>3. PICK N \in Nat : N = ProbeDays
  BY InspectAssumption
<1>4. ASSUME NEW d \in B PROVE d \in ProbedDays(times)
  <2> DEFINE E == {e \in LaterDays(times) : e > d}
  <2>1. d \in LaterDays(times) /\ d > day /\ d \in Int
    BY <1>2 DEF Above
  <2>2. E \subseteq B /\ d \notin E /\ d \in B
    <3>1. ASSUME NEW e \in LaterDays(times), e > d PROVE e \in B
      <4>1. e > day
        BY <1>2, <2>1, <3>1
      <4> QED BY <4>1 DEF Above
    <3>2. ~(d > d)
      BY <2>1
    <3>3. E \subseteq B
      BY <3>1
    <3>4. d \notin E
      BY <3>2
    <3> QED BY <3>3, <3>4
  <2>3. E \in SUBSET LaterDays(times)
    OBVIOUS
  <2> HIDE DEF E, B
  <2>4. Cardinality(E) <= Cardinality(B) /\ (Cardinality(B) = Cardinality(E) => B = E)
    <3>1. E \in SUBSET B /\ IsFiniteSet(B)
      BY <1>1, <2>2
    <3> QED BY <3>1, FS_Subset
  <2>5. PICK c \in Nat : c = Cardinality(E)
    BY <1>1, <2>3
  <2>6. PICK b \in Nat : b = Cardinality(B)
    BY <1>1
  <2>7. B # E
    BY <2>2
  <2>8. b <= N
    BY <1>3, <2>6 DEF B
  <2>9. Cardinality(E) < ProbeDays
    BY <1>3, <2>4, <2>5, <2>6, <2>7, <2>8
  <2> QED BY <2>1, <2>9 DEF E, ProbedDays
<1>5. ASSUME Cardinality(B) = ProbeDays, NEW d \in LaterDays(times) \ B
      PROVE  ~(Cardinality({e \in LaterDays(times) : e > d}) < ProbeDays)
  <2> DEFINE E == {e \in LaterDays(times) : e > d}
  <2>1. ~(d > day) /\ d \in Int
    BY <1>2 DEF Above
  <2>2. B \subseteq E
    <3>1. ASSUME NEW e \in B PROVE e \in E
      <4>1. e \in LaterDays(times) /\ e > day /\ e \in Int
        BY <1>2 DEF Above
      <4>2. e > d
        BY <2>1, <4>1
      <4> QED BY <4>1, <4>2
    <3> QED BY <3>1
  <2>3. E \in SUBSET LaterDays(times)
    OBVIOUS
  <2> HIDE DEF E, B
  <2>4. Cardinality(B) <= Cardinality(E)
    <3>1. B \in SUBSET E /\ IsFiniteSet(E)
      BY <1>1, <2>2, <2>3
    <3> QED BY <3>1, FS_Subset
  <2>5. PICK c \in Nat : c = Cardinality(E)
    BY <1>1, <2>3
  <2>6. N <= c
    BY <1>3, <1>5, <2>4, <2>5
  <2>7. ~(Cardinality(E) < ProbeDays)
    BY <1>3, <2>5, <2>6
  <2> QED BY <2>7 DEF E
<1> QED BY <1>4, <1>5

\* What day_open_times returns: the opens of all probed days, or, of some of
\* them, one that is outside.
OpensFine(times, opens, days) ==
    /\ days \subseteq ProbedDays(times)
    /\ ToSet(opens) = OpensOf(times, days)
    /\ Outside(opens) \/ days = ProbedDays(times)
    /\ days = {} => LaterDays(times) = {}
    /\ opens \in Seq(Int)

LEMMA HeadDecides ==
  ASSUME NEW times, NEW n \in Nat \ {0}, InDays(times, n),
         NEW head, HeadFine(times, head, ProbeDays), head.decided
  PROVE  OpensFine(times, head.opens, Below(times, head.day))
<1> DEFINE B == Below(times, head.day)
<1>1. HasRead(times, head, B) /\ Cardinality(B) <= ProbeDays
  BY DEF HeadFine
<1>2. /\ head.day \in Int /\ ToSet(head.opens) = OpensOf(times, B) /\ Outside(head.opens)
      /\ head.opens \in Seq(Int)
  BY <1>1 DEF HasRead, WalkType
<1>3. B \subseteq ProbedDays(times)
  BY <1>1, <1>2, BelowProbed
<1>4. B # {}
  <2>1. ToSet(head.opens) # {}
    BY <1>2 DEF Outside
  <2>2. OpensOf(times, {}) = {}
    BY DEF OpensOf
  <2> HIDE DEF B
  <2> QED BY <1>2, <2>1, <2>2
<1> HIDE DEF B
<1>5. OpensFine(times, head.opens, B)
  BY <1>2, <1>3, <1>4 DEF OpensFine
<1> QED BY <1>5 DEF B

LEMMA TailDecides ==
  ASSUME NEW times, NEW n \in Nat \ {0}, InDays(times, n),
         NEW head, HeadFine(times, head, ProbeDays), ~head.decided,
         NEW w, TailFine(times, n, head.day, w, ProbeDays)
  PROVE  OpensFine(times, w.opens, Below(times, head.day) \cup Above(times, w.day))
<1> DEFINE B == Below(times, head.day)
           A == Above(times, w.day)
<1>1. /\ HasRead(times, head, B) /\ Cardinality(B) <= ProbeDays
      /\ ~head.over => Cardinality(B) = ProbeDays
      /\ head.over => B = LaterDays(times)
  BY DEF HeadFine
<1>2. /\ HasRead(times, w, B \cup A) /\ Cardinality(A) <= ProbeDays
      /\ ~w.over => Cardinality(A) = ProbeDays
      /\ w.over /\ ~w.decided => B \cup A = LaterDays(times)
  BY DEF TailFine
<1>3. head.day \in Int /\ w.day \in Int
  BY <1>1, <1>2 DEF HasRead, WalkType
<1>4. /\ B \subseteq ProbedDays(times)
      /\ Cardinality(B) = ProbeDays =>
            \A d \in LaterDays(times) \ B :
                ~(Cardinality({e \in LaterDays(times) : e < d}) < ProbeDays)
  BY <1>1, <1>3, BelowProbed
<1>5. /\ A \subseteq ProbedDays(times)
      /\ Cardinality(A) = ProbeDays =>
            \A d \in LaterDays(times) \ A :
                ~(Cardinality({e \in LaterDays(times) : e > d}) < ProbeDays)
  BY <1>2, <1>3, AboveProbed
<1>6. ToSet(w.opens) = OpensOf(times, B \cup A) /\ (w.decided <=> Outside(w.opens))
  BY <1>2 DEF HasRead
<1>7. ProbedDays(times) \subseteq LaterDays(times)
  BY DEF ProbedDays
<1>8. B \cup A = {} => LaterDays(times) = {}
  <2> SUFFICES ASSUME B \cup A = {} PROVE LaterDays(times) = {}
    OBVIOUS
  <2>1. B = {} /\ Cardinality({}) = 0 /\ ProbeDays # 0
    BY FS_EmptySet, InspectAssumption
  <2> HIDE DEF B, A
  <2>2. head.over
    BY <1>1, <2>1
  <2> QED BY <1>1, <2>1, <2>2
<1>9. ASSUME ~Outside(w.opens) PROVE B \cup A = ProbedDays(times)
  <2> HIDE DEF B, A
  <2>1. CASE head.over
    <3>1. B = LaterDays(times)
      BY <1>1, <2>1
    <3> QED BY <1>4, <1>5, <1>7, <3>1
  <2>2. CASE w.over
    <3>1. B \cup A = LaterDays(times)
      BY <1>2, <1>6, <1>9, <2>2
    <3> QED BY <1>4, <1>5, <1>7, <3>1
  <2>3. CASE ~head.over /\ ~w.over
    <3>1. Cardinality(B) = ProbeDays /\ Cardinality(A) = ProbeDays
      BY <1>1, <1>2, <2>3
    <3>2. ASSUME NEW d \in ProbedDays(times) PROVE d \in B \cup A
      <4>1. d \in LaterDays(times)
        BY <1>7
      <4>2. \/ Cardinality({e \in LaterDays(times) : e < d}) < ProbeDays
            \/ Cardinality({e \in LaterDays(times) : e > d}) < ProbeDays
        BY DEF ProbedDays
      <4>3. d \notin B => ~(Cardinality({e \in LaterDays(times) : e < d}) < ProbeDays)
        BY <1>4, <3>1, <4>1
      <4>4. d \notin A => ~(Cardinality({e \in LaterDays(times) : e > d}) < ProbeDays)
        BY <1>5, <3>1, <4>1
      <4> QED BY <4>2, <4>3, <4>4
    <3> QED BY <1>4, <1>5, <3>2
  <2> QED BY <2>1, <2>2, <2>3
<1> DEFINE D == B \cup A
<1>10. D \subseteq ProbedDays(times)
  BY <1>4, <1>5
<1>11. /\ ToSet(w.opens) = OpensOf(times, D) /\ (D = {} => LaterDays(times) = {})
       /\ Outside(w.opens) \/ D = ProbedDays(times)
  BY <1>6, <1>8, <1>9
<1> HIDE DEF D
<1>12. w.opens \in Seq(Int)
  BY <1>2 DEF HasRead, WalkType
<1>13. OpensFine(times, w.opens, D)
  BY <1>10, <1>11, <1>12 DEF OpensFine
<1> QED BY <1>13 DEF D

LEMMA DayOpens ==
  ASSUME NEW times, NEW n \in Nat \ {0}, InDays(times, n), times \in Seq(Int)
  PROVE  \E days : OpensFine(times, DayOpenTimes(times), days)
<1> DEFINE head == HeadWalk(times)
<1>1. HeadFine(times, head, ProbeDays)
  BY HeadRan
<1> HIDE DEF head
<1>2. CASE head.decided
  <2>1. OpensFine(times, head.opens, Below(times, head.day))
    BY <1>1, <1>2, HeadDecides
  <2>2. DayOpenTimes(times) = head.opens
    BY <1>2 DEF DayOpenTimes, head
  <2> QED BY <2>1, <2>2
<1>3. CASE ~head.decided
  <2> DEFINE w == TailWalk(times, head)
  <2>1. TailFine(times, n, head.day, w, ProbeDays)
    BY <1>1, <1>3, TailRan
  <2>2. DayOpenTimes(times) = w.opens
    BY <1>3 DEF DayOpenTimes, head
  <2> HIDE DEF w
  <2>3. OpensFine(times, w.opens, Below(times, head.day) \cup Above(times, w.day))
    BY <1>1, <1>3, <2>1, TailDecides
  <2> QED BY <2>2, <2>3
<1> QED BY <1>2, <1>3

-----------------------------------------------------------------------------
LEMMA SameSeq ==
  ASSUME NEW s \in Seq(Int), NEW t \in Seq(Int), NEW n \in Nat, Len(s) = n, Len(t) = n,
         \A i \in 1..n : s[i] = t[i]
  PROVE  s = t
<1>1. DOMAIN s = 1..n /\ DOMAIN t = 1..n
  OBVIOUS
<1>2. s = [i \in 1..n |-> s[i]] /\ t = [i \in 1..n |-> t[i]]
  BY <1>1
<1> QED BY <1>2

\* Where the windows of a file of n frames are.
Windows(times, n, k, b) ==
    /\ times \in Seq(Int) /\ n \in Nat /\ n = Len(times)
    /\ k \in 0..n /\ b \in k..n
    /\ LeadWindow(times) = SubSeq(times, 1, k)
    /\ TailWindow(times) = SubSeq(times, b + 1, n)
    /\ k = IF n <= Sample THEN n ELSE Sample
    /\ b = IF n - Sample >= k THEN n - Sample ELSE k

LEMMA WindowsAre ==
  ASSUME NEW times, times \in Seq(Int), NEW n \in Nat, n = Len(times)
  PROVE  \E k, b \in Nat : Windows(times, n, k, b)
<1>1. PICK S \in Nat \ {0} : S = Sample
  BY InspectAssumption
<1>2. PICK k \in Nat : k = Min({Len(times), Sample}) /\ k = IF n <= S THEN n ELSE S
  <2>1. Min({n, S}) = IF n <= S THEN n ELSE S
    BY MinPair
  <2> QED BY <1>1, <2>1
<1>3. PICK b \in Nat : /\ b = Max({Len(times) - Sample, Min({Len(times), Sample})})
                       /\ b = IF n - S >= k THEN n - S ELSE k
  <2>1. Max({n - S, k}) = IF n - S >= k THEN n - S ELSE k
    BY MaxPair
  <2> QED BY <1>1, <1>2, <2>1
<1>4. LeadWindow(times) = SubSeq(times, 1, k) /\ TailWindow(times) = SubSeq(times, b + 1, n)
  BY <1>2, <1>3 DEF LeadWindow, TailWindow
<1>5. k \in 0..n /\ b \in k..n
  BY <1>2, <1>3
<1>6. Windows(times, n, k, b)
  BY <1>1, <1>2, <1>3, <1>4, <1>5 DEF Windows
<1> QED BY <1>6

\* The frames that are sampled, one for one.
SampledIs(times, n, k, b) ==
    /\ Sampled(times) \in Seq(Int) /\ Len(Sampled(times)) = k + n - b
    /\ \A i \in 1..k : Sampled(times)[i] = times[i]
    /\ \A i \in (b + 1)..n : Sampled(times)[i - b + k] = times[i]

LEMMA SampledAt ==
  ASSUME NEW times, NEW n \in Nat, NEW k \in Nat, NEW b \in Nat, Windows(times, n, k, b)
  PROVE  SampledIs(times, n, k, b)
<1> DEFINE u == SubSeq(times, 1, k)
           v == SubSeq(times, b + 1, n)
<1>1. /\ times \in Seq(Int) /\ n \in Nat /\ n = Len(times)
      /\ k \in 0..n /\ b \in k..n
      /\ Sampled(times) = u \o v
  BY DEF Windows, Sampled
<1>2. /\ u \in Seq(Int) /\ Len(u) = k
      /\ \A i \in 1..k : u[i] = times[i]
  <2>1. /\ u \in Seq(Int) /\ Len(u) = k - 1 + 1
        /\ \A i \in 1..(k - 1 + 1) : u[i] = times[1 + i - 1]
    <3>1. k \in 0..Len(times) /\ 1 \in Nat \ {0} /\ 1 <= k + 1
      BY <1>1
    <3> QED BY <1>1, <3>1, PartOf
  <2> HIDE DEF u
  <2>2. k - 1 + 1 = k /\ \A i \in 1..k : 1 + i - 1 = i
    BY <1>1
  <2> QED BY <2>1, <2>2
<1>3. /\ v \in Seq(Int) /\ Len(v) = n - b
      /\ \A i \in 1..(n - b) : v[i] = times[b + i]
  <2>1. /\ v \in Seq(Int) /\ Len(v) = n - (b + 1) + 1
        /\ \A i \in 1..(n - (b + 1) + 1) : v[i] = times[b + 1 + i - 1]
    <3>1. n \in 0..Len(times) /\ b + 1 \in Nat \ {0} /\ b + 1 <= n + 1
      BY <1>1
    <3> QED BY <1>1, <3>1, PartOf
  <2> HIDE DEF v
  <2>2. n - (b + 1) + 1 = n - b /\ \A i \in 1..(n - b) : b + 1 + i - 1 = b + i
    BY <1>1
  <2> QED BY <2>1, <2>2
<1> HIDE DEF u, v
<1>4. n - b \in Nat
  BY <1>1
<1>5. /\ u \o v \in Seq(Int) /\ Len(u \o v) = k + (n - b)
      /\ \A i \in 1..(k + (n - b)) : (u \o v)[i] = IF i <= k THEN u[i] ELSE v[i - k]
  <2>1. /\ u \o v \in Seq(Int) /\ Len(u \o v) = Len(u) + Len(v)
        /\ \A i \in 1..(Len(u) + Len(v)) :
              (u \o v)[i] = IF i <= Len(u) THEN u[i] ELSE v[i - Len(u)]
    BY <1>2, <1>3, ConcatProperties
  <2> QED BY <1>2, <1>3, <2>1
<1>6. \A i \in 1..k : (u \o v)[i] = u[i]
  <2> TAKE i \in 1..k
  <2>1. i \in 1..(k + (n - b)) /\ i <= k
    BY <1>4
  <2> QED BY <1>5, <2>1
<1>7. \A i \in 1..(n - b) : (u \o v)[k + i] = v[i]
  <2> TAKE i \in 1..(n - b)
  <2>1. k + i \in 1..(k + (n - b)) /\ ~(k + i <= k) /\ k + i - k = i
    BY <1>4
  <2> QED BY <1>5, <2>1
<1>8. ASSUME NEW i \in (b + 1)..n PROVE (u \o v)[i - b + k] = times[i]
  <2>1. i - b \in 1..(n - b) /\ k + (i - b) = i - b + k /\ b + (i - b) = i
    BY <1>1
  <2> QED BY <1>3, <1>7, <2>1
<1>9. k + (n - b) = k + n - b
  BY <1>1
<1> QED BY <1>1, <1>2, <1>5, <1>6, <1>8, <1>9 DEF SampledIs

\* The sample is a file of its own, of the frames at both ends.
LEMMA SampleIsFile ==
  ASSUME NEW times, IsFile(times)
  PROVE  IsFile(Sampled(times)) /\ ToSet(Sampled(times)) = EndsOf(times)
<1> DEFINE s == Sampled(times)
<1>1. times \in Seq(Int) /\ times # <<>>
  BY DEF IsFile
<1>2. PICK n \in Nat \ {0} : n = Len(times) /\ DOMAIN times = 1..n
  BY <1>1
<1>3. \A i, j \in 1..n : i < j => times[i] <= times[j]
  BY <1>2 DEF IsFile
<1>4. PICK S \in Nat \ {0} : S = Sample
  BY InspectAssumption
<1>5. PICK k, b \in Nat : Windows(times, n, k, b)
  BY <1>1, <1>2, WindowsAre
<1>6. /\ k \in 0..n /\ b \in k..n
      /\ k = IF n <= S THEN n ELSE S
      /\ b = IF n - S >= k THEN n - S ELSE k
  BY <1>4, <1>5 DEF Windows
<1>7. k # 0 /\ k \in 1..n
  BY <1>6
<1>8. /\ s \in Seq(Int) /\ Len(s) = k + n - b
      /\ \A i \in 1..k : s[i] = times[i]
      /\ \A i \in (b + 1)..n : s[i - b + k] = times[i]
  <2>1. SampledIs(times, n, k, b)
    <3>1. n \in Nat
      OBVIOUS
    <3> QED BY <1>5, <3>1, SampledAt
  <2> QED BY <2>1 DEF SampledIs
<1> HIDE DEF s
<1>9. PICK m \in Nat \ {0} : m = Len(s) /\ m = k + n - b /\ DOMAIN s = 1..m
  BY <1>6, <1>7, <1>8
<1>10. ASSUME NEW i \in 1..m, i > k
       PROVE  i - k + b \in (b + 1)..n /\ s[i] = times[i - k + b]
  <2>1. i - k + b \in (b + 1)..n /\ (i - k + b) - b + k = i
    BY <1>6, <1>9, <1>10
  <2> QED BY <1>8, <2>1
<1>11. \A i \in 1..n : times[i] \in Int
  BY <1>1, <1>2
<1>12. ASSUME NEW i \in 1..m, NEW j \in 1..m, i < j
       PROVE  s[i] <= s[j]
  <2>1. CASE j <= k
    <3>1. i \in 1..k /\ j \in 1..k /\ i \in 1..n /\ j \in 1..n
      BY <1>7, <1>12, <2>1
    <3>2. times[i] <= times[j]
      BY <1>3, <1>12, <3>1
    <3> QED BY <1>8, <3>1, <3>2
  <2>2. CASE i <= k /\ j > k
    <3>1. i \in 1..k /\ i \in 1..n /\ j - k + b \in 1..n /\ i < j - k + b
      BY <1>6, <1>7, <1>10, <2>2
    <3>2. times[i] <= times[j - k + b]
      BY <1>3, <3>1
    <3>3. s[j] = times[j - k + b]
      BY <1>10, <2>2
    <3>4. s[i] = times[i]
      BY <1>8, <3>1
    <3> QED BY <3>2, <3>3, <3>4
  <2>3. CASE i > k
    <3>1. i - k + b \in 1..n /\ j - k + b \in 1..n /\ i - k + b < j - k + b
      BY <1>6, <1>10, <1>12, <2>3
    <3>2. times[i - k + b] <= times[j - k + b]
      BY <1>3, <3>1
    <3>3. s[j] = times[j - k + b]
      BY <1>10, <1>12, <2>3
    <3>4. s[i] = times[i - k + b]
      BY <1>10, <2>3
    <3> QED BY <3>2, <3>3, <3>4
  <2> QED BY <1>12, <2>1, <2>2, <2>3
<1>13. s # <<>>
  BY <1>8, <1>9
<1>14. IsFile(s)
  BY <1>8, <1>9, <1>12, <1>13 DEF IsFile
<1> DEFINE J == {j \in 1..n : j <= S \/ j > n - S}
<1>15. J = (1..k) \cup ((b + 1)..n)
  <2>1. \A j \in 1..n : (j <= S \/ j > n - S) <=> (j \in 1..k \/ j \in (b + 1)..n)
    BY <1>6
  <2>2. \A j \in (1..k) \cup ((b + 1)..n) : j \in 1..n
    BY <1>6, <1>7
  <2> QED BY <2>1, <2>2
<1>16. EndsOf(times) = {times[j] : j \in J}
  BY <1>2, <1>4 DEF EndsOf
<1>17. ASSUME NEW x \in ToSet(s) PROVE x \in EndsOf(times)
  <2>1. PICK i \in 1..m : x = s[i]
    BY <1>9 DEF ToSet
  <2>2. CASE i <= k
    <3>1. i \in 1..k
      BY <2>2
    <3> QED BY <1>8, <1>15, <1>16, <2>1, <3>1
  <2>3. CASE i > k
    <3>1. i - k + b \in (b + 1)..n /\ x = times[i - k + b]
      BY <1>10, <2>1, <2>3
    <3> HIDE DEF J
    <3> QED BY <1>15, <1>16, <3>1
  <2> QED BY <2>2, <2>3
<1>18. ASSUME NEW x \in EndsOf(times) PROVE x \in ToSet(s)
  <2>1. PICK j \in (1..k) \cup ((b + 1)..n) : x = times[j]
    <3> HIDE DEF J
    <3> QED BY <1>15, <1>16
  <2>2. CASE j \in 1..k
    <3>1. j \in 1..m /\ s[j] = x
      BY <1>6, <1>8, <1>9, <2>1, <2>2
    <3> QED BY <1>9, <3>1 DEF ToSet
  <2>3. CASE j \in (b + 1)..n
    <3>0. j - b + k \in 1..m
      BY <1>6, <1>9, <2>3
    <3>1. j - b + k \in 1..m /\ s[j - b + k] = x
      BY <1>8, <2>1, <2>3, <3>0
    <3> QED BY <1>9, <3>1 DEF ToSet
  <2> QED BY <2>1, <2>2, <2>3
<1> QED BY <1>14, <1>17, <1>18 DEF s

-----------------------------------------------------------------------------
\* The narrowest of all spacings is one of two neighbours.
Steps(s) == {s[i + 1] - s[i] : i \in 1..(Len(s) - 1)} \ {0}

LEMMA StepBetween ==
  ASSUME NEW s, IsFile(s), NEW x \in Spacings(ToSet(s))
  PROVE  \E g \in Steps(s) : g <= x
<1>1. s \in Seq(Int) /\ s # <<>>
  BY DEF IsFile
<1>2. PICK n \in Nat \ {0} : n = Len(s) /\ DOMAIN s = 1..n
  BY <1>1
<1>3. /\ \A i, j \in 1..n : i < j => s[i] <= s[j]
      /\ \A i \in 1..n : s[i] \in Int
  BY <1>1, <1>2 DEF IsFile
<1>4. PICK a, b \in 1..n : x = s[b] - s[a] /\ x \in Nat \ {0}
  BY <1>2 DEF Spacings, ToSet
<1>5. s[a] < s[b] /\ a < b
  <2>1. s[a] \in Int /\ s[b] \in Int
    BY <1>3
  <2>2. s[a] < s[b]
    BY <1>4, <2>1
  <2>3. a # b /\ ~(b < a)
    BY <1>3, <2>1, <2>2
  <2> QED BY <2>2, <2>3
<1> DEFINE C == {c \in 1..n : s[c] > s[a]}
           c == Min(C)
<1>6. C \subseteq Nat /\ b \in C
  <2>1. s[b] > s[a]
    BY <1>3, <1>5
  <2> QED BY <2>1
<1>7. c \in C /\ \A k \in C : c <= k
  <2> HIDE DEF C
  <2> QED BY <1>6, LeastOf
<1>8. c \in 1..n /\ s[c] > s[a] /\ c <= b
  BY <1>6, <1>7
<1>9. \A k \in 1..n : s[k] > s[a] => c <= k
  BY <1>7
<1> HIDE DEF c, C
<1>10. a < c
  <2>1. s[a] \in Int /\ s[c] \in Int
    BY <1>3, <1>8
  <2>2. ~(c < a) /\ c # a
    BY <1>3, <1>8, <2>1
  <2> QED BY <1>8, <2>2
<1>11. c - 1 \in 1..n /\ c - 1 \in 1..(n - 1) /\ (c - 1) + 1 = c
  BY <1>8, <1>10
<1>12. s[c - 1] <= s[a]
  <2>1. s[a] \in Int /\ s[c - 1] \in Int
    BY <1>3, <1>11
  <2>2. ~(s[c - 1] > s[a])
    BY <1>8, <1>9, <1>11
  <2> QED BY <2>1, <2>2
<1>13. s[c - 1] = s[a]
  <2>1. s[a] \in Int /\ s[c - 1] \in Int
    BY <1>3, <1>11
  <2>2. a = c - 1 \/ a < c - 1
    BY <1>8, <1>10
  <2>3. a < c - 1 => s[a] <= s[c - 1]
    BY <1>3, <1>11
  <2> QED BY <1>12, <2>1, <2>2, <2>3
<1>14. s[c] <= s[b]
  <2>1. c = b \/ c < b
    BY <1>8
  <2> QED BY <1>3, <1>8, <2>1
<1> DEFINE g == s[(c - 1) + 1] - s[c - 1]
<1>15. g = s[c] - s[a]
  BY <1>11, <1>13
<1>16. g \in {s[i + 1] - s[i] : i \in 1..(n - 1)}
  BY <1>11
<1>17. s[a] \in Int /\ s[b] \in Int /\ s[c] \in Int
  BY <1>3, <1>8
<1> HIDE DEF g
<1>18. g # 0 /\ g <= x
  BY <1>4, <1>8, <1>14, <1>15, <1>17
<1>19. g \in Steps(s)
  BY <1>2, <1>16, <1>18 DEF Steps
<1> QED BY <1>18, <1>19

LEMMA StepsSpace ==
  ASSUME NEW s, IsFile(s)
  PROVE  Steps(s) \subseteq Spacings(ToSet(s)) /\ Spacings(ToSet(s)) \subseteq Nat
<1>1. s \in Seq(Int) /\ s # <<>>
  BY DEF IsFile
<1>2. PICK n \in Nat \ {0} : n = Len(s) /\ DOMAIN s = 1..n
  BY <1>1
<1>3. /\ \A i, j \in 1..n : i < j => s[i] <= s[j]
      /\ \A i \in 1..n : s[i] \in Int
  BY <1>1, <1>2 DEF IsFile
<1>4. ASSUME NEW g \in Steps(s) PROVE g \in Spacings(ToSet(s))
  <2>1. PICK i \in 1..(n - 1) : g = s[i + 1] - s[i] /\ g # 0
    BY <1>2 DEF Steps
  <2>2. i \in 1..n /\ i + 1 \in 1..n /\ i < i + 1
    OBVIOUS
  <2>3. s[i] \in Int /\ s[i + 1] \in Int /\ s[i] <= s[i + 1]
    BY <1>3, <2>2
  <2>4. g \in Nat \ {0}
    BY <2>1, <2>3
  <2>5. s[i] \in ToSet(s) /\ s[i + 1] \in ToSet(s)
    BY <1>2, <2>2 DEF ToSet
  <2> QED BY <2>1, <2>4, <2>5 DEF Spacings
<1>5. Spacings(ToSet(s)) \subseteq Nat
  BY DEF Spacings
<1> QED BY <1>4, <1>5

LEMMA GapLaw ==
  ASSUME NEW s, IsFile(s)
  PROVE  LET all == Spacings(ToSet(s))
         IN  /\ NarrowestGap(s) = IF all # {} THEN <<Min(all)>> ELSE <<>>
             /\ (\A gap \in ToSet(NarrowestGap(s)) : gap >= Day) <=> (\A gap \in all : gap >= Day)
<1> DEFINE all == Spacings(ToSet(s))
           few == Steps(s)
<1>1. /\ few \subseteq all /\ all \subseteq Nat
  BY StepsSpace
<1>2. \A x \in all : \E g \in few : g <= x
  BY StepBetween
<1>3. NarrowestGap(s) = IF few = {} THEN <<>> ELSE <<Min(few)>>
  BY DEF NarrowestGap, Steps
<1> HIDE DEF all, few
<1>4. few = {} <=> all = {}
  BY <1>1, <1>2
<1>5. Day \in Nat
  BY BarsAssumption
<1>6. CASE all = {}
  <2>1. ToSet(<<>>) = {}
    BY DEF ToSet
  <2>2. NarrowestGap(s) = <<>>
    BY <1>3, <1>4, <1>6
  <2>3. (\A gap \in ToSet(NarrowestGap(s)) : gap >= Day) <=> (\A gap \in all : gap >= Day)
    BY <1>6, <2>1, <2>2
  <2> QED BY <1>6, <2>2, <2>3 DEF all
<1>7. CASE all # {}
  <2>1. few # {} /\ few \subseteq Nat
    BY <1>1, <1>4, <1>7
  <2>2. Min(few) \in few /\ \A k \in few : Min(few) <= k
    BY <2>1, LeastOf
  <2>3. Min(all) \in all /\ \A k \in all : Min(all) <= k
    BY <1>1, <1>7, LeastOf
  <2>4. Min(few) = Min(all)
    <3>1. Min(all) <= Min(few)
      BY <1>1, <2>2, <2>3
    <3>2. PICK g \in few : g <= Min(all)
      BY <1>2, <2>3
    <3>3. Min(few) <= g
      BY <2>2
    <3>4. Min(few) \in Nat /\ Min(all) \in Nat /\ g \in Nat
      BY <1>1, <2>1, <2>2, <2>3, <3>2
    <3> QED BY <3>1, <3>2, <3>3, <3>4
  <2>5. NarrowestGap(s) = <<Min(all)>>
    BY <1>3, <2>1, <2>4
  <2>6. ToSet(NarrowestGap(s)) = {Min(all)}
    <3>1. ToSet(<<Min(all)>>) = {Min(all)}
      BY DEF ToSet
    <3> QED BY <2>5, <3>1
  <2>7. (\A gap \in ToSet(NarrowestGap(s)) : gap >= Day) <=> (\A gap \in all : gap >= Day)
    <3>1. Min(all) >= Day => \A gap \in all : gap >= Day
      <4> SUFFICES ASSUME Min(all) >= Day, NEW gap \in all PROVE gap >= Day
        OBVIOUS
      <4>1. Min(all) <= gap /\ gap \in Nat /\ Min(all) \in Nat
        BY <1>1, <2>3
      <4> QED BY <1>5, <4>1
    <3> QED BY <2>3, <2>6, <3>1
  <2> QED BY <1>7, <2>5, <2>7 DEF all
<1> QED BY <1>6, <1>7

-----------------------------------------------------------------------------
\* The frames of one day are told apart by their time of day.
LEMMA OneDay ==
  ASSUME NEW E, E \subseteq Int, E # {}, IsFiniteSet(E),
         \A s, t \in E : DayOf(s) = DayOf(t)
  PROVE  Cardinality({t % Day : t \in E}) <= 1 <=> Cardinality(E) = 1
<1> DEFINE C == {t % Day : t \in E}
<1>1. Day \in Nat \ {0}
  BY BarsAssumption
<1>2. ASSUME NEW s \in E, NEW t \in E, s % Day = t % Day
      PROVE  s = t
  <2>1. \A x \in Int : /\ x = Day * (x \div Day) + (x % Day)
                       /\ x \div Day \in Int /\ Day * (x \div Day) \in Int /\ x % Day \in Int
    BY <1>1
  <2>2. s \div Day = t \div Day
    BY DEF DayOf
  <2>3. s = Day * (s \div Day) + (s % Day)
    BY <2>1
  <2>4. t = Day * (t \div Day) + (t % Day)
    BY <2>1
  <2> QED BY <1>2, <2>2, <2>3, <2>4
<1>3. IsFiniteSet(C)
  <2>1. C \subseteq 0..(Day - 1)
    BY <1>1
  <2>2. IsFiniteSet(0..(Day - 1))
    <3>1. Day - 1 \in Int
      BY <1>1
    <3> QED BY <3>1, FS_Interval
  <2> HIDE DEF C
  <2> QED BY <2>1, <2>2, FS_Subset
<1>4. C # {}
  OBVIOUS
<1>5. \A c \in C : \E t \in E : c = t % Day
  OBVIOUS
<1>6. \A t \in E : t % Day \in C
  OBVIOUS
<1> HIDE DEF C
<1>7. (\E x : C = {x}) <=> (\E x : E = {x})
  <2>1. ASSUME NEW x, C = {x} PROVE \E y : E = {y}
    <3>1. PICK t \in E : TRUE
      OBVIOUS
    <3>2. \A s \in E : s % Day = x /\ t % Day = x
      BY <1>6, <2>1
    <3>3. \A s \in E : s = t
      BY <1>2, <3>2
    <3>4. E = {t}
      BY <3>3
    <3> QED BY <3>4
  <2>2. ASSUME NEW y, E = {y} PROVE \E x : C = {x}
    <3>1. C = {y % Day}
      BY <1>5, <1>6, <2>2
    <3> QED BY <3>1
  <2> QED BY <2>1, <2>2
<1>8. PICK c \in Nat : c = Cardinality(C)
  BY <1>3, FS_CardinalityType
<1>9. c # 0
  BY <1>3, <1>4, <1>8, FS_EmptySet
<1>10. Cardinality(C) = 1 <=> \E x : C = {x}
  BY <1>3, FS_Singleton
<1>11. Cardinality(E) = 1 <=> \E x : E = {x}
  BY FS_Singleton
<1>12. Cardinality(C) <= 1 <=> Cardinality(C) = 1
  BY <1>8, <1>9
<1>13. Cardinality(C) <= 1 <=> Cardinality(E) = 1
  BY <1>7, <1>10, <1>11, <1>12
<1> QED BY <1>13 DEF C

-----------------------------------------------------------------------------
LEMMA PartOfPart ==
  ASSUME NEW s \in Seq(Int), NEW n \in Nat, n = Len(s), NEW b \in 0..n, NEW p \in 0..(n - b)
  PROVE  SubSeq(SubSeq(s, b + 1, n), (n - b) - p + 1, n - b) = SubSeq(s, n - p + 1, n)
<1> DEFINE v == SubSeq(s, b + 1, n)
           w == SubSeq(v, (n - b) - p + 1, n - b)
           u == SubSeq(s, n - p + 1, n)
           q == n - b
<1>1. q \in Nat /\ p \in 0..q /\ p \in Nat /\ p <= n
  OBVIOUS
<1>2. v \in Seq(Int) /\ Len(v) = q /\ \A i \in 1..q : v[i] = s[b + i]
  <2>1. b + 1 \in Nat \ {0} /\ n \in 0..Len(s) /\ b + 1 <= n + 1
    OBVIOUS
  <2>2. /\ v \in Seq(Int) /\ Len(v) = n - (b + 1) + 1
        /\ \A i \in 1..(n - (b + 1) + 1) : v[i] = s[b + 1 + i - 1]
    BY <2>1, PartOf
  <2>3. n - (b + 1) + 1 = q /\ \A i \in 1..q : b + 1 + i - 1 = b + i
    OBVIOUS
  <2> HIDE DEF v, q
  <2> QED BY <2>2, <2>3
<1>3. u \in Seq(Int) /\ Len(u) = p /\ \A i \in 1..p : u[i] = s[n - p + i]
  <2>1. n - p + 1 \in Nat \ {0} /\ n \in 0..Len(s) /\ n - p + 1 <= n + 1
    BY <1>1
  <2>2. /\ u \in Seq(Int) /\ Len(u) = n - (n - p + 1) + 1
        /\ \A i \in 1..(n - (n - p + 1) + 1) : u[i] = s[n - p + 1 + i - 1]
    BY <2>1, PartOf
  <2>3. n - (n - p + 1) + 1 = p /\ \A i \in 1..p : n - p + 1 + i - 1 = n - p + i
    BY <1>1
  <2> HIDE DEF u
  <2> QED BY <2>2, <2>3
<1> HIDE DEF v
<1>4. w \in Seq(Int) /\ Len(w) = p /\ \A i \in 1..p : w[i] = v[q - p + i]
  <2>1. q - p + 1 \in Nat \ {0} /\ q \in 0..Len(v) /\ q - p + 1 <= q + 1
    BY <1>1, <1>2
  <2>2. /\ w \in Seq(Int) /\ Len(w) = q - (q - p + 1) + 1
        /\ \A i \in 1..(q - (q - p + 1) + 1) : w[i] = v[q - p + 1 + i - 1]
    BY <1>2, <2>1, PartOf
  <2> HIDE DEF w, q
  <2>3. q - (q - p + 1) + 1 = p /\ \A i \in 1..p : q - p + 1 + i - 1 = q - p + i
    BY <1>1
  <2> QED BY <2>2, <2>3
<1>5. \A i \in 1..p : w[i] = u[i]
  <2> TAKE i \in 1..p
  <2>1. q - p + i \in 1..q /\ b + (q - p + i) = n - p + i
    BY <1>1
  <2>2. w[i] = s[b + (q - p + i)]
    <3>1. w[i] = v[q - p + i]
      BY <1>4
    <3>2. v[q - p + i] = s[b + (q - p + i)]
      BY <1>2, <2>1
    <3> QED BY <3>1, <3>2
  <2>3. u[i] = s[n - p + i]
    BY <1>3
  <2> QED BY <2>1, <2>2, <2>3
<1> HIDE DEF w, u
<1>6. w = u
  BY <1>1, <1>3, <1>4, <1>5, SameSeq
<1> QED BY <1>6 DEF w, u, v

LEMMA PreviewLaw ==
  ASSUME NEW times, times \in Seq(Int)
  PROVE  ShowsBothEnds(times, Preview(times))
<1>1. PICK n \in Nat : n = Len(times)
  OBVIOUS
<1>2. PICK S, P \in Nat \ {0} : S = Sample /\ P = PreviewCount /\ 2 * P <= S
  BY InspectAssumption
<1>3. PICK k, b \in Nat : Windows(times, n, k, b)
  BY <1>1, WindowsAre
<1>4. /\ k \in 0..n /\ b \in k..n
      /\ LeadWindow(times) = SubSeq(times, 1, k)
      /\ TailWindow(times) = SubSeq(times, b + 1, n)
      /\ k = IF n <= S THEN n ELSE S
      /\ b = IF n - S >= k THEN n - S ELSE k
  BY <1>2, <1>3 DEF Windows
<1>5. SubSeq(times, 1, n) = times
  BY <1>1, SubSeqFull
<1>6. n <= S => LeadWindow(times) = times /\ TailWindow(times) = <<>>
  <2> SUFFICES ASSUME n <= S PROVE LeadWindow(times) = times /\ TailWindow(times) = <<>>
    OBVIOUS
  <2>1. k = n /\ b = n
    BY <1>2, <1>4
  <2>2. SubSeq(times, n + 1, n) = <<>>
    <3>1. n + 1 \in Int /\ n \in Int /\ n < n + 1
      OBVIOUS
    <3> QED BY <3>1, SubSeqEmpty
  <2> QED BY <1>4, <1>5, <2>1, <2>2
<1>7. n <= 2 * P => Preview(times) = times
  <2> SUFFICES ASSUME n <= 2 * P PROVE Preview(times) = times
    OBVIOUS
  <2>1. n <= S
    BY <1>2
  <2>2. Preview(times) = LeadWindow(times)
    BY <1>1, <1>2 DEF Preview
  <2> QED BY <1>6, <2>1, <2>2
<1> DEFINE tail == IF TailWindow(times) = <<>> THEN LeadWindow(times) ELSE TailWindow(times)
           end == SubSeq(tail, Max({1, Len(tail) - P + 1}), Len(tail))
<1>8. ~(n <= 2 * P) => Preview(times) = SubSeq(times, 1, P) \o <<0>> \o end
  BY <1>1, <1>2 DEF Preview
<1>9. ASSUME NEW c \in 0..n, tail = SubSeq(times, c + 1, n), n - c >= P
      PROVE  end = SubSeq(times, n - P + 1, n)
  <2>1. Len(tail) = n - c
    <3>1. c + 1 \in Nat \ {0} /\ n \in 0..Len(times) /\ c + 1 <= n + 1
      BY <1>1
    <3>2. Len(SubSeq(times, c + 1, n)) = n - (c + 1) + 1
      BY <3>1, PartOf
    <3>3. n - (c + 1) + 1 = n - c
      OBVIOUS
    <3> HIDE DEF tail
    <3> QED BY <1>9, <3>2, <3>3
  <2>2. Max({1, (n - c) - P + 1}) = (n - c) - P + 1
    <3>1. (n - c) - P + 1 \in Int /\ 1 \in Int /\ (n - c) - P + 1 >= 1
      BY <1>9
    <3>2. Max({1, (n - c) - P + 1}) = IF 1 >= (n - c) - P + 1 THEN 1 ELSE (n - c) - P + 1
      BY <3>1, MaxPair
    <3> QED BY <3>1, <3>2
  <2>3. P \in 0..(n - c) /\ c \in 0..n
    BY <1>9
  <2>4. SubSeq(SubSeq(times, c + 1, n), (n - c) - P + 1, n - c) = SubSeq(times, n - P + 1, n)
    BY <1>1, <2>3, PartOfPart
  <2>5. end = SubSeq(tail, (n - c) - P + 1, n - c)
    <3> HIDE DEF tail
    <3> QED BY <2>1, <2>2
  <2> HIDE DEF tail, end
  <2> QED BY <1>9, <2>4, <2>5
<1>10. n > 2 * P /\ (n <= S \/ n >= S + P) => end = SubSeq(times, n - P + 1, n)
  <2>1. ASSUME n > 2 * P, n <= S PROVE end = SubSeq(times, n - P + 1, n)
    <3>1. tail = SubSeq(times, 0 + 1, n)
      BY <1>5, <1>6, <2>1
    <3>2. 0 \in 0..n /\ n - 0 >= P
      BY <2>1
    <3> HIDE DEF tail, end
    <3> QED BY <1>9, <3>1, <3>2
  <2>2. ASSUME n > 2 * P, n >= S + P PROVE end = SubSeq(times, n - P + 1, n)
    <3>1. n - b >= P /\ b \in 0..n
      BY <1>2, <1>4, <2>2
    <3>2. TailWindow(times) # <<>>
      <4>1. b + 1 \in Nat \ {0} /\ n \in 0..Len(times) /\ b + 1 <= n + 1
        BY <1>1, <3>1
      <4>2. Len(TailWindow(times)) = n - (b + 1) + 1
        BY <1>4, <4>1, PartOf
      <4>3. n - (b + 1) + 1 # 0
        BY <3>1
      <4>4. Len(<<>>) = 0
        OBVIOUS
      <4> QED BY <4>2, <4>3, <4>4
    <3>3. tail = SubSeq(times, b + 1, n)
      BY <1>4, <3>2
    <3> HIDE DEF tail, end
    <3> QED BY <1>9, <3>1, <3>3
  <2> HIDE DEF end
  <2> QED BY <2>1, <2>2
<1> HIDE DEF end
<1>11. ~(n <= 2 * P) <=> n > 2 * P
  OBVIOUS
<1> QED BY <1>1, <1>2, <1>7, <1>8, <1>10, <1>11 DEF ShowsBothEnds

-----------------------------------------------------------------------------
\* The hours of a file of several days, and of one.
InsideOf(some) == IF \A t \in some : InHours("rth", t) THEN "rth" ELSE "extended"

LEMMA EndsIn ==
  ASSUME NEW times, IsFile(times)
  PROVE  /\ EndsOf(times) \subseteq ToSet(times) /\ EndsOf(times) # {}
         /\ IsFiniteSet(EndsOf(times)) /\ EndsOf(times) \subseteq Int
<1>1. times \in Seq(Int) /\ times # <<>>
  BY DEF IsFile
<1>2. PICK n \in Nat \ {0} : n = Len(times) /\ DOMAIN times = 1..n
  BY <1>1
<1>3. /\ \A i, j \in 1..n : i < j => times[i] <= times[j]
      /\ \A i \in 1..n : times[i] \in Int
  BY <1>1, <1>2 DEF IsFile
<1>4. EndsOf(times) \subseteq ToSet(times)
  BY DEF EndsOf, ToSet
<1>5. times[1] \in EndsOf(times)
  <2>1. 1 \in DOMAIN times /\ 1 <= Sample
    BY <1>2, InspectAssumption
  <2> QED BY <2>1 DEF EndsOf
<1>6. ToSet(times) \subseteq times[1]..times[n]
  <2>1. ASSUME NEW i \in 1..n PROVE times[i] \in times[1]..times[n]
    <3>1. times[1] <= times[i]
      <4>1. i = 1 \/ 1 < i
        OBVIOUS
      <4> QED BY <1>3, <4>1
    <3>2. times[i] <= times[n]
      <4>1. i = n \/ i < n
        OBVIOUS
      <4> QED BY <1>3, <4>1
    <3> QED BY <1>3, <3>1, <3>2
  <2> QED BY <1>2, <2>1 DEF ToSet
<1>7. IsFiniteSet(times[1]..times[n])
  <2>1. times[1] \in Int /\ times[n] \in Int
    BY <1>3
  <2> QED BY <2>1, FS_Interval
<1>8. EndsOf(times) \subseteq times[1]..times[n] /\ EndsOf(times) \subseteq Int
  BY <1>4, <1>6
<1> QED BY <1>4, <1>5, <1>7, <1>8, FS_Subset

LEMMA HoursLaw ==
  ASSUME NEW times, IsFile(times), NEW n \in Nat \ {0}, InDays(times, n)
  PROVE  IF LaterDays(times) # {}
         THEN /\ DayOpenTimes(times) # <<>>
              /\ (IF Outside(DayOpenTimes(times)) THEN "extended" ELSE "rth")
                    = InsideOf(OpensOf(times, ProbedDays(times)))
         ELSE /\ DayOpenTimes(times) = <<>>
              /\ SampledHours(Sampled(times))
                    = IF Cardinality(EndsOf(times)) = 1 THEN "n/a" ELSE InsideOf(EndsOf(times))
<1> DEFINE opens == DayOpenTimes(times)
<1>1. times \in Seq(Int) /\ times # <<>>
  BY DEF IsFile
<1>2. PICK days : OpensFine(times, opens, days)
  BY <1>1, DayOpens
<1>3. /\ days \subseteq ProbedDays(times) /\ ToSet(opens) = OpensOf(times, days)
      /\ Outside(opens) \/ days = ProbedDays(times)
      /\ days = {} => LaterDays(times) = {}
      /\ opens \in Seq(Int)
  BY <1>2 DEF OpensFine
<1>4. CASE LaterDays(times) # {}
  <2>1. PICK d \in days : d \in LaterDays(times)
    BY <1>3, <1>4 DEF ProbedDays
  <2>2. ToSet(opens) # {}
    <3>1. OpenOf(times, d) \in 2..n
      BY <2>1, OpensWhere
    <3>2. DOMAIN times = 1..n /\ ProbeFrames \in Nat \ {0}
      BY InspectAssumption DEF InDays
    <3>3. /\ OpenOf(times, d) \in DOMAIN times
          /\ OpenOf(times, d) \in OpenOf(times, d)..(OpenOf(times, d) + ProbeFrames - 1)
      BY <3>1, <3>2
    <3>4. times[OpenOf(times, d)] \in OpensOf(times, days)
      BY <2>1, <3>3 DEF OpensOf
    <3> HIDE DEF opens
    <3> QED BY <1>3, <3>4
  <2>3. opens # <<>>
    <3>1. ToSet(<<>>) = {}
      BY DEF ToSet
    <3> HIDE DEF opens
    <3> QED BY <2>2, <3>1
  <2>4. OpensOf(times, days) \subseteq OpensOf(times, ProbedDays(times))
    BY <1>3 DEF OpensOf
  <2>5. Outside(opens) <=> \E t \in OpensOf(times, ProbedDays(times)) : ~InHours("rth", t)
    <3> HIDE DEF opens
    <3>1. Outside(opens) => \E t \in OpensOf(times, ProbedDays(times)) : ~InHours("rth", t)
      BY <1>3, <2>4 DEF Outside
    <3>2. ~Outside(opens) => ToSet(opens) = OpensOf(times, ProbedDays(times))
      BY <1>3
    <3>3. ~Outside(opens) => ~\E t \in OpensOf(times, ProbedDays(times)) : ~InHours("rth", t)
      BY <3>2 DEF Outside
    <3> QED BY <3>1, <3>3
  <2>6. (IF Outside(opens) THEN "extended" ELSE "rth")
           = InsideOf(OpensOf(times, ProbedDays(times)))
    <3> HIDE DEF opens
    <3> QED BY <2>5 DEF InsideOf
  <2> QED BY <1>4, <2>3, <2>6
<1>5. CASE LaterDays(times) = {}
  <2>1. days = {}
    BY <1>3, <1>5 DEF ProbedDays
  <2>2. ToSet(opens) = {}
    <3>1. OpensOf(times, {}) = {}
      BY DEF OpensOf
    <3> HIDE DEF opens
    <3> QED BY <1>3, <2>1, <3>1
  <2>3. opens = <<>>
    <3>1. opens \in Seq(Int)
      BY <1>3
    <3> HIDE DEF opens
    <3>2. PICK m \in Nat : m = Len(opens)
      BY <3>1
    <3>3. 1..m = {}
      BY <2>2, <3>1, <3>2 DEF ToSet
    <3>4. m = 0
      BY <3>3
    <3> QED BY <3>1, <3>2, <3>4, EmptySeq
  <2> DEFINE E == EndsOf(times)
  <2>4. /\ E \subseteq ToSet(times) /\ E # {}
        /\ IsFiniteSet(E) /\ E \subseteq Int
    BY EndsIn
  <2>5. \A s, t \in E : DayOf(s) = DayOf(t)
    <3>1. \A t \in ToSet(times) : DayOf(t) = DayOf(Head(times))
      BY <1>5 DEF LaterDays
    <3> HIDE DEF E
    <3> QED BY <2>4, <3>1
  <2>6. ToSet(Sampled(times)) = E
    BY SampleIsFile
  <2> HIDE DEF E
  <2>7. Cardinality({t % Day : t \in E}) <= 1 <=> Cardinality(E) = 1
    BY <2>4, <2>5, OneDay
  <2>8. SampledHours(Sampled(times)) = IF Cardinality(E) = 1 THEN "n/a" ELSE InsideOf(E)
    BY <2>6, <2>7 DEF SampledHours, InsideOf
  <2> QED BY <1>5, <2>3, <2>8 DEF E
<1> QED BY <1>4, <1>5

\* The overview of every file whose frames are in order.
LEMMA FileLaw ==
  ASSUME NEW times, times = <<>> \/ IsFile(times), NEW kind
  PROVE  TellsTheFile(kind, times)
<1> DEFINE told == InspectFile(kind, times)
           spacings == Spacings(EndsOf(times))
           s == Sampled(times)
<1>1. /\ told.hours = FileHours(kind, times)
      /\ told.granularity = IF kind = "bar" THEN NarrowestGap(s) ELSE <<>>
      /\ told.preview = Preview(times)
  BY DEF InspectFile
<1>2. times \in Seq(Int)
  <2>1. <<>> \in Seq(Int)
    OBVIOUS
  <2> QED BY <2>1 DEF IsFile
<1>3. ShowsBothEnds(times, Preview(times))
  BY <1>2, PreviewLaw
<1> HIDE DEF told
<1>4. CASE times = <<>>
  <2>1. EndsOf(times) = {}
    BY <1>4 DEF EndsOf
  <2>2. spacings = {}
    BY <2>1 DEF Spacings
  <2>3. NarrowestGap(s) = <<>>
    <3>1. s = <<>>
      <4>1. PICK n \in Nat : n = Len(times) /\ n = 0
        BY <1>4
      <4>2. PICK k, b \in Nat : Windows(times, n, k, b)
        BY <1>2, <4>1, WindowsAre
      <4>3. SampledIs(times, n, k, b)
        BY <4>2, SampledAt
      <4>4. s \in Seq(Int) /\ Len(s) = k + n - b
        BY <4>3 DEF SampledIs
      <4>5. k = 0 /\ b = 0
        BY <4>1, <4>2 DEF Windows
      <4> HIDE DEF s
      <4>6. Len(s) = 0
        BY <4>1, <4>4, <4>5
      <4> QED BY <4>4, <4>6
    <3>2. 1..(Len(<<>>) - 1) = {}
      OBVIOUS
    <3> HIDE DEF s
    <3> QED BY <3>1, <3>2 DEF NarrowestGap
  <2>4. FileHours(kind, times) = "none" /\ HoursOf(kind, times) = "none"
    BY <1>4 DEF FileHours, HoursOf
  <2> HIDE DEF spacings, s
  <2> QED BY <1>1, <1>3, <2>2, <2>3, <2>4 DEF TellsTheFile, told, spacings
<1>5. CASE times # <<>>
  <2>1. IsFile(times)
    BY <1>5
  <2>2. PICK n \in Nat \ {0} : InDays(times, n)
    BY <2>1, FileInDays
  <2>3. IsFile(s) /\ ToSet(s) = EndsOf(times)
    BY <2>1, SampleIsFile
  <2> HIDE DEF s
  <2>4. /\ NarrowestGap(s) = IF spacings # {} THEN <<Min(spacings)>> ELSE <<>>
        /\ (\A gap \in ToSet(NarrowestGap(s)) : gap >= Day) <=> (\A gap \in spacings : gap >= Day)
    BY <2>3, GapLaw
  <2> HIDE DEF spacings
  <2>5. told.granularity = IF kind = "bar" /\ spacings # {} THEN <<Min(spacings)>> ELSE <<>>
    BY <1>1, <2>4
  <2>6. FileHours(kind, times)
           = IF kind = "bar" /\ \A gap \in spacings : gap >= Day THEN "n/a"
             ELSE IF DayOpenTimes(times) = <<>> THEN SampledHours(s)
             ELSE IF Outside(DayOpenTimes(times)) THEN "extended" ELSE "rth"
    BY <1>5, <2>4 DEF FileHours, s
  <2>7. HoursOf(kind, times)
           = IF kind = "bar" /\ \A gap \in spacings : gap >= Day THEN "n/a"
             ELSE IF LaterDays(times) # {} THEN InsideOf(OpensOf(times, ProbedDays(times)))
             ELSE IF Cardinality(EndsOf(times)) = 1 THEN "n/a" ELSE InsideOf(EndsOf(times))
    BY <1>5 DEF HoursOf, InsideOf, spacings
  <2>8. FileHours(kind, times) = HoursOf(kind, times)
    <3>1. CASE LaterDays(times) # {}
      <4>1. /\ DayOpenTimes(times) # <<>>
            /\ (IF Outside(DayOpenTimes(times)) THEN "extended" ELSE "rth")
                  = InsideOf(OpensOf(times, ProbedDays(times)))
        BY <2>1, <2>2, <3>1, HoursLaw
      <4> QED BY <2>6, <2>7, <3>1, <4>1
    <3>2. CASE LaterDays(times) = {}
      <4>1. /\ DayOpenTimes(times) = <<>>
            /\ SampledHours(s)
                  = IF Cardinality(EndsOf(times)) = 1 THEN "n/a" ELSE InsideOf(EndsOf(times))
        BY <2>1, <2>2, <3>2, HoursLaw DEF s
      <4> QED BY <2>6, <2>7, <3>2, <4>1
    <3> QED BY <3>1, <3>2
  <2> QED BY <1>1, <1>3, <2>5, <2>8 DEF TellsTheFile, told, spacings
<1> QED BY <1>4, <1>5

-----------------------------------------------------------------------------
\* The overview tells the hours, the granularity and both ends of every file
\* that a source can be, of any length and over any days, from the few frames
\* it reads of it.
THEOREM FileIsTold == Spec => []InspectTellsTheFile
<1>1. SourceInOrder => InspectTellsTheFile
  <2> SUFFICES ASSUME SourceInOrder PROVE TellsTheFile(Kind, FileTimes)
    BY DEF InspectTellsTheFile
  <2> DEFINE times == FileTimes
  <2>1. PICK n \in Nat : n = Len(source) /\ DOMAIN source = 1..n
    BY DEF SourceInOrder
  <2>2. \A i \in 1..n : source[i].time \in Int
    <3>1. \A i \in 1..n : source[i] \in TickType
      BY <2>1 DEF SourceInOrder
    <3>2. \A t \in TickType : t.time \in Int
      BY TickTime
    <3> QED BY <3>1, <3>2
  <2>3. times = [i \in 1..n |-> source[i].time]
    BY <2>1 DEF FileTimes
  <2> HIDE DEF times
  <2>4. times \in Seq(Int) /\ Len(times) = n
    BY <2>2, <2>3
  <2>5. \A i, j \in 1..n : i < j => times[i] <= times[j]
    <3>1. \A i, j \in 1..n : i < j => source[i].time <= source[j].time
      BY <2>1 DEF SourceInOrder, Ascending
    <3> QED BY <2>3, <3>1
  <2>6. times = <<>> \/ IsFile(times)
    BY <2>4, <2>5 DEF IsFile
  <2>7. TellsTheFile(Kind, times)
    BY <2>6, FileLaw
  <2> QED BY <2>7 DEF times
<1> QED BY <1>1, OrderStart, OrderStep, PTL DEF Spec
=============================================================================
