--------------------------- MODULE Archive_proofs ---------------------------
(***************************************************************************)
(* Proofs about Sidecar and Archive.  A symbol's bar files stay            *)
(* well-formed, a refresh leaves what a rebuild would have left, and bars  *)
(* read through a store are those the ticks give, for any ticks, stores,   *)
(* widths, deaths and unsyncs.  An archive keeps them as Sidecar does, its *)
(* tools answer in full, and its commands answer with the market, whatever *)
(* files lie in the directory and whichever of them are selected.          *)
(***************************************************************************)
EXTENDS Archive, Bars_proofs, FiniteSetTheorems

-----------------------------------------------------------------------------
(* The rows of some ticks.                                                 *)

Places == 1..MaxTicks
Row == RowOf(Places)

\* What a tick file may hold.
IsSource(ticks) == ticks \in Seq(Times) /\ Len(ticks) <= MaxTicks

Tick(t, i) == [time |-> t, ticks |-> <<i>>]

LEMMA SeriesType ==
  ASSUME NEW x \in Series
  PROVE  x.width \in 1..Day /\ x.session \in Sessions
  BY DEF Series

LEMMA TickType ==
  ASSUME NEW t \in Times, NEW i \in Places
  PROVE  Tick(t, i) \in Row
<1>1. t \in Int /\ <<i>> \in Seq(Places)
  BY SidecarAssumption
<1> QED BY <1>1 DEF Tick, Row, RowOf

LEMMA TickParts ==
  ASSUME NEW t, NEW i
  PROVE  Tick(t, i).time = t /\ Tick(t, i).ticks = <<i>>
  BY DEF Tick

LEMMA RowsType ==
  ASSUME NEW ticks, IsSource(ticks)
  PROVE  /\ Rows(ticks) \in Seq(Row)
         /\ Len(Rows(ticks)) = Len(ticks)
         /\ \A i \in 1..Len(ticks) : Rows(ticks)[i] = Tick(ticks[i], i)
<1> DEFINE n == Len(ticks)
<1>1. n \in Nat /\ n <= MaxTicks /\ MaxTicks \in Nat /\ \A i \in 1..n : ticks[i] \in Times
  BY SidecarAssumption DEF IsSource
<1>2. \A i \in 1..n : Tick(ticks[i], i) \in Row
  <2>1. \A i \in 1..n : i \in Places
    BY <1>1 DEF Places
  <2> HIDE DEF n
  <2> QED BY <1>1, <2>1, TickType
<1>3. Rows(ticks) = [i \in 1..n |-> Tick(ticks[i], i)]
  BY DEF Rows, Tick
<1> HIDE DEF n
<1>4. Rows(ticks) \in [1..n -> Row]
  BY <1>2, <1>3
<1>5. Rows(ticks) \in Seq(Row) /\ Len(Rows(ticks)) = n
  BY <1>1, <1>4
<1> QED BY <1>3, <1>5 DEF n

LEMMA RowsTimes ==
  ASSUME NEW ticks, IsSource(ticks)
  PROVE  /\ Len(Rows(ticks)) = Len(ticks)
         /\ \A i \in 1..Len(ticks) : Rows(ticks)[i].time = ticks[i]
<1> DEFINE rows == Rows(ticks)
<1>1. Len(rows) = Len(ticks) /\ \A i \in 1..Len(ticks) : rows[i] = Tick(ticks[i], i)
  BY RowsType
<1> HIDE DEF rows
<1>2. \A i \in 1..Len(ticks) : rows[i].time = ticks[i]
  BY <1>1, TickParts
<1> QED BY <1>1, <1>2 DEF rows

LEMMA PrefixSource ==
  ASSUME NEW ticks, IsSource(ticks), NEW n \in 0..Len(ticks)
  PROVE  /\ IsSource(SubSeq(ticks, 1, n))
         /\ Len(SubSeq(ticks, 1, n)) = n
         /\ \A i \in 1..n : SubSeq(ticks, 1, n)[i] = ticks[i]
<1>1. ticks \in Seq(Times) /\ Len(ticks) \in Nat /\ Len(ticks) <= MaxTicks /\ MaxTicks \in Nat
  BY SidecarAssumption DEF IsSource
<1>2. n \in Nat /\ \A i \in 1..n : ticks[i] \in Times
  BY <1>1
<1>3. /\ SubSeq(ticks, 1, n) \in Seq(Times) /\ Len(SubSeq(ticks, 1, n)) = n
      /\ \A i \in 1..n : SubSeq(ticks, 1, n)[i] = ticks[i]
  BY <1>2, SubSeqProperties
<1> QED BY <1>1, <1>2, <1>3 DEF IsSource

LEMMA RowsPrefix ==
  ASSUME NEW ticks, IsSource(ticks), NEW n \in 1..Len(ticks)
  PROVE  Rows(SubSeq(ticks, 1, n)) = Append(Rows(SubSeq(ticks, 1, n - 1)), Tick(ticks[n], n))
<1> DEFINE p == SubSeq(ticks, 1, n)
           q == SubSeq(ticks, 1, n - 1)
           e == Tick(ticks[n], n)
<1>1. Len(ticks) \in Nat /\ n \in 0..Len(ticks) /\ n - 1 \in 0..Len(ticks) /\ n \in 1..n
  BY DEF IsSource
<1>2. /\ IsSource(p) /\ Len(p) = n /\ \A i \in 1..n : p[i] = ticks[i]
      /\ IsSource(q) /\ Len(q) = n - 1 /\ \A i \in 1..(n - 1) : q[i] = ticks[i]
  BY <1>1, PrefixSource
<1> HIDE DEF p, q
<1>3. /\ Rows(p) \in Seq(Row) /\ Len(Rows(p)) = n
      /\ \A i \in 1..n : Rows(p)[i] = Tick(ticks[i], i)
  BY <1>2, RowsType
<1>4. /\ Rows(q) \in Seq(Row) /\ Len(Rows(q)) = n - 1
      /\ \A i \in 1..(n - 1) : Rows(q)[i] = Tick(ticks[i], i)
  BY <1>2, RowsType
<1>5. e \in Row
  <2>1. n \in Places /\ ticks[n] \in Times
    BY <1>1, SidecarAssumption DEF IsSource, Places
  <2> QED BY <2>1, TickType
<1> HIDE DEF e
<1> DEFINE more == Append(Rows(q), e)
<1>6. /\ more \in Seq(Row) /\ Len(more) = n /\ more[n] = e
      /\ \A i \in 1..(n - 1) : more[i] = Rows(q)[i]
  BY <1>1, <1>4, <1>5, AppendProperties
<1> HIDE DEF more
<1>7. \A i \in 1..n : Rows(p)[i] = more[i]
  <2>1. \A i \in 1..n : i \in 1..(n - 1) \/ i = n
    BY <1>1
  <2> QED BY <1>3, <1>4, <1>6, <2>1 DEF e
<1>8. Rows(p) = more
  BY <1>3, <1>6, <1>7, SeqEqual
<1> QED BY <1>8 DEF more, p, q, e

-----------------------------------------------------------------------------
(* The filter of a series.                                                 *)

LEMMA FilteredType ==
  ASSUME NEW S, NEW rows \in Seq(S), NEW s
  PROVE  Filtered(s, rows) \in Seq(S)
  BY InSessionType DEF Filtered

LEMMA FilteredEmpty ==
  ASSUME NEW s
  PROVE  Filtered(s, <<>>) = <<>>
  BY InSessionEmpty DEF Filtered

LEMMA FilteredAppend ==
  ASSUME NEW S, NEW rows \in Seq(S), NEW e \in S, NEW s
  PROVE  Filtered(s, Append(rows, e)) =
            IF Belongs(s, e.time) THEN Append(Filtered(s, rows), e) ELSE Filtered(s, rows)
<1>1. CASE s = "rth"
  BY <1>1, InSessionAppend DEF Filtered, Belongs
<1>2. CASE s # "rth"
  BY <1>2 DEF Filtered, Belongs
<1> QED BY <1>1, <1>2

LEMMA FilteredAll ==
  ASSUME NEW S, NEW rows \in Seq(S), NEW s, \A i \in 1..Len(rows) : Belongs(s, rows[i].time)
  PROVE  Filtered(s, rows) = rows
<1>1. CASE s = "rth"
  BY <1>1, InSessionAll DEF Filtered, Belongs
<1>2. CASE s # "rth"
  BY <1>2 DEF Filtered
<1> QED BY <1>1, <1>2

LEMMA FilteredElements ==
  ASSUME NEW S, NEW rows \in Seq(S), NEW s
  PROVE  \A k \in 1..Len(Filtered(s, rows)) :
            \E i \in 1..Len(rows) : /\ Belongs(s, rows[i].time)
                                    /\ Filtered(s, rows)[k] = rows[i]
<1>1. CASE s = "rth"
  <2>1. Filtered(s, rows) = InSession(s, rows)
    BY <1>1 DEF Filtered
  <2>2. \A t : Belongs(s, t) <=> InHours(s, t)
    BY <1>1 DEF Belongs
  <2> QED BY <2>1, <2>2, InSessionElements
<1>2. CASE s # "rth"
  BY <1>2 DEF Filtered, Belongs
<1> QED BY <1>1, <1>2

-----------------------------------------------------------------------------
(* One pass over the ticks.                                                *)

\* The series after the first n ticks.
Upto(x, ticks, n) == Rebuild(x, SubSeq(ticks, 1, n))

BucketOf(x, t) == BucketStart(x.width, x.session, t)

LEMMA UptoType ==
  ASSUME NEW x \in Series, NEW ticks, IsSource(ticks), NEW n \in 0..Len(ticks)
  PROVE  /\ Upto(x, ticks, n) \in Seq(Row)
         /\ Len(Upto(x, ticks, n)) \in Nat
<1>1. Filtered(x.session, Rows(SubSeq(ticks, 1, n))) \in Seq(Row)
  BY PrefixSource, RowsType, FilteredType
<1>2. Upto(x, ticks, n) \in Seq(Row)
  <2> DEFINE rows == Filtered(x.session, Rows(SubSeq(ticks, 1, n)))
  <2>1. Upto(x, ticks, n) = Resample(x.width, x.session, rows)
    BY DEF Upto, Rebuild
  <2>2. rows \in Seq(RowOf(Places))
    BY <1>1 DEF Row
  <2> HIDE DEF rows
  <2> QED BY <2>1, <2>2, SeriesType, ResampleType DEF Row
<1> QED BY <1>2

LEMMA UptoAll ==
  ASSUME NEW x, NEW ticks, IsSource(ticks)
  PROVE  Rebuild(x, ticks) = Upto(x, ticks, Len(ticks))
<1>1. SubSeq(ticks, 1, Len(ticks)) = ticks
  BY SubSeqFull DEF IsSource
<1> QED BY <1>1 DEF Upto

LEMMA UptoNone ==
  ASSUME NEW x \in Series, NEW ticks
  PROVE  Upto(x, ticks, 0) = <<>>
<1>1. SubSeq(ticks, 1, 0) = <<>>
  BY SubSeqEmpty
<1>2. Rows(<<>>) = <<>>
  BY DEF Rows
<1> QED BY <1>1, <1>2, FilteredEmpty, SeriesType, ResampleEmpty DEF Upto, Rebuild

\* One more tick is one more push, if the series keeps it.
LEMMA UptoNext ==
  ASSUME NEW x \in Series, NEW ticks, IsSource(ticks), NEW n \in 1..Len(ticks)
  PROVE  /\ Tick(ticks[n], n) \in Row
         /\ ticks[n] \in Times
         /\ Upto(x, ticks, n) =
              IF Belongs(x.session, ticks[n])
              THEN Push(x.width, x.session, Upto(x, ticks, n - 1), Tick(ticks[n], n))
              ELSE Upto(x, ticks, n - 1)
<1> DEFINE e == Tick(ticks[n], n)
           rows == Rows(SubSeq(ticks, 1, n - 1))
           kept == Filtered(x.session, rows)
<1>1. Len(ticks) \in Nat /\ n - 1 \in 0..Len(ticks) /\ n \in Places /\ ticks[n] \in Times
  BY SidecarAssumption DEF IsSource, Places
<1>2. e \in Row /\ e.time = ticks[n]
  BY <1>1, TickType DEF Tick
<1>3. rows \in Seq(Row)
  BY <1>1, PrefixSource, RowsType
<1>4. Rows(SubSeq(ticks, 1, n)) = Append(rows, e)
  BY RowsPrefix
<1> HIDE DEF e, rows
<1>5. Filtered(x.session, Append(rows, e)) =
         IF Belongs(x.session, ticks[n]) THEN Append(kept, e) ELSE kept
  BY <1>2, <1>3, FilteredAppend
<1>6. kept \in Seq(Row)
  BY <1>3, FilteredType
<1> HIDE DEF kept
<1>7. Resample(x.width, x.session, Append(kept, e)) =
         Push(x.width, x.session, Resample(x.width, x.session, kept), e)
  BY <1>2, <1>6, SeriesType, ResampleAppend DEF Row
<1>8. /\ Upto(x, ticks, n - 1) = Resample(x.width, x.session, kept)
      /\ Upto(x, ticks, n) = Resample(x.width, x.session, Filtered(x.session, Append(rows, e)))
  BY <1>4 DEF Upto, Rebuild, kept, rows
<1>9. Upto(x, ticks, n) = IF Belongs(x.session, ticks[n])
                          THEN Push(x.width, x.session, Upto(x, ticks, n - 1), e)
                          ELSE Upto(x, ticks, n - 1)
  <2>1. CASE Belongs(x.session, ticks[n])
    BY <1>5, <1>7, <1>8, <2>1
  <2>2. CASE ~Belongs(x.session, ticks[n])
    BY <1>5, <1>8, <2>2
  <2> QED BY <2>1, <2>2
<1> QED BY <1>1, <1>2, <1>9 DEF e

LEMMA UptoInOrder ==
  ASSUME NEW x \in Series, NEW ticks, IsSource(ticks), NEW n \in 0..Len(ticks)
  PROVE  InOrder(Upto(x, ticks, n))
<1> DEFINE rows == Filtered(x.session, Rows(SubSeq(ticks, 1, n)))
<1>1. rows \in Seq(Row)
  BY PrefixSource, RowsType, FilteredType
<1>2. Upto(x, ticks, n) = Resample(x.width, x.session, rows)
  BY DEF Upto, Rebuild
<1> HIDE DEF rows
<1> QED BY <1>1, <1>2, SeriesType, ResampleInOrder DEF Row

\* Every bar is the bucket of a tick that the series keeps.
LEMMA UptoFrom ==
  ASSUME NEW x \in Series, NEW ticks, IsSource(ticks), NEW n \in 0..Len(ticks)
  PROVE  \A k \in 1..Len(Upto(x, ticks, n)) : \E i \in 1..n :
            /\ ticks[i] \in Times
            /\ Belongs(x.session, ticks[i])
            /\ Upto(x, ticks, n)[k].time = BucketOf(x, ticks[i])
<1> DEFINE all == Rows(SubSeq(ticks, 1, n))
           rows == Filtered(x.session, all)
           bars == Upto(x, ticks, n)
<1>1. /\ all \in Seq(Row) /\ Len(all) = n
      /\ \A i \in 1..n : ticks[i] \in Times /\ all[i].time = ticks[i]
  <2> DEFINE p == SubSeq(ticks, 1, n)
  <2>1. IsSource(p) /\ Len(p) = n /\ \A i \in 1..n : p[i] = ticks[i]
    BY PrefixSource
  <2> HIDE DEF p
  <2>2. /\ Rows(p) \in Seq(Row) /\ Len(Rows(p)) = n
        /\ \A i \in 1..n : Rows(p)[i] = Tick(p[i], i)
    BY <2>1, RowsType
  <2>3. \A i \in 1..n : p[i] \in Times
    BY <2>1 DEF IsSource
  <2>4. \A i \in 1..n : Rows(p)[i].time = ticks[i]
    BY <2>1, <2>2 DEF Tick
  <2> QED BY <2>1, <2>2, <2>3, <2>4 DEF p
<1> HIDE DEF all
<1>2. rows \in Seq(Row)
  BY <1>1, FilteredType
<1>3. \A k \in 1..Len(rows) : \E i \in 1..n :
        Belongs(x.session, ticks[i]) /\ rows[k].time = ticks[i]
  <2>1. \A k \in 1..Len(rows) : \E i \in 1..Len(all) :
           Belongs(x.session, all[i].time) /\ rows[k] = all[i]
    BY <1>1, FilteredElements
  <2> HIDE DEF rows
  <2> QED BY <1>1, <2>1
<1>4. bars = Resample(x.width, x.session, rows)
  BY DEF Upto, Rebuild, all
<1> HIDE DEF rows, bars
<1>5. FromRows(x.width, x.session, bars, rows)
  BY <1>2, <1>4, SeriesType, ResampleFromRows DEF Row
<1>6. \A k \in 1..Len(bars) : \E i \in 1..Len(rows) :
         bars[k].time = BucketOf(x, rows[i].time)
  BY <1>5 DEF FromRows, BucketOf
<1>7. ASSUME NEW k \in 1..Len(bars)
      PROVE  \E i \in 1..n : /\ ticks[i] \in Times
                             /\ Belongs(x.session, ticks[i])
                             /\ bars[k].time = BucketOf(x, ticks[i])
  <2>1. PICK j \in 1..Len(rows) : bars[k].time = BucketOf(x, rows[j].time)
    BY <1>6
  <2>2. PICK i \in 1..n : Belongs(x.session, ticks[i]) /\ rows[j].time = ticks[i]
    BY <1>3
  <2> QED BY <1>1, <2>1, <2>2
<1> QED BY <1>7 DEF bars

\* A series of a later moment has the bars of an earlier one, except that the
\* last of those may have gained ticks.
LEMMA UptoGrows ==
  ASSUME NEW x \in Series, NEW ticks, IsSource(ticks),
         NEW m \in 0..Len(ticks), NEW n \in m..Len(ticks)
  PROVE  GrowsTo(Upto(x, ticks, m), Upto(x, ticks, n))
<1> DEFINE Good == {k \in 0..Len(ticks) : k >= m => GrowsTo(Upto(x, ticks, m), Upto(x, ticks, k))}
<1>1. Len(ticks) \in Nat /\ m \in Nat
  BY DEF IsSource
<1>2. GrowsTo(Upto(x, ticks, m), Upto(x, ticks, m))
  BY UptoType, GrowsSelf DEF Row
<1>3. 0 \in Good
  <2>1. 0 >= m => m = 0
    BY <1>1
  <2>2. 0 \in 0..Len(ticks)
    BY <1>1
  <2> QED BY <1>2, <2>1, <2>2
<1>4. ASSUME NEW k \in 1..Len(ticks), k - 1 \in Good PROVE k \in Good
  <2>1. k \in 0..Len(ticks) /\ k - 1 \in 0..Len(ticks)
    BY <1>1
  <2> SUFFICES ASSUME k >= m PROVE GrowsTo(Upto(x, ticks, m), Upto(x, ticks, k))
    BY <2>1
  <2>2. CASE k = m
    BY <1>2, <2>2
  <2>3. CASE k # m
    <3>1. GrowsTo(Upto(x, ticks, m), Upto(x, ticks, k - 1))
      <4>1. k - 1 >= m
        BY <1>1, <2>3
      <4> QED BY <1>4, <4>1
    <3>2. CASE Belongs(x.session, ticks[k])
      <4>1. /\ Upto(x, ticks, m) \in Seq(Row) /\ Upto(x, ticks, k - 1) \in Seq(Row)
            /\ Tick(ticks[k], k) \in Row
        BY <2>1, UptoType, UptoNext
      <4>2. Upto(x, ticks, k) =
               Push(x.width, x.session, Upto(x, ticks, k - 1), Tick(ticks[k], k))
        BY <3>2, UptoNext
      <4> QED BY <3>1, <4>1, <4>2, SeriesType, GrowsPush DEF Row
    <3>3. CASE ~Belongs(x.session, ticks[k])
      BY <3>1, <3>3, UptoNext
    <3> QED BY <3>2, <3>3
  <2> QED BY <2>2, <2>3
<1>5. 0..Len(ticks) \subseteq Good
  <2> HIDE DEF Good
  <2> QED BY <1>1, <1>3, <1>4, Induction
<1>6. n \in Good
  <2>1. n \in 0..Len(ticks)
    BY <1>1
  <2> HIDE DEF Good
  <2> QED BY <1>5, <2>1
<1>7. n >= m
  BY <1>1
<1> QED BY <1>6, <1>7

-----------------------------------------------------------------------------
(* A pass that starts later.                                               *)

\* The bars of the ticks after the first m, up to the n-th.
After(x, ticks, m, n) ==
    Resample(x.width, x.session, Filtered(x.session, SubSeq(Rows(ticks), m + 1, n)))

LEMMA AfterRows ==
  ASSUME NEW ticks, IsSource(ticks), NEW m \in 0..Len(ticks), NEW n \in 0..Len(ticks)
  PROVE  SubSeq(Rows(ticks), m + 1, n) \in Seq(Row)
<1>1. Len(ticks) \in Nat /\ m + 1 \in Int /\ n \in Int
  BY DEF IsSource
<1>2. Rows(ticks) \in Seq(Row) /\ Len(Rows(ticks)) = Len(ticks)
  BY RowsType
<1> DEFINE rows == Rows(ticks)
<1> HIDE DEF rows
<1>3. \A i \in (m + 1)..n : rows[i] \in Row
  <2>1. \A i \in (m + 1)..n : i \in 1..Len(ticks)
    BY <1>1
  <2> QED BY <1>2, <2>1 DEF rows
<1>4. SubSeq(rows, m + 1, n) \in Seq(Row)
  BY <1>1, <1>3, SubSeqProperties
<1> QED BY <1>4 DEF rows

LEMMA AfterType ==
  ASSUME NEW x \in Series, NEW ticks, IsSource(ticks),
         NEW m \in 0..Len(ticks), NEW n \in 0..Len(ticks)
  PROVE  /\ After(x, ticks, m, n) \in Seq(Row)
         /\ InOrder(After(x, ticks, m, n))
<1> DEFINE rows == Filtered(x.session, SubSeq(Rows(ticks), m + 1, n))
<1>1. rows \in Seq(Row)
  BY AfterRows, FilteredType
<1>2. After(x, ticks, m, n) = Resample(x.width, x.session, rows)
  BY DEF After
<1> HIDE DEF rows
<1> QED BY <1>1, <1>2, SeriesType, ResampleType, ResampleInOrder DEF Row

LEMMA AfterNone ==
  ASSUME NEW x \in Series, NEW ticks, NEW m \in Nat, NEW n \in Nat, n <= m
  PROVE  After(x, ticks, m, n) = <<>>
<1>1. SubSeq(Rows(ticks), m + 1, n) = <<>>
  <2>1. m + 1 \in Int /\ n \in Int /\ n < m + 1
    OBVIOUS
  <2> QED BY <2>1, SubSeqEmpty
<1> QED BY <1>1, FilteredEmpty, SeriesType, ResampleEmpty DEF After

LEMMA AfterNext ==
  ASSUME NEW x \in Series, NEW ticks, IsSource(ticks),
         NEW m \in 0..Len(ticks), NEW n \in (m + 1)..Len(ticks)
  PROVE  After(x, ticks, m, n) =
            IF Belongs(x.session, ticks[n])
            THEN Push(x.width, x.session, After(x, ticks, m, n - 1), Tick(ticks[n], n))
            ELSE After(x, ticks, m, n - 1)
<1> DEFINE e == Tick(ticks[n], n)
           all == Rows(ticks)
           rows == SubSeq(all, m + 1, n - 1)
           kept == Filtered(x.session, rows)
<1>1. /\ Len(ticks) \in Nat /\ n \in 1..Len(ticks) /\ n - 1 \in 0..Len(ticks)
      /\ m + 1 \in 1..Len(ticks) /\ n \in (m + 1)..Len(ticks)
  BY DEF IsSource
<1>2. e \in Row /\ e.time = ticks[n]
  BY <1>1, UptoNext DEF Tick
<1>3. rows \in Seq(Row)
  BY <1>1, AfterRows
<1>4. all \in Seq(Row) /\ Len(all) = Len(ticks) /\ all[n] = e
  BY <1>1, RowsType
<1> HIDE DEF e, all
<1>5. SubSeq(all, m + 1, n) = Append(rows, e)
  <2>1. SubSeq(all, m + 1, n) = rows \o <<all[n]>>
    BY <1>1, <1>4, SubSeqRecursiveSecond
  <2> HIDE DEF rows
  <2> QED BY <1>2, <1>3, <1>4, <2>1, AppendIsConcat
<1> HIDE DEF rows
<1>6. Filtered(x.session, Append(rows, e)) =
         IF Belongs(x.session, ticks[n]) THEN Append(kept, e) ELSE kept
  BY <1>2, <1>3, FilteredAppend
<1>7. kept \in Seq(Row)
  BY <1>3, FilteredType
<1> HIDE DEF kept
<1>8. Resample(x.width, x.session, Append(kept, e)) =
         Push(x.width, x.session, Resample(x.width, x.session, kept), e)
  BY <1>2, <1>7, SeriesType, ResampleAppend DEF Row
<1>9. /\ After(x, ticks, m, n - 1) = Resample(x.width, x.session, kept)
      /\ After(x, ticks, m, n) = Resample(x.width, x.session, Filtered(x.session, Append(rows, e)))
  BY <1>5 DEF After, kept, rows, all
<1>10. CASE Belongs(x.session, ticks[n])
  BY <1>6, <1>8, <1>9, <1>10 DEF e
<1>11. CASE ~Belongs(x.session, ticks[n])
  BY <1>6, <1>9, <1>11
<1> QED BY <1>10, <1>11

\* Behind bars that no later tick joins, a pass over the later ticks alone goes
\* on where the full pass would have gone on.
LEMMA Split ==
  ASSUME NEW x \in Series, NEW ticks, IsSource(ticks), NEW m \in 0..Len(ticks),
         \A i \in (m + 1)..Len(ticks) :
            Belongs(x.session, ticks[i]) => ~Joins(x.width, Upto(x, ticks, m), Tick(ticks[i], i))
  PROVE  \A n \in m..Len(ticks) :
            Upto(x, ticks, n) = Upto(x, ticks, m) \o After(x, ticks, m, n)
<1> DEFINE base == Upto(x, ticks, m)
           Same(n) == Upto(x, ticks, n) = base \o After(x, ticks, m, n)
           Good == {n \in 0..Len(ticks) : n >= m => Same(n)}
<1>1. Len(ticks) \in Nat /\ m \in Nat
  BY DEF IsSource
<1>2. base \in Seq(Row)
  BY UptoType
<1>3. Same(m)
  <2>1. After(x, ticks, m, m) = <<>>
    BY <1>1, AfterNone
  <2>2. base \o <<>> = base
    <3> HIDE DEF base
    <3> QED BY <1>2, ConcatEmptySeq
  <2> QED BY <2>1, <2>2
<1>4. 0 \in Good
  <2>1. 0 >= m => m = 0
    BY <1>1
  <2>2. 0 \in 0..Len(ticks)
    BY <1>1
  <2> HIDE DEF Same
  <2> QED BY <1>3, <2>1, <2>2
<1>5. ASSUME NEW n \in 1..Len(ticks), n - 1 \in Good PROVE n \in Good
  <2>1. n \in 0..Len(ticks) /\ n - 1 \in 0..Len(ticks)
    BY <1>1
  <2> SUFFICES ASSUME n >= m, n # m PROVE Same(n)
    <3> HIDE DEF Same
    <3> QED BY <1>3, <2>1
  <2>2. n \in (m + 1)..Len(ticks) /\ n - 1 >= m
    BY <1>1
  <2> DEFINE a == After(x, ticks, m, n - 1)
             e == Tick(ticks[n], n)
  <2>3. Upto(x, ticks, n - 1) = base \o a
    BY <1>5, <2>2
  <2>4. a \in Seq(Row)
    BY <2>1, AfterType
  <2>5. e \in Row
    BY UptoNext
  <2>6. CASE ~Belongs(x.session, ticks[n])
    <3>1. Upto(x, ticks, n) = Upto(x, ticks, n - 1)
      BY <2>6, UptoNext
    <3>2. After(x, ticks, m, n) = a
      BY <2>2, <2>6, AfterNext
    <3> QED BY <2>3, <3>1, <3>2
  <2>7. CASE Belongs(x.session, ticks[n])
    <3>1. Upto(x, ticks, n) = Push(x.width, x.session, base \o a, e)
      BY <2>3, <2>7, UptoNext
    <3>2. After(x, ticks, m, n) = Push(x.width, x.session, a, e)
      BY <2>2, <2>7, AfterNext
    <3>3. ~Joins(x.width, base, e)
      BY <2>2, <2>7
    <3> HIDE DEF base, a, e
    <3>4. Push(x.width, x.session, base \o a, e) = base \o Push(x.width, x.session, a, e)
      <4>1. CASE a = <<>>
        <5>1. base \o <<>> = base
          BY <1>2, ConcatEmptySeq
        <5>2. Push(x.width, x.session, base, e) = base \o Push(x.width, x.session, <<>>, e)
          BY <1>2, <2>5, <3>3, SeriesType, PushBeyond DEF Row
        <5> QED BY <4>1, <5>1, <5>2
      <4>2. CASE a # <<>>
        <5> DEFINE w == x.width
                   r == x.session
        <5>1. /\ base \in Seq(RowOf(Places)) /\ a \in Seq(RowOf(Places)) /\ e \in RowOf(Places)
              /\ w \in 1..Day /\ r \in Sessions
          BY <1>2, <2>4, <2>5, SeriesType DEF Row
        <5> HIDE DEF w, r
        <5>2. Push(w, r, base \o a, e) = base \o Push(w, r, a, e)
          BY <4>2, <5>1, PushConcat
        <5> QED BY <5>2 DEF w, r
      <4> QED BY <4>1, <4>2
    <3> QED BY <3>1, <3>2, <3>4 DEF base
  <2> QED BY <2>6, <2>7
<1>6. 0..Len(ticks) \subseteq Good
  <2> HIDE DEF Good
  <2> QED BY <1>1, <1>4, <1>5, Induction
<1>7. \A n \in m..Len(ticks) : n \in 0..Len(ticks) /\ n >= m
  BY <1>1
<1> QED BY <1>6, <1>7

LEMMA AfterFrom ==
  ASSUME NEW x \in Series, NEW ticks, IsSource(ticks),
         NEW m \in 0..Len(ticks), NEW n \in 0..Len(ticks)
  PROVE  \A k \in 1..Len(After(x, ticks, m, n)) : \E i \in (m + 1)..n :
            /\ Belongs(x.session, ticks[i])
            /\ After(x, ticks, m, n)[k].time = BucketOf(x, ticks[i])
<1> DEFINE all == SubSeq(Rows(ticks), m + 1, n)
           rows == Filtered(x.session, all)
           bars == After(x, ticks, m, n)
<1>1. Len(ticks) \in Nat /\ m \in Nat /\ n \in Nat /\ n <= Len(ticks)
  BY DEF IsSource
<1>2. /\ all \in Seq(Row)
      /\ \A i \in 1..Len(all) : (m + 1) + i - 1 \in (m + 1)..n
                                /\ all[i].time = ticks[(m + 1) + i - 1]
  <2> DEFINE r == Rows(ticks)
  <2>1. /\ r \in Seq(Row) /\ Len(r) = Len(ticks)
        /\ \A i \in 1..Len(ticks) : r[i] = Tick(ticks[i], i)
    BY RowsType
  <2> HIDE DEF r
  <2>2. \A i \in (m + 1)..n : i \in 1..Len(ticks)
    BY <1>1
  <2>3. /\ SubSeq(r, m + 1, n) \in Seq(Row)
        /\ Len(SubSeq(r, m + 1, n)) = IF m + 1 <= n THEN n - (m + 1) + 1 ELSE 0
        /\ \A i \in 1..(n - (m + 1) + 1) : SubSeq(r, m + 1, n)[i] = r[(m + 1) + i - 1]
    <3>1. \A i \in (m + 1)..n : r[i] \in Row
      BY <2>1, <2>2
    <3>2. m + 1 \in Int /\ n \in Int
      BY <1>1
    <3> QED BY <3>1, <3>2, SubSeqProperties
  <2> DEFINE z == SubSeq(r, m + 1, n)
  <2> HIDE DEF z
  <2>4. \A i \in 1..Len(z) : /\ i \in 1..(n - (m + 1) + 1)
                             /\ (m + 1) + i - 1 \in (m + 1)..n
    BY <1>1, <2>3 DEF z
  <2>5. \A i \in 1..Len(z) : z[i].time = ticks[(m + 1) + i - 1]
    <3>1. \A i \in 1..Len(z) : z[i] = r[(m + 1) + i - 1]
      BY <2>3, <2>4 DEF z
    <3>2. \A i \in 1..Len(ticks) : r[i].time = ticks[i]
      BY <2>1, TickParts
    <3> QED BY <2>2, <2>4, <3>1, <3>2
  <2> QED BY <2>3, <2>4, <2>5 DEF z, r
<1> HIDE DEF all
<1>3. rows \in Seq(Row)
  BY <1>2, FilteredType
<1>4. \A k \in 1..Len(rows) : \E i \in (m + 1)..n :
         Belongs(x.session, ticks[i]) /\ rows[k].time = ticks[i]
  <2>1. \A k \in 1..Len(rows) : \E i \in 1..Len(all) :
           Belongs(x.session, all[i].time) /\ rows[k] = all[i]
    BY <1>2, FilteredElements
  <2> HIDE DEF rows
  <2>2. ASSUME NEW k \in 1..Len(rows)
        PROVE  \E i \in (m + 1)..n : Belongs(x.session, ticks[i]) /\ rows[k].time = ticks[i]
    <3>1. PICK i \in 1..Len(all) : Belongs(x.session, all[i].time) /\ rows[k] = all[i]
      BY <2>1
    <3> DEFINE j == (m + 1) + i - 1
    <3>2. j \in (m + 1)..n /\ all[i].time = ticks[j]
      BY <1>2
    <3> HIDE DEF j
    <3> QED BY <3>1, <3>2
  <2> QED BY <2>2
<1>5. bars = Resample(x.width, x.session, rows)
  BY DEF After, all
<1> HIDE DEF rows, bars
<1>6. FromRows(x.width, x.session, bars, rows)
  BY <1>3, <1>5, SeriesType, ResampleFromRows DEF Row
<1>7. \A k \in 1..Len(bars) : \E i \in 1..Len(rows) :
         bars[k].time = BucketOf(x, rows[i].time)
  BY <1>6 DEF FromRows, BucketOf
<1>8. ASSUME NEW k \in 1..Len(bars)
      PROVE  \E i \in (m + 1)..n : /\ Belongs(x.session, ticks[i])
                                   /\ bars[k].time = BucketOf(x, ticks[i])
  <2>1. PICK j \in 1..Len(rows) : bars[k].time = BucketOf(x, rows[j].time)
    BY <1>7
  <2>2. PICK i \in (m + 1)..n : Belongs(x.session, ticks[i]) /\ rows[j].time = ticks[i]
    BY <1>4
  <2> QED BY <2>1, <2>2
<1> QED BY <1>8 DEF bars

-----------------------------------------------------------------------------
(* Where a file in key order is cut.                                       *)

IsAscending(ticks) == \A i, j \in 1..Len(ticks) : i <= j => ticks[i] <= ticks[j]

\* The first n ticks, and no other, are before an instant.
IsCut(ticks, t, n) ==
    /\ n \in 0..Len(ticks)
    /\ \A i \in 1..Len(ticks) : i <= n <=> ticks[i] < t

LEMMA TimesType ==
  ASSUME NEW ticks, IsSource(ticks)
  PROVE  /\ Len(ticks) \in Nat
         /\ \A i \in 1..Len(ticks) : ticks[i] \in Times /\ ticks[i] \in Int
<1>1. Len(ticks) \in Nat /\ \A i \in 1..Len(ticks) : ticks[i] \in Times
  BY DEF IsSource
<1>2. \A t \in Times : t \in Int
  BY SidecarAssumption
<1> QED BY <1>1, <1>2

\* One more tick, not before the last.
LEMMA DownloadSource ==
  ASSUME NEW ticks, IsSource(ticks), IsAscending(ticks), Len(ticks) < MaxTicks,
         NEW t \in Times, ticks # <<>> => t >= ticks[Len(ticks)]
  PROVE  /\ IsSource(Append(ticks, t)) /\ IsAscending(Append(ticks, t))
         /\ Len(Append(ticks, t)) = Len(ticks) + 1
         /\ \A i \in 1..Len(ticks) : Append(ticks, t)[i] = ticks[i] /\ ticks[i] <= t
         /\ Append(ticks, t)[Len(ticks) + 1] = t
<1> DEFINE n == Len(ticks)
           more == Append(ticks, t)
<1>1. /\ ticks \in Seq(Times) /\ n \in Nat /\ t \in Int /\ MaxTicks \in Nat
      /\ \A i \in 1..n : ticks[i] \in Int
  BY TimesType, SidecarAssumption DEF IsSource
<1>2. /\ more \in Seq(Times) /\ Len(more) = n + 1 /\ more[n + 1] = t
      /\ \A i \in 1..n : more[i] = ticks[i]
  BY <1>1, AppendProperties
<1>3. \A i \in 1..n : ticks[i] <= t
  <2> SUFFICES ASSUME NEW i \in 1..n PROVE ticks[i] <= t
    OBVIOUS
  <2>1. ticks # <<>> /\ n \in 1..n /\ i <= n
    BY <1>1
  <2>2. ticks[i] <= ticks[n] /\ ticks[n] <= t
    BY <1>1, <2>1 DEF IsAscending
  <2> QED BY <1>1, <2>1, <2>2
<1> HIDE DEF more
<1>4. IsAscending(more)
  <2> SUFFICES ASSUME NEW i \in 1..(n + 1), NEW j \in 1..(n + 1), i <= j
               PROVE  more[i] <= more[j]
    BY <1>2 DEF IsAscending
  <2>1. CASE j \in 1..n
    <3>1. i \in 1..n
      BY <1>1, <2>1
    <3> QED BY <1>2, <2>1, <3>1 DEF IsAscending
  <2>2. CASE j = n + 1 /\ i \in 1..n
    BY <1>2, <1>3, <2>2
  <2>3. CASE j = n + 1 /\ i = n + 1
    BY <1>1, <1>2, <2>3
  <2> QED BY <1>1, <2>1, <2>2, <2>3
<1>5. IsSource(more)
  BY <1>1, <1>2 DEF IsSource
<1> QED BY <1>2, <1>3, <1>4, <1>5 DEF more

LEMMA CutExists ==
  ASSUME NEW ticks, IsSource(ticks), IsAscending(ticks), NEW t \in Int
  PROVE  \E n : IsCut(ticks, t, n)
<1> DEFINE n == Len(ticks)
           S == {i \in 1..(n + 1) : i = n + 1 \/ t <= ticks[i]}
<1>1. n \in Nat /\ \A i \in 1..n : ticks[i] \in Int
  BY TimesType
<1>2. S \subseteq Nat /\ S # {}
  <2>1. n + 1 \in S
    BY <1>1
  <2> QED BY <2>1
<1>3. PICK m \in S : \A i \in S : m <= i
  <2> HIDE DEF S
  <2> QED BY <1>2, LeastElement
<1>4. m \in 1..(n + 1) /\ m - 1 \in 0..n
  BY <1>1
<1>5. ASSUME NEW i \in 1..n PROVE i <= m - 1 <=> ticks[i] < t
  <2>1. ASSUME i <= m - 1 PROVE ticks[i] < t
    <3>1. i \notin S /\ i \in 1..(n + 1)
      BY <1>1, <1>3, <1>4, <2>1
    <3> QED BY <1>1, <3>1
  <2>2. ASSUME ~(i <= m - 1) PROVE ~(ticks[i] < t)
    <3>1. m <= i /\ m # n + 1 /\ m \in 1..n
      BY <1>1, <1>4, <2>2
    <3>2. t <= ticks[m] /\ ticks[m] <= ticks[i]
      BY <3>1 DEF IsAscending
    <3> QED BY <1>1, <3>1, <3>2
  <2> QED BY <2>1, <2>2
<1>6. IsCut(ticks, t, m - 1)
  BY <1>4, <1>5 DEF IsCut
<1> QED BY <1>6

LEMMA LowerBoundCuts ==
  ASSUME NEW ticks, IsSource(ticks), IsAscending(ticks), NEW t \in Int
  PROVE  IsCut(ticks, t, LowerBound(Rows(ticks), t))
<1> DEFINE Is(n) == \A i \in 1..Len(Rows(ticks)) : i <= n <=> Rows(ticks)[i].time < t
<1>1. /\ Len(Rows(ticks)) = Len(ticks)
      /\ \A i \in 1..Len(ticks) : Rows(ticks)[i].time = ticks[i]
  BY RowsTimes
<1>2. \E n \in 0..Len(Rows(ticks)) : Is(n)
  BY <1>1, CutExists DEF IsCut
<1>3. LowerBound(Rows(ticks), t) = CHOOSE n \in 0..Len(Rows(ticks)) : Is(n)
  BY DEF LowerBound
<1> DEFINE b == LowerBound(Rows(ticks), t)
<1>4. b \in 0..Len(Rows(ticks)) /\ Is(b)
  <2> HIDE DEF Is
  <2> QED BY <1>2, <1>3
<1> HIDE DEF b
<1>5. IsCut(ticks, t, b)
  BY <1>1, <1>4 DEF IsCut
<1> QED BY <1>5 DEF b

LEMMA UpperBoundCuts ==
  ASSUME NEW ticks, IsSource(ticks), IsAscending(ticks), NEW t \in Int
  PROVE  UpperBound(Rows(ticks), t) \in 0..Len(ticks)
<1> DEFINE Is(n) == \A i \in 1..Len(Rows(ticks)) : i <= n <=> Rows(ticks)[i].time <= t
<1>1. /\ Len(Rows(ticks)) = Len(ticks)
      /\ \A i \in 1..Len(ticks) : Rows(ticks)[i].time = ticks[i] /\ ticks[i] \in Int
  BY RowsTimes, TimesType
<1>2. \E n \in 0..Len(Rows(ticks)) : Is(n)
  <2>1. PICK n : IsCut(ticks, t + 1, n)
    BY CutExists
  <2>2. \A i \in 1..Len(ticks) : i <= n <=> ticks[i] < t + 1
    BY <2>1 DEF IsCut
  <2>3. \A i \in 1..Len(ticks) : ticks[i] < t + 1 <=> ticks[i] <= t
    BY <1>1
  <2> QED BY <1>1, <2>1, <2>2, <2>3 DEF IsCut
<1>3. UpperBound(Rows(ticks), t) = CHOOSE n \in 0..Len(Rows(ticks)) : Is(n)
  BY DEF UpperBound
<1>4. UpperBound(Rows(ticks), t) \in 0..Len(Rows(ticks))
  <2> HIDE DEF Is
  <2> QED BY <1>2, <1>3
<1> QED BY <1>1, <1>4

-----------------------------------------------------------------------------
(* The bucket at which a refresh resumes.                                  *)

\* t starts the bucket of a tick that the series keeps.
IsBucket(x, ticks, t) ==
    \E u \in 1..Len(ticks) : Belongs(x.session, ticks[u]) /\ t = BucketOf(x, ticks[u])

LEMMA BucketOfBounds ==
  ASSUME NEW x \in Series, NEW t \in Times
  PROVE  /\ BucketOf(x, t) \in Nat
         /\ BucketOf(x, t) <= t
         /\ t < BucketOf(x, t) + x.width
         /\ t \in Int /\ x.width \in Nat \ {0}
<1>1. t \in Int /\ t >= Day /\ x.width \in 1..Day /\ Day \in Nat
  BY SidecarAssumption, SeriesType, HoursType
<1>2. /\ BucketOf(x, t) \in Int /\ BucketOf(x, t) <= t /\ t < BucketOf(x, t) + x.width
  BY <1>1, SeriesType, BucketStartBounds DEF BucketOf
<1> DEFINE b == BucketOf(x, t)
<1> HIDE DEF b
<1>3. b >= 0
  BY <1>1, <1>2 DEF b
<1> QED BY <1>1, <1>2, <1>3 DEF b

LEMMA TickBuckets ==
  ASSUME NEW x \in Series, Even(x.width, x.session), NEW t \in Times, NEW u \in Times,
         t <= u, Belongs(x.session, t), Belongs(x.session, u)
  PROVE  Beside(x.width, BucketOf(x, t), BucketOf(x, u))
<1>1. t \in Int /\ u \in Int
  BY SidecarAssumption
<1> QED BY <1>1, SeriesType, BucketsBeside DEF BucketOf

\* Ticks before it are in buckets that have ended, the others in it or later.
LEMMA ResumedBuckets ==
  ASSUME NEW x \in Series, Even(x.width, x.session),
         NEW ticks, IsSource(ticks), IsAscending(ticks),
         NEW t, IsBucket(x, ticks, t),
         NEW i \in 1..Len(ticks), Belongs(x.session, ticks[i])
  PROVE  /\ t \in Nat
         /\ ticks[i] < t => BucketOf(x, ticks[i]) + x.width <= t
         /\ t <= ticks[i] => t <= BucketOf(x, ticks[i])
<1>1. PICK u \in 1..Len(ticks) : Belongs(x.session, ticks[u]) /\ t = BucketOf(x, ticks[u])
  BY DEF IsBucket
<1> DEFINE p == ticks[i]
           q == ticks[u]
           b == BucketOf(x, p)
<1>2. p \in Times /\ q \in Times /\ Belongs(x.session, p) /\ Belongs(x.session, q)
  BY <1>1, TimesType
<1>3. /\ b \in Nat /\ b <= p /\ p < b + x.width /\ t \in Nat /\ t <= q
      /\ p \in Int /\ q \in Int /\ x.width \in Nat \ {0}
  BY <1>1, <1>2, BucketOfBounds
<1>4. p <= q => Beside(x.width, b, t)
  BY <1>1, <1>2, TickBuckets
<1>5. q <= p => Beside(x.width, t, b)
  BY <1>1, <1>2, TickBuckets
<1> HIDE DEF p, q, b
<1>6. p < t => b + x.width <= t
  BY <1>3, <1>4 DEF Beside
<1>7. t <= p => t <= b
  <2>1. CASE p <= q
    BY <1>3, <1>4, <2>1 DEF Beside
  <2>2. CASE q <= p
    BY <1>3, <1>5, <2>2 DEF Beside
  <2> QED BY <1>3, <2>1, <2>2
<1> QED BY <1>3, <1>6, <1>7 DEF p, b

\* So the pass may start there.
LEMMA Resumed ==
  ASSUME NEW x \in Series, Even(x.width, x.session),
         NEW ticks, IsSource(ticks), IsAscending(ticks),
         NEW t, IsBucket(x, ticks, t), NEW m, IsCut(ticks, t, m), NEW n \in m..Len(ticks)
  PROVE  /\ m \in 0..Len(ticks)
         /\ Upto(x, ticks, n) = Upto(x, ticks, m) \o After(x, ticks, m, n)
         /\ \A k \in 1..Len(Upto(x, ticks, m)) : Upto(x, ticks, m)[k].time + x.width <= t
         /\ \A k \in 1..Len(After(x, ticks, m, n)) : t <= After(x, ticks, m, n)[k].time
<1>1. /\ Len(ticks) \in Nat /\ m \in 0..Len(ticks) /\ n \in 0..Len(ticks)
      /\ \A i \in 1..Len(ticks) : i <= m <=> ticks[i] < t
  <2>1. Len(ticks) \in Nat /\ m \in 0..Len(ticks)
    BY TimesType DEF IsCut
  <2>2. n \in 0..Len(ticks)
    BY <2>1
  <2> QED BY <2>1, <2>2 DEF IsCut
<1> DEFINE base == Upto(x, ticks, m)
           rest == After(x, ticks, m, n)
<1>2. t \in Nat
  BY ResumedBuckets DEF IsBucket
<1>3. ASSUME NEW k \in 1..Len(base) PROVE base[k].time + x.width <= t
  <2>1. PICK i \in 1..m : Belongs(x.session, ticks[i]) /\ base[k].time = BucketOf(x, ticks[i])
    BY <1>1, UptoFrom
  <2>2. i \in 1..Len(ticks) /\ ticks[i] < t
    BY <1>1
  <2> QED BY <2>1, <2>2, ResumedBuckets
<1>4. ASSUME NEW k \in 1..Len(rest) PROVE t <= rest[k].time
  <2>1. PICK i \in (m + 1)..n : Belongs(x.session, ticks[i]) /\ rest[k].time = BucketOf(x, ticks[i])
    BY <1>1, AfterFrom
  <2>2. i \in 1..Len(ticks) /\ ~(ticks[i] < t) /\ ticks[i] \in Int
    BY <1>1, TimesType
  <2>3. t <= ticks[i]
    BY <1>2, <2>2
  <2> QED BY <2>1, <2>2, <2>3, ResumedBuckets
<1>5. ASSUME NEW i \in (m + 1)..Len(ticks), Belongs(x.session, ticks[i])
      PROVE  ~Joins(x.width, base, Tick(ticks[i], i))
  <2>1. i \in 1..Len(ticks) /\ ~(ticks[i] < t) /\ ticks[i] \in Int
    BY <1>1, TimesType
  <2>2. base \in Seq(Row)
    BY <1>1, UptoType
  <2> HIDE DEF base
  <2>3. ASSUME base # <<>> PROVE ~(ticks[i] < base[Len(base)].time + x.width)
    <3>1. Len(base) \in 1..Len(base)
      BY <2>2, <2>3, EmptySeq
    <3>2. base[Len(base)].time \in Int
      <4>1. base[Len(base)] \in Row
        BY <2>2, <3>1
      <4> QED BY <4>1 DEF Row, RowOf
    <3>3. x.width \in Int
      BY SeriesType
    <3> QED BY <1>2, <1>3, <2>1, <3>1, <3>2, <3>3
  <2> QED BY <2>3 DEF Joins, Tick
<1>6. Upto(x, ticks, n) = base \o rest
  <2>1. \A k \in m..Len(ticks) : Upto(x, ticks, k) = base \o After(x, ticks, m, k)
    BY <1>1, <1>5, Split
  <2> QED BY <2>1
<1> QED BY <1>1, <1>3, <1>4, <1>6

\* Deleting the last bar of a first part of the series leaves the series of the
\* ticks before it.
LEMMA Trimmed ==
  ASSUME NEW x \in Series, Even(x.width, x.session),
         NEW ticks, IsSource(ticks), IsAscending(ticks),
         NEW m \in 0..Len(ticks), NEW n \in 1..Len(Upto(x, ticks, m)),
         NEW c, IsCut(ticks, Upto(x, ticks, m)[n].time, c)
  PROVE  /\ IsBucket(x, ticks, Upto(x, ticks, m)[n].time)
         /\ SubSeq(Upto(x, ticks, m), 1, n - 1) = Upto(x, ticks, c)
<1> DEFINE full == Upto(x, ticks, m)
           t == full[n].time
<1>1. PICK u \in 1..m : /\ ticks[u] \in Times /\ Belongs(x.session, ticks[u])
                        /\ t = BucketOf(x, ticks[u])
  BY UptoFrom
<1>2. Len(ticks) \in Nat /\ u \in 1..Len(ticks)
  BY TimesType
<1>3. IsBucket(x, ticks, t)
  BY <1>1, <1>2 DEF IsBucket
<1>4. /\ c \in 0..Len(ticks) /\ m \in c..Len(ticks)
  <2>1. t <= ticks[u] /\ t \in Nat /\ ticks[u] \in Int
    BY <1>1, BucketOfBounds
  <2>2. c \in 0..Len(ticks) /\ (u <= c <=> ticks[u] < t)
    BY <1>2 DEF IsCut
  <2> HIDE DEF t
  <2>3. ~(u <= c)
    BY <2>1, <2>2
  <2> QED BY <1>2, <2>2, <2>3
<1> DEFINE base == Upto(x, ticks, c)
           rest == After(x, ticks, c, m)
<1>5. /\ full = base \o rest
      /\ \A k \in 1..Len(base) : base[k].time + x.width <= t
      /\ \A k \in 1..Len(rest) : t <= rest[k].time
  <2>1. IsCut(ticks, t, c)
    OBVIOUS
  <2> HIDE DEF t
  <2> QED BY <1>3, <1>4, <2>1, Resumed
<1>6. /\ base \in Seq(Row) /\ rest \in Seq(Row) /\ full \in Seq(Row)
      /\ InOrder(full) /\ x.width \in Nat \ {0}
  BY <1>4, UptoType, AfterType, UptoInOrder, SeriesType
<1>7. n \in 1..Len(full)
  OBVIOUS
<1>8. t = full[n].time
  OBVIOUS
<1> HIDE DEF full, base, rest, t
<1> DEFINE a == Len(base)
           b == Len(rest)
<1>9. /\ a \in Nat /\ b \in Nat /\ Len(full) = a + b
      /\ \A k \in 1..(a + b) : full[k] = IF k <= a THEN base[k] ELSE rest[k - a]
  BY <1>5, <1>6, ConcatProperties
<1>10. \A k \in 1..(a + b) : full[k].time \in Int
  <2>1. \A k \in 1..(a + b) : full[k] \in Row
    BY <1>6, <1>9
  <2> QED BY <2>1 DEF Row, RowOf
<1>11. n = a + 1
  <2>1. ~(n <= a)
    <3> SUFFICES ASSUME n <= a PROVE FALSE
      OBVIOUS
    <3>1. full[n] = base[n] /\ n \in 1..a /\ full[n].time \in Int
      BY <1>7, <1>9, <1>10
    <3>2. full[n].time + x.width <= full[n].time
      BY <1>5, <1>8, <3>1
    <3> QED BY <1>6, <3>1, <3>2
  <2>2. ~(n > a + 1)
    <3> SUFFICES ASSUME n > a + 1 PROVE FALSE
      OBVIOUS
    <3>1. a + 1 \in 1..(a + b) /\ n \in 1..(a + b) /\ 1 \in 1..b /\ (a + 1) - a = 1 /\ ~(a + 1 <= a)
      BY <1>7, <1>9
    <3>2. full[a + 1] = rest[1]
      BY <1>9, <3>1
    <3>3. t <= full[a + 1].time
      BY <1>5, <3>1, <3>2
    <3>4. full[a + 1].time < full[n].time
      BY <1>6, <1>9, <3>1 DEF InOrder
    <3> QED BY <1>8, <1>10, <3>1, <3>3, <3>4
  <2> QED BY <1>7, <1>9, <2>1, <2>2
<1>12. SubSeq(full, 1, n - 1) = base
  <2> DEFINE z == SubSeq(full, 1, n - 1)
  <2>1. \A k \in 1..a : full[k] = base[k] /\ full[k] \in Row
    <3>1. \A k \in 1..a : k \in 1..(a + b) /\ k <= a
      BY <1>9
    <3> QED BY <1>6, <1>9, <3>1
  <2>2. n - 1 = a /\ (a - 1) + 1 = a
    BY <1>9, <1>11
  <2>3. z \in Seq(Row) /\ Len(z) = a /\ \A k \in 1..a : z[k] = full[k]
    <3>1. /\ SubSeq(full, 1, a) \in Seq(Row)
          /\ Len(SubSeq(full, 1, a)) = IF 1 <= a THEN a - 1 + 1 ELSE 0
          /\ \A i \in 1..(a - 1 + 1) : SubSeq(full, 1, a)[i] = full[1 + i - 1]
      BY <1>9, <2>1, SubSeqProperties
    <3>2. \A i \in 1..a : 1 + i - 1 = i
      OBVIOUS
    <3>3. (IF 1 <= a THEN a - 1 + 1 ELSE 0) = a /\ a - 1 + 1 = a
      BY <1>9
    <3> HIDE DEF a
    <3> QED BY <2>2, <3>1, <3>2, <3>3
  <2> HIDE DEF z
  <2>4. z = base
    BY <1>6, <2>1, <2>3, SeqEqual
  <2> QED BY <2>4 DEF z
<1> QED BY <1>3, <1>12 DEF full, base, t

-----------------------------------------------------------------------------
(* Well-formed files, whatever the widths.                                 *)

SyncStates == [pc: {"idle", "scan", "write", "report"}, store: Stores,
               resume: Nat \cup {None}, end: Ends \cup {None},
               bars: Seq(Bar), seen: 0..MaxTicks, lost: BOOLEAN]

\* What is stored of the series lies before the bucket that is resumed, what
\* will be appended does not.
Behind ==
    sync.pc \in {"scan", "write"} =>
        LET stored == sidecar[sync.store]
        IN  IF sync.resume = None THEN stored = <<>>
            ELSE /\ \A k \in 1..Len(stored) : stored[k].time < sync.resume
                 /\ sync.pc = "write" =>
                        \A k \in 1..Len(sync.bars) : sync.resume <= sync.bars[k].time

TypeInv ==
    /\ IsSource(source)
    /\ IsAscending(source)
    /\ sidecar \in [Stores -> Seq(Bar)]
    /\ \A s \in Stores : InOrder(sidecar[s])
    /\ sync \in SyncStates
    /\ InOrder(sync.bars)
    /\ Behind

-----------------------------------------------------------------------------
(* What the files hold.                                                    *)

\* A first part of the series after some of the ticks ...
IsStored(s) ==
    \E m \in 0..Len(source) : \E n \in 0..Len(Upto(s, source, m)) :
        sidecar[s] = SubSeq(Upto(s, source, m), 1, n)

\* ... once trimmed, all of the buckets before the one that is resumed ...
IsTrimmed ==
    sync.pc \in {"scan", "write"} /\ ~sync.lost =>
        \E c \in 0..Len(source) :
            /\ sidecar[sync.store] = Upto(sync.store, source, c)
            /\ IF sync.resume = None THEN c = 0
               ELSE IsBucket(sync.store, source, sync.resume) /\ IsCut(source, sync.resume, c)

\* ... with the bars to write, the series after the ticks that were scanned.
IsScanned ==
    sync.pc = "write" /\ ~sync.lost =>
        \E m \in 0..sync.seen :
            /\ sidecar[sync.store] \o sync.bars = Upto(sync.store, source, m)
            /\ sync.end = None => m = sync.seen

IsWritten ==
    sync.pc = "report" /\ ~sync.lost /\ sync.end = None =>
        sidecar[sync.store] = Upto(sync.store, source, sync.seen)

\* A file that has gone is not there.
IsLost ==
    sync.pc \in {"scan", "write"} /\ sync.lost => sidecar[sync.store] = <<>>

Inv ==
    /\ \A s \in Stores : IsStored(s)
    /\ sync.seen <= Len(source)
    /\ IsTrimmed
    /\ IsScanned
    /\ IsWritten
    /\ IsLost

-----------------------------------------------------------------------------
(* The type invariant.                                                     *)

LEMMA BarsAreRows ==
  /\ Bar \subseteq Row
  /\ \A f \in Seq(Bar) : f \in Seq(Row)
<1>1. Bar \subseteq Row
  BY DEF Bar, Row, RowOf, Places
<1> QED BY <1>1, SeqMonotonic

LEMMA AfterBars ==
  ASSUME NEW x \in Series, NEW ticks, IsSource(ticks),
         NEW m \in 0..Len(ticks), NEW n \in 0..Len(ticks)
  PROVE  After(x, ticks, m, n) \in Seq(Bar)
<1> DEFINE bars == After(x, ticks, m, n)
<1>1. bars \in Seq(Row)
  BY AfterType
<1>2. ASSUME NEW k \in 1..Len(bars) PROVE bars[k] \in Bar
  <2>1. PICK i \in (m + 1)..n : bars[k].time = BucketOf(x, ticks[i])
    BY AfterFrom
  <2>2. i \in 1..Len(ticks)
    BY TimesType
  <2>3. bars[k].time \in Nat
    BY <2>1, <2>2, TimesType, BucketOfBounds
  <2>4. bars[k] \in Row
    <3> HIDE DEF bars
    <3> QED BY <1>1
  <2> QED BY <2>3, <2>4 DEF Row, RowOf, Bar, Places
<1> HIDE DEF bars
<1>3. Len(bars) \in Nat /\ bars \in [1..Len(bars) -> Bar]
  BY <1>1, <1>2
<1>4. bars \in Seq(Bar)
  BY <1>3
<1> QED BY <1>4 DEF bars

LEMMA ConcatInOrder ==
  ASSUME NEW a \in Seq(Bar), NEW b \in Seq(Bar), InOrder(a), InOrder(b),
         \A i \in 1..Len(a) : \A j \in 1..Len(b) : a[i].time < b[j].time
  PROVE  a \o b \in Seq(Bar) /\ InOrder(a \o b)
<1> DEFINE c == a \o b
           p == Len(a)
           q == Len(b)
<1>1. /\ p \in Nat /\ q \in Nat /\ c \in Seq(Bar) /\ Len(c) = p + q
      /\ \A i \in 1..(p + q) : c[i] = IF i <= p THEN a[i] ELSE b[i - p]
  BY ConcatProperties
<1> HIDE DEF c
<1>2. ASSUME NEW j \in 1..(p + q), NEW k \in 1..(p + q), j < k
      PROVE  c[j].time < c[k].time
  <2>1. CASE k <= p
    <3>1. j \in 1..p /\ k \in 1..p /\ j <= p
      BY <1>1, <1>2, <2>1
    <3> QED BY <1>1, <1>2, <2>1, <3>1 DEF InOrder
  <2>2. CASE j > p
    <3>1. j - p \in 1..q /\ k - p \in 1..q /\ j - p < k - p /\ ~(j <= p) /\ ~(k <= p)
      BY <1>1, <1>2, <2>2
    <3> QED BY <1>1, <1>2, <3>1 DEF InOrder
  <2>3. CASE j <= p /\ ~(k <= p)
    <3>1. j \in 1..p /\ k - p \in 1..q
      BY <1>1, <2>3
    <3> QED BY <1>1, <2>3, <3>1
  <2> QED BY <1>1, <2>1, <2>2, <2>3
<1>3. InOrder(c)
  BY <1>1, <1>2 DEF InOrder
<1> QED BY <1>1, <1>3 DEF c

LEMMA PrefixInOrder ==
  ASSUME NEW a \in Seq(Bar), InOrder(a), NEW n \in 0..Len(a)
  PROVE  /\ SubSeq(a, 1, n) \in Seq(Bar)
         /\ InOrder(SubSeq(a, 1, n))
         /\ Len(SubSeq(a, 1, n)) = n
         /\ \A i \in 1..n : SubSeq(a, 1, n)[i] = a[i]
<1> DEFINE c == SubSeq(a, 1, n)
<1>1. Len(a) \in Nat /\ n \in Nat /\ \A i \in 1..n : i \in 1..Len(a) /\ a[i] \in Bar
  OBVIOUS
<1>2. c \in Seq(Bar) /\ Len(c) = n /\ \A i \in 1..n : c[i] = a[i]
  BY <1>1, SubSeqProperties
<1> HIDE DEF c
<1>3. InOrder(c)
  BY <1>1, <1>2 DEF InOrder
<1> QED BY <1>2, <1>3 DEF c

\* What a scan reads: the ticks between two cuts.
LEMMA ScannedIs ==
  ASSUME NEW ticks, IsSource(ticks), IsAscending(ticks),
         NEW from \in Nat \cup {None}, NEW to \in Ends \cup {None}
  PROVE  \E m \in 0..Len(ticks), n \in 0..Len(ticks) :
            /\ Scanned(from, to, Rows(ticks)) = SubSeq(Rows(ticks), m + 1, n)
            /\ IF from = None THEN m = 0 ELSE IsCut(ticks, from, m)
            /\ to = None => n = Len(ticks)
<1> DEFINE rows == Rows(ticks)
           m == IF from = None THEN 0 ELSE LowerBound(rows, from)
           n == IF to = None THEN Len(ticks) ELSE UpperBound(rows, to)
<1>1. Len(ticks) \in Nat /\ Len(rows) = Len(ticks)
  BY TimesType, RowsTimes
<1>2. m \in 0..Len(ticks) /\ IF from = None THEN m = 0 ELSE IsCut(ticks, from, m)
  <2>1. CASE from = None
    BY <1>1, <2>1
  <2>2. CASE from # None
    <3>1. from \in Int
      BY <2>2
    <3>2. IsCut(ticks, from, LowerBound(rows, from))
      BY <3>1, LowerBoundCuts
    <3> QED BY <2>2, <3>2 DEF IsCut
  <2> QED BY <2>1, <2>2
<1>3. n \in 0..Len(ticks) /\ (to = None => n = Len(ticks))
  <2>1. CASE to = None
    BY <1>1, <2>1
  <2>2. CASE to # None
    <3>1. to \in Int
      BY <2>2, SidecarAssumption
    <3> QED BY <2>2, <3>1, UpperBoundCuts
  <2> QED BY <2>1, <2>2
<1>4. Scanned(from, to, rows) = SubSeq(rows, m + 1, n)
  <2>1. m + 1 = IF from = None THEN 1 ELSE LowerBound(rows, from) + 1
    BY <1>2
  <2> HIDE DEF rows
  <2> QED BY <1>1, <2>1 DEF Scanned
<1> HIDE DEF m, n
<1> QED BY <1>2, <1>3, <1>4 DEF rows

\* The scan leaves out the first m ticks and stops after the n-th.
ScanGives(m, n) ==
    LET bars == After(sync.store, source, m, n)
    IN  /\ sync' = [sync EXCEPT !.pc = "write", !.seen = Len(source),
                                !.bars = RowsAt(bars, {i \in DOMAIN bars :
                                      sync.resume # None => bars[i].time >= sync.resume})]
        /\ IF sync.resume = None THEN m = 0 ELSE IsCut(source, sync.resume, m)
        /\ sync.end = None => n = Len(source)

LEMMA ScanIs ==
  ASSUME TypeInv, Scan
  PROVE  \E m \in 0..Len(source), n \in 0..Len(source) : ScanGives(m, n)
<1>1. /\ IsSource(source) /\ IsAscending(source)
      /\ sync.resume \in Nat \cup {None} /\ sync.end \in Ends \cup {None}
  BY DEF TypeInv, SyncStates
<1>2. PICK m \in 0..Len(source), n \in 0..Len(source) :
         /\ Scanned(sync.resume, sync.end, Rows(source)) = SubSeq(Rows(source), m + 1, n)
         /\ IF sync.resume = None THEN m = 0 ELSE IsCut(source, sync.resume, m)
         /\ sync.end = None => n = Len(source)
  BY <1>1, ScannedIs
<1> DEFINE bars == After(sync.store, source, m, n)
<1>3. sync' = [sync EXCEPT !.pc = "write", !.seen = Len(source),
                           !.bars = RowsAt(bars, {i \in DOMAIN bars :
                                 sync.resume # None => bars[i].time >= sync.resume})]
  BY <1>2 DEF Scan, After
<1>4. ScanGives(m, n)
  BY <1>2, <1>3 DEF ScanGives
<1> QED BY <1>4

LEMMA InitTyped == Init => TypeInv
<1> SUFFICES ASSUME Init PROVE TypeInv
  OBVIOUS
<1>1. IsSource(source) /\ IsAscending(source)
  <2>1. source = <<>> /\ MaxTicks \in Nat
    BY SidecarAssumption DEF Init
  <2> QED BY <2>1 DEF IsSource, IsAscending
<1>2. sidecar \in [Stores -> Seq(Bar)] /\ \A s \in Stores : InOrder(sidecar[s])
  <2>1. sidecar = [s \in Stores |-> <<>>] /\ <<>> \in Seq(Bar) /\ Len(<<>>) = 0
    BY DEF Init
  <2> QED BY <2>1 DEF InOrder
<1>3. sync \in SyncStates /\ InOrder(sync.bars) /\ sync.pc = "idle"
  <2>1. (CHOOSE s \in Stores : TRUE) \in Stores
    BY SidecarAssumption
  <2>2. <<>> \in Seq(Bar) /\ Len(<<>>) = 0 /\ 0 \in 0..MaxTicks
    BY SidecarAssumption
  <2> QED BY <2>1, <2>2 DEF Init, NoSync, SyncStates, InOrder, None
<1> QED BY <1>1, <1>2, <1>3 DEF TypeInv, Behind

\* The refresh is over.
LEMMA NoSyncTyped ==
  /\ NoSync \in SyncStates /\ InOrder(NoSync.bars) /\ NoSync.pc = "idle"
  /\ NoSync.seen = 0
<1>1. (CHOOSE s \in Stores : TRUE) \in Stores
  BY SidecarAssumption
<1>2. <<>> \in Seq(Bar) /\ Len(<<>>) = 0 /\ 0 \in 0..MaxTicks
  BY SidecarAssumption
<1> QED BY <1>1, <1>2 DEF NoSync, SyncStates, InOrder, None

LEMMA StoreSeries ==
  ASSUME NEW s \in Stores
  PROVE  s \in Series
  BY SidecarAssumption

LEMMA LastBar ==
  ASSUME TypeInv, NEW s \in Stores
  PROVE  /\ LastBarTime(s) = None => sidecar[s] = <<>>
         /\ LastBarTime(s) # None =>
               /\ Len(sidecar[s]) \in 1..Len(sidecar[s])
               /\ LastBarTime(s) = sidecar[s][Len(sidecar[s])].time
               /\ LastBarTime(s) \in Nat
<1>1. sidecar[s] \in Seq(Bar)
  BY DEF TypeInv
<1>2. CASE sidecar[s] = <<>>
  BY <1>2 DEF LastBarTime
<1>3. CASE sidecar[s] # <<>>
  <2>1. Len(sidecar[s]) \in 1..Len(sidecar[s])
    BY <1>1, <1>3, EmptySeq
  <2>2. sidecar[s][Len(sidecar[s])] \in Bar
    BY <1>1, <2>1
  <2>3. LastBarTime(s) = sidecar[s][Len(sidecar[s])].time
    BY <1>3 DEF LastBarTime, Last
  <2>4. LastBarTime(s) \in Nat /\ LastBarTime(s) # None
    BY <2>2, <2>3 DEF Bar, None
  <2> QED BY <2>1, <2>3, <2>4
<1> QED BY <1>2, <1>3

LEMMA TrimTyped ==
  ASSUME TypeInv, NEW s \in Stores, NEW end \in Ends, Trim(s, end)
  PROVE  TypeInv'
<1> DEFINE t == LastBarTime(s)
           n == Len(sidecar[s])
<1>1. /\ t = None => sidecar[s] = <<>>
      /\ t # None => n \in 1..n /\ t = sidecar[s][n].time /\ t \in Nat
  BY LastBar
<1>2. /\ sidecar \in [Stores -> Seq(Bar)] /\ \A r \in Stores : InOrder(sidecar[r])
      /\ IsSource(source) /\ IsAscending(source) /\ source' = source
  BY DEF TypeInv, Trim
<1>3. sync' = [pc |-> "scan", store |-> s, resume |-> t, end |-> end,
               bars |-> <<>>, seen |-> 0, lost |-> FALSE]
  BY DEF Trim
<1>4. sidecar' = IF t = None THEN sidecar ELSE [sidecar EXCEPT ![s] = Front(@)]
  BY DEF Trim
<1>5. sync' \in SyncStates /\ InOrder(sync.bars)' /\ sync'.pc = "scan"
      /\ sync'.store = s /\ sync'.resume = t
  <2>1. t \in Nat \cup {None}
    BY <1>1
  <2> HIDE DEF t
  <2>2. <<>> \in Seq(Bar) /\ Len(<<>>) = 0 /\ 0 \in 0..MaxTicks
    BY SidecarAssumption
  <2> QED BY <1>3, <2>1, <2>2 DEF SyncStates, InOrder
<1> HIDE DEF t
<1>6. CASE t = None
  <2>1. sidecar' = sidecar
    BY <1>4, <1>6
  <2>2. Behind'
    BY <1>1, <1>5, <1>6, <2>1 DEF Behind
  <2> QED BY <1>2, <1>5, <2>1, <2>2 DEF TypeInv
<1>7. CASE t # None
  <2> DEFINE front == SubSeq(sidecar[s], 1, n - 1)
  <2>1. sidecar' = [sidecar EXCEPT ![s] = front]
    BY <1>4, <1>7 DEF Front
  <2>2. /\ front \in Seq(Bar) /\ InOrder(front) /\ Len(front) = n - 1
        /\ \A i \in 1..(n - 1) : front[i] = sidecar[s][i]
    <3>1. n - 1 \in 0..n
      BY <1>1, <1>7
    <3> QED BY <1>2, <3>1, PrefixInOrder
  <2> HIDE DEF front
  <2>3. /\ sidecar' \in [Stores -> Seq(Bar)] /\ sidecar'[s] = front
        /\ \A r \in Stores : InOrder(sidecar'[r])
    BY <1>2, <2>1, <2>2
  <2>4. \A k \in 1..Len(front) : front[k].time < t
    <3>1. \A k \in 1..(n - 1) : k \in 1..n /\ n \in 1..n /\ k < n
      BY <1>1, <1>7
    <3> QED BY <1>1, <1>2, <1>7, <2>2, <3>1 DEF InOrder
  <2>5. Behind'
    BY <1>5, <1>7, <2>3, <2>4 DEF Behind
  <2> QED BY <1>2, <1>5, <2>3, <2>5 DEF TypeInv
<1> QED BY <1>6, <1>7

LEMMA ScanTyped ==
  ASSUME TypeInv, Scan
  PROVE  TypeInv'
<1> DEFINE s == sync.store
<1>1. /\ IsSource(source) /\ IsAscending(source) /\ sync \in SyncStates
      /\ sidecar \in [Stores -> Seq(Bar)] /\ \A r \in Stores : InOrder(sidecar[r])
      /\ source' = source /\ sidecar' = sidecar /\ sync.pc = "scan" /\ Behind
  BY DEF TypeInv, Scan
<1>2. s \in Stores /\ s \in Series
  BY <1>1, StoreSeries DEF SyncStates
<1>3. PICK m \in 0..Len(source), n \in 0..Len(source) : ScanGives(m, n)
  BY ScanIs
<1> DEFINE all == After(s, source, m, n)
           P == {i \in DOMAIN all : sync.resume # None => all[i].time >= sync.resume}
           bars == RowsAt(all, P)
<1>4. all \in Seq(Bar) /\ InOrder(all)
  BY <1>1, <1>2, AfterBars, AfterType
<1>5. sync' = [sync EXCEPT !.pc = "write", !.seen = Len(source), !.bars = bars]
  BY <1>3 DEF ScanGives
<1> HIDE DEF all, s
<1>6. \A i \in P : sync.resume # None => all[i].time >= sync.resume
  OBVIOUS
<1> HIDE DEF P
<1>7. bars \in Seq(Bar) /\ InOrder(bars)
  BY <1>4, RowsAtType, RowsAtInOrder
<1>8. \A k \in 1..Len(bars) : sync.resume # None => bars[k].time >= sync.resume
  <2>1. \A k \in 1..Len(bars) : \E i \in 1..Len(all) : i \in P /\ bars[k] = all[i]
    BY <1>4, RowsAtElements
  <2> HIDE DEF bars
  <2> QED BY <1>6, <2>1
<1> HIDE DEF bars
<1>9. /\ sync' \in SyncStates /\ sync'.pc = "write" /\ sync'.bars = bars
      /\ sync'.store = sync.store /\ sync'.resume = sync.resume
  <2>1. Len(source) \in 0..MaxTicks
    BY <1>1, SidecarAssumption DEF IsSource
  <2> QED BY <1>1, <1>5, <1>7, <2>1 DEF SyncStates
<1>10. \A k \in 1..Len(bars) : sync.resume # None => sync.resume <= bars[k].time
  <2>1. sync.resume \in Nat \cup {None} /\ \A k \in 1..Len(bars) : bars[k].time \in Nat
    <3>1. \A k \in 1..Len(bars) : bars[k] \in Bar
      BY <1>7
    <3> QED BY <1>1, <3>1 DEF SyncStates, Bar
  <2> QED BY <1>8, <2>1
<1>11. Behind'
  BY <1>1, <1>9, <1>10 DEF Behind
<1> QED BY <1>1, <1>7, <1>9, <1>11 DEF TypeInv

\* Appending a first part of the bars keeps the file in order.
LEMMA WriteTyped ==
  ASSUME TypeInv, sync.pc = "write", NEW n \in 0..Len(sync.bars),
         WriteBars(SubSeq(sync.bars, 1, n))
  PROVE  sidecar' \in [Stores -> Seq(Bar)] /\ \A r \in Stores : InOrder(sidecar[r])'
<1> DEFINE s == sync.store
           stored == sidecar[s]
           b == SubSeq(sync.bars, 1, n)
<1>1. /\ sidecar \in [Stores -> Seq(Bar)] /\ \A r \in Stores : InOrder(sidecar[r])
      /\ sync.bars \in Seq(Bar) /\ InOrder(sync.bars) /\ s \in Stores
      /\ sync.resume \in Nat \cup {None} /\ Behind
  BY DEF TypeInv, SyncStates
<1>2. /\ b \in Seq(Bar) /\ InOrder(b) /\ Len(b) = n
      /\ \A i \in 1..n : b[i] = sync.bars[i]
  BY <1>1, PrefixInOrder
<1>3. stored \in Seq(Bar) /\ InOrder(stored)
  BY <1>1
<1>4. sidecar' = [sidecar EXCEPT ![s] = stored \o b]
  BY DEF WriteBars
<1> HIDE DEF b
<1>5. \A i \in 1..Len(stored) : \A j \in 1..Len(b) : stored[i].time < b[j].time
  <2>1. CASE sync.resume = None
    <3>1. stored = <<>>
      BY <1>1, <2>1 DEF Behind
    <3> QED BY <3>1
  <2>2. CASE sync.resume # None
    <3>1. /\ \A i \in 1..Len(stored) : stored[i].time < sync.resume
          /\ \A j \in 1..Len(sync.bars) : sync.resume <= sync.bars[j].time
      BY <1>1, <2>2 DEF Behind
    <3>2. \A j \in 1..Len(b) : j \in 1..Len(sync.bars)
      BY <1>1, <1>2
    <3>3. \A i \in 1..Len(stored) : stored[i].time \in Nat
      <4>1. \A i \in 1..Len(stored) : stored[i] \in Bar
        BY <1>3
      <4> QED BY <4>1 DEF Bar
    <3>4. \A j \in 1..Len(b) : b[j].time \in Nat
      <4>1. \A j \in 1..Len(b) : b[j] \in Bar
        BY <1>2
      <4> QED BY <4>1 DEF Bar
    <3>5. sync.resume \in Nat
      BY <1>1, <2>2
    <3> HIDE DEF stored
    <3>6. ASSUME NEW i \in 1..Len(stored), NEW j \in 1..Len(b)
          PROVE  stored[i].time < b[j].time
      <4>1. b[j] = sync.bars[j] /\ j \in 1..Len(sync.bars)
        BY <1>2, <3>2
      <4>2. stored[i].time < sync.resume /\ sync.resume <= b[j].time
        BY <3>1, <4>1
      <4> QED BY <3>3, <3>4, <3>5, <4>2
    <3> QED BY <3>6
  <2> QED BY <2>1, <2>2
<1> HIDE DEF stored
<1>6. stored \o b \in Seq(Bar) /\ InOrder(stored \o b)
  BY <1>2, <1>3, <1>5, ConcatInOrder
<1> DEFINE more == stored \o b
<1> HIDE DEF more, s
<1>7. sidecar' \in [Stores -> Seq(Bar)] /\ \A r \in Stores : InOrder(sidecar'[r])
  BY <1>1, <1>4, <1>6 DEF more
<1> QED BY <1>7

\* Without a refresh there is nothing to be behind.
LEMMA EndedTyped ==
  ASSUME TypeInv, source' = source, sync'.pc \notin {"scan", "write"},
         sync' \in SyncStates, InOrder(sync'.bars),
         sidecar' \in [Stores -> Seq(Bar)], \A r \in Stores : InOrder(sidecar[r])'
  PROVE  TypeInv'
<1>1. Behind'
  BY DEF Behind
<1> QED BY <1>1 DEF TypeInv

LEMMA NextTyped == TypeInv /\ [Next]_vars => TypeInv'
<1> SUFFICES ASSUME TypeInv, [Next]_vars PROVE TypeInv'
  OBVIOUS
<1>0. /\ IsSource(source) /\ IsAscending(source) /\ sync \in SyncStates
      /\ sidecar \in [Stores -> Seq(Bar)] /\ \A r \in Stores : InOrder(sidecar[r])
      /\ InOrder(sync.bars) /\ sync.bars \in Seq(Bar) /\ sync.store \in Stores /\ Behind
  BY DEF TypeInv, SyncStates
<1>1. ASSUME NEW s \in Stores, Unsync(s) PROVE TypeInv'
  <2>1. /\ source' = source /\ sidecar' = [sidecar EXCEPT ![s] = <<>>]
        /\ sync' = [sync EXCEPT !.lost = @ \/ (sync.pc # "idle" /\ sync.store = s)]
    BY <1>1 DEF Unsync
  <2>2. /\ sidecar' \in [Stores -> Seq(Bar)] /\ sidecar'[s] = <<>>
        /\ \A r \in Stores : InOrder(sidecar'[r])
        /\ \A r \in Stores : r # s => sidecar'[r] = sidecar[r]
    <3>1. <<>> \in Seq(Bar) /\ InOrder(<<>>)
      BY DEF InOrder
    <3> QED BY <1>0, <2>1, <3>1
  <2>3. /\ sync' \in SyncStates /\ sync'.pc = sync.pc /\ sync'.bars = sync.bars
        /\ sync'.store = sync.store /\ sync'.resume = sync.resume
    <3> DEFINE b == sync.lost \/ (sync.pc # "idle" /\ sync.store = s)
    <3>1. sync' = [sync EXCEPT !.lost = b] /\ b \in BOOLEAN
      BY <2>1
    <3> HIDE DEF b
    <3> QED BY <1>0, <3>1 DEF SyncStates
  <2>4. Behind'
    <3>1. CASE sync.store = s
      BY <1>0, <2>2, <2>3, <3>1 DEF Behind
    <3>2. CASE sync.store # s
      BY <1>0, <2>2, <2>3, <3>2 DEF Behind
    <3> QED BY <3>1, <3>2
  <2> QED BY <1>0, <2>1, <2>2, <2>3, <2>4 DEF TypeInv
<1>2. ASSUME NEW s \in Stores, NEW end \in Ends, Trim(s, end) PROVE TypeInv'
  BY <1>2, TrimTyped
<1>3. CASE Scan
  BY <1>3, ScanTyped
<1>4. CASE Write
  <2>1. CASE sync.lost /\ sync.bars # <<>>
    <3>1. source' = source /\ sidecar' = sidecar /\ sync' = NoSync
      BY <1>4, <2>1 DEF Write
    <3> QED BY <1>0, <3>1, NoSyncTyped, EndedTyped
  <2>2. CASE ~(sync.lost /\ sync.bars # <<>>)
    <3>1. /\ source' = source /\ sync.pc = "write"
          /\ sync' = [sync EXCEPT !.pc = "report"] /\ WriteBars(sync.bars)
      BY <1>4, <2>2 DEF Write
    <3>2. sync' \in SyncStates /\ sync'.pc = "report" /\ sync'.bars = sync.bars
      BY <1>0, <3>1 DEF SyncStates
    <3>3. sidecar' \in [Stores -> Seq(Bar)] /\ \A r \in Stores : InOrder(sidecar[r])'
      <4>1. SubSeq(sync.bars, 1, Len(sync.bars)) = sync.bars
        BY <1>0, SubSeqFull
      <4>2. Len(sync.bars) \in 0..Len(sync.bars)
        BY <1>0
      <4>3. WriteBars(SubSeq(sync.bars, 1, Len(sync.bars)))
        BY <3>1, <4>1
      <4> QED BY <3>1, <4>2, <4>3, WriteTyped
    <3> QED BY <1>0, <3>1, <3>2, <3>3, EndedTyped
  <2> QED BY <2>1, <2>2
<1>5. CASE Report
  <2>1. source' = source /\ sidecar' = sidecar /\ sync' = NoSync
    BY <1>5 DEF Report
  <2> QED BY <1>0, <2>1, NoSyncTyped, EndedTyped
<1>6. CASE Abandon
  <2>1. source' = source /\ sync' = NoSync
    BY <1>6 DEF Abandon
  <2>2. sidecar' \in [Stores -> Seq(Bar)] /\ \A r \in Stores : InOrder(sidecar[r])'
    <3>1. CASE sidecar' = sidecar
      BY <1>0, <3>1
    <3>2. CASE sync.pc = "write" /\ \E n \in 0..Len(sync.bars) : WriteBars(SubSeq(sync.bars, 1, n))
      BY <3>2, WriteTyped
    <3> QED BY <1>6, <3>1, <3>2 DEF Abandon
  <2> QED BY <2>1, <2>2, NoSyncTyped, EndedTyped
<1>7. ASSUME NEW t \in Times, Download(t) PROVE TypeInv'
  <2>1. /\ Len(source) < MaxTicks /\ source' = Append(source, t)
        /\ sidecar' = sidecar /\ sync' = sync
        /\ source # <<>> => t >= source[Len(source)]
    BY <1>7 DEF Download, Last
  <2>2. IsSource(source') /\ IsAscending(source')
    BY <1>0, <2>1, DownloadSource
  <2>3. Behind'
    BY <1>0, <2>1 DEF Behind
  <2> QED BY <1>0, <2>1, <2>2, <2>3 DEF TypeInv
<1>8. CASE UNCHANGED vars
  BY <1>8 DEF vars, TypeInv, IsSource, IsAscending, InOrder, Behind
<1> QED BY <1>1, <1>2, <1>3, <1>4, <1>5, <1>6, <1>7, <1>8 DEF Next

\* Whatever the widths and the sessions, every sidecar is an FWOB file in key
\* order at every moment: a refresh never appends a bar at or before one that
\* is there.
THEOREM TypeCorrect == Spec => []TypeOK
<1>1. Spec => []TypeInv
  BY InitTyped, NextTyped, PTL DEF Spec
<1>2. TypeInv => TypeOK
  <2> SUFFICES ASSUME TypeInv PROVE TypeOK
    OBVIOUS
  <2>1. /\ IsSource(source) /\ sync \in SyncStates /\ InOrder(sync.bars)
        /\ sidecar \in [Stores -> Seq(Bar)] /\ \A s \in Stores : InOrder(sidecar[s])
    BY DEF TypeInv
  <2>2. \A f \in Seq(Bar) : InOrder(f) => IsBarFile(f)
    BY DEF InOrder, IsBarFile
  <2>3. \A s \in Stores : IsBarFile(sidecar[s])
    BY <2>1, <2>2
  <2>4. IsBarFile(sync.bars)
    BY <2>1, <2>2 DEF SyncStates
  <2> QED BY <2>1, <2>3, <2>4 DEF TypeOK, IsSource, SyncStates
<1> QED BY <1>1, <1>2, PTL

-----------------------------------------------------------------------------
(* The inductive invariant of the refresh.                                 *)

LEMMA CutUnique ==
  ASSUME NEW ticks, IsSource(ticks), NEW t, NEW m, NEW n, IsCut(ticks, t, m), IsCut(ticks, t, n)
  PROVE  m = n
<1>1. /\ Len(ticks) \in Nat /\ m \in 0..Len(ticks) /\ n \in 0..Len(ticks)
      /\ \A i \in 1..Len(ticks) : i <= m <=> i <= n
  BY TimesType DEF IsCut
<1>2. ~(m < n)
  <2> SUFFICES ASSUME m < n PROVE FALSE
    OBVIOUS
  <2>1. n \in 1..Len(ticks) /\ n <= n
    BY <1>1
  <2> QED BY <1>1, <2>1
<1>3. ~(n < m)
  <2> SUFFICES ASSUME n < m PROVE FALSE
    OBVIOUS
  <2>1. m \in 1..Len(ticks) /\ m <= m
    BY <1>1
  <2> QED BY <1>1, <2>1
<1> QED BY <1>1, <1>2, <1>3

LEMMA FromStart ==
  ASSUME NEW x \in Series, NEW ticks, IsSource(ticks), NEW n \in 0..Len(ticks)
  PROVE  Upto(x, ticks, n) = Upto(x, ticks, 0) \o After(x, ticks, 0, n)
<1>1. 0 \in 0..Len(ticks) /\ n \in 0..Len(ticks)
  BY TimesType
<1>2. \A i \in (0 + 1)..Len(ticks) :
         Belongs(x.session, ticks[i]) => ~Joins(x.width, Upto(x, ticks, 0), Tick(ticks[i], i))
  BY UptoNone DEF Joins
<1>3. \A k \in 0..Len(ticks) : Upto(x, ticks, k) = Upto(x, ticks, 0) \o After(x, ticks, 0, k)
  BY <1>1, <1>2, Split
<1> QED BY <1>1, <1>3

\* The bars continue the series after m ticks; up to its end if n is the last.
Continued(x, ticks, m, n, bars) ==
    \E k \in 0..Len(ticks) : /\ Upto(x, ticks, m) \o bars = Upto(x, ticks, k)
                             /\ n = Len(ticks) => k = n

\* Behind a trimmed file, the bars of a scan make up the series after the ticks
\* that were scanned; no bar of theirs is dropped for being too early.
LEMMA ScanLaw ==
  ASSUME NEW x \in Series, Even(x.width, x.session),
         NEW ticks, IsSource(ticks), IsAscending(ticks),
         NEW t \in Nat \cup {None}, NEW m \in 0..Len(ticks), NEW n \in 0..Len(ticks),
         IF t = None THEN m = 0 ELSE IsBucket(x, ticks, t) /\ IsCut(ticks, t, m),
         NEW bars,
         bars = RowsAt(After(x, ticks, m, n),
                       {i \in DOMAIN After(x, ticks, m, n) :
                            t # None => After(x, ticks, m, n)[i].time >= t})
  PROVE  Continued(x, ticks, m, n, bars)
<1> USE DEF Continued
<1> DEFINE all == After(x, ticks, m, n)
           P == {i \in DOMAIN all : t # None => all[i].time >= t}
           base == Upto(x, ticks, m)
<1>1. /\ Len(ticks) \in Nat /\ m \in Nat /\ n \in Nat /\ m <= Len(ticks)
      /\ all \in Seq(Row) /\ base \in Seq(Row)
  BY TimesType, AfterType, UptoType
<1>2. CASE t = None
  <2>1. 1..Len(all) \subseteq P
    BY <1>1, <1>2
  <2>2. bars = all
    <3> HIDE DEF P, all
    <3> QED BY <1>1, <2>1, RowsAtAll DEF P, all
  <2>3. Upto(x, ticks, n) = base \o all
    BY <1>2, FromStart
  <2> QED BY <2>2, <2>3
<1>3. CASE t # None /\ m <= n
  <2>1. n \in m..Len(ticks)
    BY <1>1, <1>3
  <2>2. Upto(x, ticks, n) = base \o all /\ \A k \in 1..Len(all) : t <= all[k].time
    BY <1>3, <2>1, Resumed
  <2>3. 1..Len(all) \subseteq P
    <3>1. \A k \in 1..Len(all) : k \in DOMAIN all /\ all[k].time \in Int
      <4>1. DOMAIN all = 1..Len(all) /\ \A k \in 1..Len(all) : all[k] \in Row
        <5> HIDE DEF all
        <5> QED BY <1>1
      <4> QED BY <4>1 DEF Row, RowOf
    <3>2. t \in Nat
      BY <1>3
    <3> HIDE DEF all
    <3>3. \A k \in 1..Len(all) : all[k].time >= t
      BY <2>2, <3>1, <3>2
    <3> QED BY <3>1, <3>3
  <2>4. bars = all
    <3> HIDE DEF P, all
    <3> QED BY <1>1, <2>3, RowsAtAll DEF P, all
  <2> QED BY <2>2, <2>4
<1>4. CASE t # None /\ ~(m <= n)
  <2>1. all = <<>>
    BY <1>1, <1>4, AfterNone
  <2>2. bars = <<>>
    <3>1. bars = RowsAt(all, P)
      OBVIOUS
    <3> HIDE DEF P, all
    <3> QED BY <2>1, <3>1, RowsAtEmpty
  <2>3. base \o <<>> = base
    <3> HIDE DEF base
    <3> QED BY <1>1, ConcatEmptySeq
  <2>4. n # Len(ticks)
    BY <1>1, <1>4
  <2> QED BY <2>2, <2>3, <2>4
<1> QED BY <1>2, <1>3, <1>4

\* A tick more does not change the series after the earlier ones.
LEMMA UptoAppend ==
  ASSUME NEW x, NEW ticks, IsSource(ticks), NEW t \in Times, NEW m \in 0..Len(ticks)
  PROVE  Upto(x, Append(ticks, t), m) = Upto(x, ticks, m)
<1> DEFINE more == Append(ticks, t)
<1>1. /\ ticks \in Seq(Times) /\ Len(ticks) \in Nat /\ m \in Nat
      /\ \A i \in 1..m : more[i] = ticks[i] /\ ticks[i] \in Times
  <2>1. ticks \in Seq(Times) /\ Len(ticks) \in Nat
    BY TimesType DEF IsSource
  <2>2. \A i \in 1..Len(ticks) : more[i] = ticks[i]
    BY <2>1, AppendProperties
  <2>3. \A i \in 1..m : i \in 1..Len(ticks)
    BY <2>1
  <2> QED BY <2>1, <2>2, <2>3
<1> DEFINE p == SubSeq(more, 1, m)
           q == SubSeq(ticks, 1, m)
<1> HIDE DEF more
<1>2. p \in Seq(Times) /\ Len(p) = m /\ \A i \in 1..m : p[i] = ticks[i]
  BY <1>1, SubSeqProperties
<1>3. q \in Seq(Times) /\ Len(q) = m /\ \A i \in 1..m : q[i] = ticks[i]
  BY <1>1, SubSeqProperties
<1> HIDE DEF p, q
<1>4. p = q
  BY <1>2, <1>3, SeqEqual
<1> QED BY <1>4 DEF p, q, more, Upto

LEMMA EmptyStored ==
  ASSUME TypeInv, NEW s \in Stores, NEW f, f = <<>>
  PROVE  \E m \in 0..Len(source) : \E n \in 0..Len(Upto(s, source, m)) :
            f = SubSeq(Upto(s, source, m), 1, n)
<1>1. Upto(s, source, 0) = <<>>
  BY StoreSeries, UptoNone
<1>2. 0 \in 0..Len(source) /\ 0 \in 0..Len(<<>>)
  BY TimesType DEF TypeInv
<1>3. SubSeq(<<>>, 1, 0) = <<>>
  BY SubSeqEmpty
<1> QED BY <1>1, <1>2, <1>3

LEMMA InitInv == Init => Inv
<1> SUFFICES ASSUME Init PROVE Inv
  OBVIOUS
<1>1. TypeInv
  BY InitTyped
<1>2. \A s \in Stores : IsStored(s)
  <2>1. \A s \in Stores : sidecar[s] = <<>>
    BY DEF Init
  <2> QED BY <1>1, <2>1, EmptyStored DEF IsStored
<1>3. sync.pc = "idle" /\ sync.seen = 0 /\ 0 <= Len(source)
  BY NoSyncTyped, <1>1, TimesType DEF Init, TypeInv
<1> QED BY <1>2, <1>3 DEF Inv, IsTrimmed, IsScanned, IsWritten, IsLost

\* The refresh is over, and every file holds a first part of its series.
LEMMA IdleInv ==
  ASSUME TypeInv, sync' = NoSync, source' = source, \A s \in Stores : IsStored(s)'
  PROVE  Inv'
<1>1. sync'.pc = "idle" /\ sync'.seen = 0 /\ 0 <= Len(source')
  BY NoSyncTyped, TimesType DEF TypeInv
<1> QED BY <1>1 DEF Inv, IsTrimmed, IsScanned, IsWritten, IsLost

LEMMA SameStored ==
  ASSUME NEW s, IsStored(s), source' = source, sidecar'[s] = sidecar[s]
  PROVE  IsStored(s)'
  BY DEF IsStored

LEMMA PrefixOfPrefix ==
  ASSUME NEW S, NEW a \in Seq(S), NEW n \in 0..Len(a), NEW m \in 0..n
  PROVE  SubSeq(SubSeq(a, 1, n), 1, m) = SubSeq(a, 1, m)
<1> DEFINE b == SubSeq(a, 1, n)
           c == SubSeq(a, 1, m)
           d == SubSeq(b, 1, m)
<1>1. /\ Len(a) \in Nat /\ n \in Nat /\ m \in Nat
      /\ \A i \in 1..n : a[i] \in S
      /\ \A i \in 1..m : i \in 1..n
  OBVIOUS
<1>2. b \in Seq(S) /\ Len(b) = n /\ \A i \in 1..n : b[i] = a[i]
  BY <1>1, SubSeqProperties
<1>3. c \in Seq(S) /\ Len(c) = m /\ \A i \in 1..m : c[i] = a[i]
  BY <1>1, SubSeqProperties
<1> HIDE DEF b, c
<1>4. d \in Seq(S) /\ Len(d) = m /\ \A i \in 1..m : d[i] = b[i]
  BY <1>1, <1>2, SubSeqProperties
<1> HIDE DEF d
<1>5. c = d
  BY <1>1, <1>2, <1>3, <1>4, SeqEqual
<1> QED BY <1>5 DEF b, c, d

LEMMA TrimInv ==
  ASSUME EvenStores, TypeInv, Inv, NEW s \in Stores, NEW end \in Ends, Trim(s, end)
  PROVE  Inv'
<1> DEFINE t == LastBarTime(s)
           n == Len(sidecar[s])
<1>1. /\ t = None => sidecar[s] = <<>>
      /\ t # None => n \in 1..n /\ t = sidecar[s][n].time /\ t \in Nat
  BY LastBar
<1>2. /\ IsSource(source) /\ IsAscending(source) /\ source' = source
      /\ sidecar \in [Stores -> Seq(Bar)] /\ s \in Series /\ Even(s.width, s.session)
  BY StoreSeries DEF TypeInv, Trim, EvenStores
<1>3. /\ sync'.pc = "scan" /\ sync'.store = s /\ sync'.resume = t /\ ~sync'.lost
      /\ sync'.seen = 0
  BY DEF Trim
<1>4. sidecar' = IF t = None THEN sidecar ELSE [sidecar EXCEPT ![s] = Front(@)]
  BY DEF Trim
<1>5. \A r \in Stores : IsStored(r)
  BY DEF Inv
<1> HIDE DEF t
<1>6. CASE t = None
  <2>1. sidecar' = sidecar
    BY <1>4, <1>6
  <2>2. \A r \in Stores : IsStored(r)'
    BY <1>2, <1>5, <2>1, SameStored
  <2>3. IsTrimmed'
    <3>1. Upto(s, source, 0) = <<>> /\ 0 \in 0..Len(source)
      BY <1>2, UptoNone, TimesType
    <3> QED BY <1>1, <1>2, <1>3, <1>6, <2>1, <3>1 DEF IsTrimmed
  <2> QED BY <1>2, <1>3, <2>2, <2>3, TimesType DEF Inv, IsScanned, IsWritten, IsLost
<1>7. CASE t # None
  <2> DEFINE front == SubSeq(sidecar[s], 1, n - 1)
  <2>1. sidecar' = [sidecar EXCEPT ![s] = front]
    BY <1>4, <1>7 DEF Front
  <2>2. PICK m \in 0..Len(source) : \E k \in 0..Len(Upto(s, source, m)) :
           sidecar[s] = SubSeq(Upto(s, source, m), 1, k)
    BY <1>5 DEF IsStored
  <2> DEFINE full == Upto(s, source, m)
  <2>3. full \in Seq(Row) /\ Len(full) \in Nat
    BY <1>2, UptoType
  <2>4. /\ sidecar[s] = SubSeq(full, 1, n) /\ n \in 1..Len(full)
        /\ sidecar[s][n] = full[n]
        /\ front = SubSeq(full, 1, n - 1)
    <3>1. PICK k \in 0..Len(full) : sidecar[s] = SubSeq(full, 1, k)
      BY <2>2
    <3> HIDE DEF full
    <3>2. /\ Len(SubSeq(full, 1, k)) = k
          /\ \A i \in 1..k : SubSeq(full, 1, k)[i] = full[i]
          /\ SubSeq(full, 1, k) \in Seq(Row)
      <4>1. k \in Nat /\ \A i \in 1..k : full[i] \in Row
        BY <2>3
      <4> QED BY <4>1, SubSeqProperties
    <3>3. k = n /\ n \in 1..n
      BY <1>1, <1>7, <3>1, <3>2
    <3>4. SubSeq(SubSeq(full, 1, n), 1, n - 1) = SubSeq(full, 1, n - 1)
      BY <2>3, <3>3, PrefixOfPrefix
    <3> QED BY <2>3, <3>1, <3>2, <3>3, <3>4
  <2> HIDE DEF front
  <2>5. t = full[n].time /\ t \in Int
    BY <1>1, <1>7, <2>4
  <2>6. PICK c : IsCut(source, t, c)
    BY <1>2, <2>5, CutExists
  <2>7. IsBucket(s, source, t) /\ front = Upto(s, source, c)
    BY <1>2, <2>4, <2>5, <2>6, Trimmed
  <2>8. sidecar'[s] = front /\ \A r \in Stores : r # s => sidecar'[r] = sidecar[r]
    BY <1>2, <2>1
  <2>9. \A r \in Stores : IsStored(r)'
    <3>1. IsStored(s)'
      <4>1. n - 1 \in 0..Len(full)
        BY <2>3, <2>4
      <4> QED BY <1>2, <2>4, <2>8, <4>1 DEF IsStored
    <3> QED BY <1>2, <1>5, <2>8, <3>1, SameStored
  <2>10. IsTrimmed'
    <3>1. c \in 0..Len(source)
      BY <2>6 DEF IsCut
    <3> QED BY <1>2, <1>3, <1>7, <2>6, <2>7, <2>8, <3>1 DEF IsTrimmed
  <2> QED BY <1>2, <1>3, <2>9, <2>10, TimesType DEF Inv, IsScanned, IsWritten, IsLost
<1> QED BY <1>6, <1>7

LEMMA ScanInv ==
  ASSUME EvenStores, TypeInv, Inv, Scan
  PROVE  Inv'
<1> DEFINE x == sync.store
           t == sync.resume
<1>1. /\ IsSource(source) /\ IsAscending(source) /\ source' = source /\ sidecar' = sidecar
      /\ sync \in SyncStates /\ sync.pc = "scan"
      /\ x \in Series /\ Even(x.width, x.session) /\ t \in Nat \cup {None}
  <2>1. sync.store \in Stores /\ sync.resume \in Nat \cup {None}
    BY DEF TypeInv, SyncStates
  <2> QED BY <2>1, StoreSeries DEF TypeInv, Scan, EvenStores
<1>2. PICK m \in 0..Len(source), n \in 0..Len(source) : ScanGives(m, n)
  BY ScanIs
<1>21. /\ IF t = None THEN m = 0 ELSE IsCut(source, t, m)
       /\ sync.end = None => n = Len(source)
  BY <1>2 DEF ScanGives
<1> DEFINE all == After(x, source, m, n)
           bars == RowsAt(all, {i \in DOMAIN all : t # None => all[i].time >= t})
<1>3. /\ sync'.pc = "write" /\ sync'.store = x /\ sync'.resume = t /\ sync'.end = sync.end
      /\ sync'.seen = Len(source) /\ sync'.lost = sync.lost /\ sync'.bars = bars
  <2>1. sync' = [sync EXCEPT !.pc = "write", !.seen = Len(source), !.bars = bars]
    BY <1>2 DEF ScanGives
  <2> HIDE DEF bars
  <2> QED BY <1>1, <2>1 DEF SyncStates
<1>4. bars = RowsAt(After(x, source, m, n), {i \in DOMAIN After(x, source, m, n) :
                      t # None => After(x, source, m, n)[i].time >= t})
  OBVIOUS
<1> HIDE DEF bars, all
<1>5. \A r \in Stores : IsStored(r)'
  BY <1>1, SameStored DEF Inv
<1>6. ASSUME ~sync.lost
      PROVE  /\ sidecar[x] = Upto(x, source, m)
             /\ IF t = None THEN m = 0 ELSE IsBucket(x, source, t) /\ IsCut(source, t, m)
  <2>1. PICK c \in 0..Len(source) :
           /\ sidecar[sync.store] = Upto(sync.store, source, c)
           /\ IF sync.resume = None THEN c = 0
              ELSE IsBucket(sync.store, source, sync.resume) /\ IsCut(source, sync.resume, c)
    BY <1>1, <1>6 DEF Inv, IsTrimmed
  <2>2. c = m
    BY <1>1, <1>21, <2>1, CutUnique
  <2> QED BY <1>21, <2>1, <2>2
<1>7. IsTrimmed'
  <2> SUFFICES ASSUME ~sync.lost
      PROVE  \E c \in 0..Len(source) :
                /\ sidecar[x] = Upto(x, source, c)
                /\ IF t = None THEN c = 0 ELSE IsBucket(x, source, t) /\ IsCut(source, t, c)
    BY <1>1, <1>3 DEF IsTrimmed
  <2> QED BY <1>21, <1>6
<1>8. IsScanned'
  <2> SUFFICES ASSUME ~sync.lost
      PROVE  \E k \in 0..Len(source) :
                /\ sidecar[x] \o bars = Upto(x, source, k)
                /\ sync.end = None => k = Len(source)
    BY <1>1, <1>3 DEF IsScanned
  <2>1. Continued(x, source, m, n, bars)
    <3>1. IF t = None THEN m = 0 ELSE IsBucket(x, source, t) /\ IsCut(source, t, m)
      BY <1>6
    <3> HIDE DEF x, t
    <3> QED BY <1>1, <1>4, <3>1, ScanLaw
  <2>2. PICK k \in 0..Len(source) : /\ Upto(x, source, m) \o bars = Upto(x, source, k)
                                    /\ n = Len(source) => k = n
    BY <2>1 DEF Continued
  <2> QED BY <1>21, <1>6, <2>2
<1>9. IsLost'
  BY <1>1, <1>3 DEF Inv, IsLost
<1> QED BY <1>1, <1>3, <1>5, <1>7, <1>8, <1>9, TimesType DEF Inv, IsWritten

LEMMA ConcatPrefix ==
  ASSUME NEW S, NEW a \in Seq(S), NEW b \in Seq(S), NEW n \in 0..Len(b)
  PROVE  /\ Len(a) + n \in 0..Len(a \o b)
         /\ a \o SubSeq(b, 1, n) = SubSeq(a \o b, 1, Len(a) + n)
<1> DEFINE whole == a \o b
           part == SubSeq(b, 1, n)
           c == a \o part
           d == SubSeq(whole, 1, Len(a) + n)
<1>1. /\ Len(a) \in Nat /\ Len(b) \in Nat /\ n \in Nat /\ n <= Len(b)
      /\ \A i \in 1..n : b[i] \in S /\ i \in 1..Len(b)
  OBVIOUS
<1>2. /\ whole \in Seq(S) /\ Len(whole) = Len(a) + Len(b)
      /\ \A i \in 1..Len(whole) : whole[i] = IF i <= Len(a) THEN a[i] ELSE b[i - Len(a)]
  BY ConcatProperties
<1>31. part \in Seq(S)
  BY <1>1, SubSeqProperties
<1>3. Len(part) = n /\ \A i \in 1..n : part[i] = b[i]
  BY <1>1, SubSeqProperties
<1> HIDE DEF whole, part
<1>4. /\ c \in Seq(S) /\ Len(c) = Len(a) + n
      /\ \A i \in 1..Len(c) : c[i] = IF i <= Len(a) THEN a[i] ELSE part[i - Len(a)]
  <2>1. /\ c \in Seq(S) /\ Len(c) = Len(a) + Len(part)
        /\ \A i \in 1..(Len(a) + Len(part)) : c[i] = IF i <= Len(a) THEN a[i] ELSE part[i - Len(a)]
    BY <1>31, ConcatProperties
  <2> HIDE DEF c
  <2> QED BY <1>3, <2>1
<1> HIDE DEF c
<1>5. /\ d \in Seq(S) /\ Len(d) = Len(a) + n
      /\ \A i \in 1..(Len(a) + n) : d[i] = whole[i]
  <2>1. Len(a) + n \in 0..Len(whole)
    BY <1>1, <1>2
  <2>2. \A i \in 1..(Len(a) + n) : whole[i] \in S
    BY <1>1, <1>2
  <2> QED BY <1>1, <1>2, <2>1, <2>2, SubSeqProperties
<1> HIDE DEF d
<1>6. \A i \in 1..(Len(a) + n) : c[i] = d[i]
  <2> SUFFICES ASSUME NEW i \in 1..(Len(a) + n) PROVE c[i] = d[i]
    OBVIOUS
  <2>1. i \in 1..Len(whole) /\ i \in 1..Len(c)
    BY <1>1, <1>2, <1>4
  <2>2. CASE i <= Len(a)
    BY <1>2, <1>4, <1>5, <2>1, <2>2
  <2>3. CASE ~(i <= Len(a))
    <3>1. i - Len(a) \in 1..n
      BY <1>1, <2>3
    <3> QED BY <1>2, <1>3, <1>4, <1>5, <2>1, <2>3, <3>1
  <2> QED BY <2>2, <2>3
<1>7. c = d
  BY <1>4, <1>5, <1>6, SeqEqual
<1>8. Len(a) + n \in 0..Len(whole)
  BY <1>1, <1>2
<1> QED BY <1>7, <1>8 DEF c, d, part, whole

\* A first part of the scanned bars behind the trimmed file is a first part of
\* the series.
LEMMA PartWritten ==
  ASSUME TypeInv, Inv, sync.pc = "write", ~sync.lost, source' = source,
         NEW n \in 0..Len(sync.bars), WriteBars(SubSeq(sync.bars, 1, n))
  PROVE  \A r \in Stores : IsStored(r)'
<1> DEFINE x == sync.store
           a == sidecar[x]
           b == sync.bars
<1>1. /\ x \in Stores /\ sidecar \in [Stores -> Seq(Bar)] /\ a \in Seq(Bar) /\ b \in Seq(Bar)
      /\ sync.seen \in Nat /\ sync.seen <= Len(source)
  BY SidecarAssumption DEF TypeInv, SyncStates, Inv
<1>2. PICK m \in 0..sync.seen : sidecar[sync.store] \o sync.bars = Upto(sync.store, source, m)
  BY DEF Inv, IsScanned
<1>3. sidecar' = [sidecar EXCEPT ![x] = @ \o SubSeq(b, 1, n)]
  BY DEF WriteBars
<1> DEFINE c == a \o SubSeq(b, 1, n)
<1>4. sidecar' = [sidecar EXCEPT ![x] = c]
  BY <1>3
<1>5. /\ Len(a) + n \in 0..Len(a \o b)
      /\ c = SubSeq(a \o b, 1, Len(a) + n)
  <2> HIDE DEF a, b
  <2> QED BY <1>1, ConcatPrefix DEF b
<1> HIDE DEF c
<1>6. sidecar'[x] = c /\ \A r \in Stores : r # x => sidecar'[r] = sidecar[r]
  BY <1>1, <1>4
<1>7. /\ Len(a) + n \in 0..Len(Upto(x, source, m))
      /\ c = SubSeq(Upto(x, source, m), 1, Len(a) + n)
  <2>1. a \o b = Upto(x, source, m)
    BY <1>2
  <2> QED BY <1>5, <2>1
<1>8. m \in 0..Len(source)
  BY <1>1, TimesType DEF TypeInv
<1> HIDE DEF x, a, b
<1>9. ASSUME NEW r \in Stores, r = x PROVE IsStored(r)'
  <2>1. \E k \in 0..Len(source) : \E j \in 0..Len(Upto(r, source, k)) :
           sidecar'[r] = SubSeq(Upto(r, source, k), 1, j)
    BY <1>6, <1>7, <1>8, <1>9
  <2> QED BY <2>1 DEF IsStored
<1>10. \A r \in Stores : r # x => IsStored(r)'
  BY <1>6, SameStored DEF Inv
<1> QED BY <1>9, <1>10

LEMMA WriteInv ==
  ASSUME TypeInv, Inv, Write
  PROVE  Inv'
<1>1. source' = source /\ sync.pc = "write"
  BY DEF Write
<1>2. CASE sync.lost /\ sync.bars # <<>>
  <2>1. sync' = NoSync /\ sidecar' = sidecar
    BY <1>2 DEF Write
  <2>2. \A r \in Stores : IsStored(r)'
    BY <1>1, <2>1, SameStored DEF Inv
  <2> QED BY <1>1, <2>1, <2>2, IdleInv
<1>3. CASE ~(sync.lost /\ sync.bars # <<>>)
  <2> DEFINE x == sync.store
             a == sidecar[x]
             b == sync.bars
  <2>1. sync' = [sync EXCEPT !.pc = "report"] /\ WriteBars(sync.bars)
    BY <1>3 DEF Write
  <2>2. /\ x \in Stores /\ sidecar \in [Stores -> Seq(Bar)] /\ a \in Seq(Bar) /\ b \in Seq(Bar)
        /\ sync \in SyncStates
    BY DEF TypeInv, SyncStates
  <2>3. /\ sync'.pc = "report" /\ sync'.store = x /\ sync'.lost = sync.lost
        /\ sync'.end = sync.end /\ sync'.seen = sync.seen
    BY <2>1, <2>2 DEF SyncStates
  <2>4. SubSeq(b, 1, Len(b)) = b /\ Len(b) \in 0..Len(b)
    BY <2>2, SubSeqFull
  <2>5. WriteBars(SubSeq(sync.bars, 1, Len(sync.bars)))
    BY <2>1, <2>4
  <2>6. \A r \in Stores : IsStored(r)'
    <3>1. CASE ~sync.lost
      BY <1>1, <2>4, <2>5, <3>1, PartWritten
    <3>2. CASE sync.lost
      <4>1. a \o b = a
        <5>1. b = <<>>
          BY <1>3, <3>2
        <5> HIDE DEF a, b
        <5> QED BY <2>2, <5>1, ConcatEmptySeq
      <4>2. sidecar' = [sidecar EXCEPT ![x] = a]
        BY <2>1, <4>1 DEF WriteBars
      <4>3. \A r \in Stores : sidecar'[r] = sidecar[r]
        BY <2>2, <4>2
      <4> QED BY <1>1, <4>3, SameStored DEF Inv
    <3> QED BY <3>1, <3>2
  <2>7. IsWritten'
    <3> SUFFICES ASSUME ~sync.lost, sync.end = None
        PROVE  sidecar'[x] = Upto(x, source, sync.seen)
      BY <1>1, <2>3 DEF IsWritten
    <3>1. PICK m \in 0..sync.seen :
             /\ sidecar[sync.store] \o sync.bars = Upto(sync.store, source, m)
             /\ sync.end = None => m = sync.seen
      BY <1>1 DEF Inv, IsScanned
    <3>2. sidecar'[x] = a \o b
      BY <2>1, <2>2 DEF WriteBars
    <3>3. m = sync.seen /\ a \o b = Upto(x, source, m)
      BY <3>1
    <3> QED BY <3>2, <3>3
  <2>8. sync'.seen <= Len(source')
    BY <1>1, <2>3 DEF Inv
  <2> QED BY <2>3, <2>6, <2>7, <2>8 DEF Inv, IsTrimmed, IsScanned, IsLost
<1> QED BY <1>2, <1>3

LEMMA AbandonInv ==
  ASSUME TypeInv, Inv, Abandon
  PROVE  Inv'
<1>1. sync' = NoSync /\ source' = source
  BY DEF Abandon
<1>2. \A r \in Stores : IsStored(r)'
  <2>1. CASE sidecar' = sidecar
    BY <1>1, <2>1, SameStored DEF Inv
  <2>2. CASE /\ sync.pc = "write" /\ ~sync.lost
             /\ \E n \in 0..Len(sync.bars) : WriteBars(SubSeq(sync.bars, 1, n))
    BY <1>1, <2>2, PartWritten
  <2> QED BY <2>1, <2>2 DEF Abandon
<1> QED BY <1>1, <1>2, IdleInv

LEMMA ReportInv ==
  ASSUME TypeInv, Inv, Report
  PROVE  Inv'
<1>1. sync' = NoSync /\ source' = source /\ sidecar' = sidecar
  BY DEF Report
<1>2. \A r \in Stores : IsStored(r)'
  BY <1>1, SameStored DEF Inv
<1> QED BY <1>1, <1>2, IdleInv

LEMMA UnsyncInv ==
  ASSUME TypeInv, Inv, NEW s \in Stores, Unsync(s)
  PROVE  Inv'
<1> DEFINE x == sync.store
<1>1. /\ source' = source /\ sidecar' = [sidecar EXCEPT ![s] = <<>>]
      /\ sync' = [sync EXCEPT !.lost = @ \/ (sync.pc # "idle" /\ sync.store = s)]
  BY DEF Unsync
<1>2. /\ sync \in SyncStates /\ x \in Stores /\ sidecar \in [Stores -> Seq(Bar)]
  BY DEF TypeInv, SyncStates
<1>3. /\ sync'.pc = sync.pc /\ sync'.store = x /\ sync'.resume = sync.resume
      /\ sync'.end = sync.end /\ sync'.seen = sync.seen /\ sync'.bars = sync.bars
      /\ sync'.lost = (sync.lost \/ (sync.pc # "idle" /\ x = s))
  BY <1>1, <1>2 DEF SyncStates
<1>4. sidecar'[s] = <<>> /\ \A r \in Stores : r # s => sidecar'[r] = sidecar[r]
  BY <1>1, <1>2
<1>5. \A r \in Stores : IsStored(r)'
  <2>1. \A r \in Stores : r # s => IsStored(r)'
    BY <1>1, <1>4, SameStored DEF Inv
  <2>2. IsStored(s)'
    <3>1. \E m \in 0..Len(source) : \E n \in 0..Len(Upto(s, source, m)) :
             sidecar'[s] = SubSeq(Upto(s, source, m), 1, n)
      BY <1>4, EmptyStored
    <3> QED BY <1>1, <3>1 DEF IsStored
  <2> QED BY <2>1, <2>2
<1>6. ASSUME sync.pc # "idle", ~sync'.lost
      PROVE  ~sync.lost /\ sidecar'[x] = sidecar[x]
  <2>1. ~sync.lost /\ x # s
    BY <1>3, <1>6
  <2> QED BY <1>2, <1>4, <2>1
<1>7. IsTrimmed'
  BY <1>1, <1>3, <1>6 DEF Inv, IsTrimmed
<1>8. IsScanned'
  BY <1>1, <1>3, <1>6 DEF Inv, IsScanned
<1>9. IsWritten'
  BY <1>1, <1>3, <1>6 DEF Inv, IsWritten
<1>10. IsLost'
  <2> SUFFICES ASSUME sync.pc \in {"scan", "write"}, sync'.lost PROVE sidecar'[x] = <<>>
    BY <1>3 DEF IsLost
  <2>1. CASE x = s
    BY <1>4, <2>1
  <2>2. CASE x # s
    <3>1. sync.lost
      BY <1>3, <2>2
    <3> QED BY <1>2, <1>4, <2>2, <3>1 DEF Inv, IsLost
  <2> QED BY <2>1, <2>2
<1>11. sync'.seen <= Len(source')
  BY <1>1, <1>3 DEF Inv
<1> QED BY <1>5, <1>7, <1>8, <1>9, <1>10, <1>11 DEF Inv

LEMMA DownloadInv ==
  ASSUME TypeInv, Inv, NEW t \in Times, Download(t)
  PROVE  Inv'
<1>1. /\ Len(source) < MaxTicks /\ source' = Append(source, t)
      /\ sidecar' = sidecar /\ sync' = sync
      /\ source # <<>> => t >= source[Len(source)]
  BY DEF Download, Last
<1>2. /\ IsSource(source) /\ IsAscending(source) /\ sync \in SyncStates
      /\ Len(source) \in Nat /\ sync.store \in Series
  BY TimesType, StoreSeries DEF TypeInv, SyncStates
<1>3. /\ Len(source') = Len(source) + 1
      /\ \A i \in 1..Len(source) : source'[i] = source[i] /\ source[i] <= t
      /\ source'[Len(source) + 1] = t
  BY <1>1, <1>2, DownloadSource
<1>4. \A r : \A m \in 0..Len(source) : Upto(r, source', m) = Upto(r, source, m)
  BY <1>1, <1>2, UptoAppend
<1>5. /\ \A m \in 0..Len(source) : m \in 0..Len(source')
      /\ \A m \in 1..Len(source) : m \in 1..Len(source')
  BY <1>2, <1>3
<1>6. \A r \in Stores : IsStored(r)'
  <2> SUFFICES ASSUME NEW r \in Stores PROVE IsStored(r)'
    OBVIOUS
  <2>1. PICK m \in 0..Len(source) : \E n \in 0..Len(Upto(r, source, m)) :
           sidecar[r] = SubSeq(Upto(r, source, m), 1, n)
    BY DEF Inv, IsStored
  <2>2. m \in 0..Len(source') /\ Upto(r, source', m) = Upto(r, source, m)
    BY <1>4, <1>5
  <2> QED BY <1>1, <2>1, <2>2 DEF IsStored
<1>7. sync.seen \in Nat /\ sync.seen <= Len(source) /\ sync'.seen <= Len(source')
  BY <1>1, <1>2, <1>3, SidecarAssumption DEF Inv, SyncStates
<1>8. IsTrimmed'
  <2> SUFFICES ASSUME sync.pc \in {"scan", "write"}, ~sync.lost
      PROVE  \E c \in 0..Len(source') :
                /\ sidecar[sync.store] = Upto(sync.store, source', c)
                /\ IF sync.resume = None THEN c = 0
                   ELSE /\ IsBucket(sync.store, source', sync.resume)
                        /\ IsCut(source', sync.resume, c)
    BY <1>1 DEF IsTrimmed
  <2>1. PICK c \in 0..Len(source) :
           /\ sidecar[sync.store] = Upto(sync.store, source, c)
           /\ IF sync.resume = None THEN c = 0
              ELSE IsBucket(sync.store, source, sync.resume) /\ IsCut(source, sync.resume, c)
    BY DEF Inv, IsTrimmed
  <2>2. c \in 0..Len(source') /\ sidecar[sync.store] = Upto(sync.store, source', c)
    BY <1>4, <1>5, <2>1
  <2>3. ASSUME sync.resume # None
        PROVE  IsBucket(sync.store, source', sync.resume) /\ IsCut(source', sync.resume, c)
    <3>1. PICK u \in 1..Len(source) :
             Belongs(sync.store.session, source[u]) /\ sync.resume = BucketOf(sync.store, source[u])
      BY <2>1, <2>3 DEF IsBucket
    <3>2. u \in 1..Len(source') /\ source'[u] = source[u] /\ source[u] <= t
      BY <1>3, <1>5
    <3>3. IsBucket(sync.store, source', sync.resume)
      BY <3>1, <3>2 DEF IsBucket
    <3>4. sync.resume <= t /\ sync.resume \in Nat
      <4>1. source[u] \in Times /\ source[u] \in Int /\ t \in Int
        BY <1>2, TimesType, SidecarAssumption
      <4>2. /\ BucketOf(sync.store, source[u]) \in Nat
            /\ BucketOf(sync.store, source[u]) <= source[u]
        BY <1>2, <4>1, BucketOfBounds
      <4> QED BY <3>1, <3>2, <4>1, <4>2
    <3>5. \A i \in 1..Len(source') : i <= c <=> source'[i] < sync.resume
      <4> SUFFICES ASSUME NEW i \in 1..Len(source')
          PROVE  i <= c <=> source'[i] < sync.resume
        OBVIOUS
      <4>1. t \in Int
        BY SidecarAssumption
      <4>2. CASE i \in 1..Len(source)
        BY <1>3, <2>1, <2>3, <4>2 DEF IsCut
      <4>3. CASE i = Len(source) + 1
        BY <1>2, <1>3, <2>1, <3>4, <4>1, <4>3
      <4> QED BY <1>2, <1>3, <4>2, <4>3
    <3> QED BY <2>2, <3>3, <3>5 DEF IsCut
  <2> QED BY <2>1, <2>2, <2>3
<1>9. IsScanned'
  <2> SUFFICES ASSUME sync.pc = "write", ~sync.lost
      PROVE  \E m \in 0..sync.seen :
                /\ sidecar[sync.store] \o sync.bars = Upto(sync.store, source', m)
                /\ sync.end = None => m = sync.seen
    BY <1>1 DEF IsScanned
  <2>1. PICK m \in 0..sync.seen :
           /\ sidecar[sync.store] \o sync.bars = Upto(sync.store, source, m)
           /\ sync.end = None => m = sync.seen
    BY DEF Inv, IsScanned
  <2>2. m \in 0..Len(source)
    BY <1>2, <1>7
  <2> QED BY <1>4, <2>1, <2>2
<1>10. IsWritten'
  <2>1. sync.seen \in 0..Len(source)
    BY <1>2, <1>7
  <2> QED BY <1>1, <1>4, <2>1 DEF Inv, IsWritten
<1>11. IsLost'
  BY <1>1 DEF Inv, IsLost
<1> QED BY <1>6, <1>7, <1>8, <1>9, <1>10, <1>11 DEF Inv

LEMMA NextInv ==
  ASSUME EvenStores
  PROVE  TypeInv /\ Inv /\ [Next]_vars => Inv'
<1> SUFFICES ASSUME TypeInv, Inv, [Next]_vars PROVE Inv'
  OBVIOUS
<1>1. CASE UNCHANGED vars
  BY <1>1 DEF vars, Inv, IsStored, IsTrimmed, IsScanned, IsWritten, IsLost
<1> QED
  BY <1>1, UnsyncInv, TrimInv, ScanInv, WriteInv, ReportInv, AbandonInv, DownloadInv DEF Next

\* The inductive invariant of the refresh, between any two of its steps.
THEOREM SidecarInvariant ==
  ASSUME EvenStores
  PROVE  Spec => [](TypeInv /\ Inv)
<1>1. Init => TypeInv /\ Inv
  BY InitTyped, InitInv
<1>2. TypeInv /\ Inv /\ [Next]_vars => (TypeInv /\ Inv)'
  BY NextTyped, NextInv
<1> QED BY <1>1, <1>2, PTL DEF Spec

\* A refresh that reports success and was given no --end has left exactly the
\* rebuild over the ticks it saw, whatever refreshes died before it and whatever
\* was downloaded meanwhile.
THEOREM RefreshCorrect ==
  ASSUME EvenStores
  PROVE  Spec => []RefreshIsRebuild
<1>1. TypeInv /\ Inv => RefreshIsRebuild
  BY DEF Inv, IsWritten, RefreshIsRebuild, Upto
<1> QED BY <1>1, SidecarInvariant, PTL

-----------------------------------------------------------------------------
(* What a sidecar holds.                                                   *)

LEMMA GrowsUpToLast ==
  ASSUME NEW T, NEW bars \in Seq(RowOf(T)), NEW later \in Seq(RowOf(T)), GrowsTo(bars, later),
         NEW n \in 0..Len(bars)
  PROVE  n <= Len(later) /\ UpToLastBar(SubSeq(bars, 1, n), SubSeq(later, 1, n))
<1> DEFINE a == SubSeq(bars, 1, n)
           b == SubSeq(later, 1, n)
<1>1. /\ Len(bars) \in Nat /\ Len(later) \in Nat /\ n \in Nat /\ n <= Len(bars) /\ n <= Len(later)
      /\ \A i \in 1..n : bars[i] \in RowOf(T) /\ later[i] \in RowOf(T) /\ i \in 1..Len(bars)
  BY DEF GrowsTo
<1>2. Len(a) = n /\ \A i \in 1..n : a[i] = bars[i]
  BY <1>1, SubSeqProperties
<1>3. Len(b) = n /\ \A i \in 1..n : b[i] = later[i]
  BY <1>1, SubSeqProperties
<1> HIDE DEF a, b
<1>4. ASSUME NEW k \in 1..n
      PROVE  /\ a[k].time = b[k].time
             /\ IF k < n THEN a[k].ticks = b[k].ticks ELSE IsPrefix(a[k].ticks, b[k].ticks)
  <2>1. /\ a[k] = bars[k] /\ b[k] = later[k] /\ Continues(bars[k], later[k])
        /\ k < Len(bars) => later[k] = bars[k]
    BY <1>1, <1>2, <1>3 DEF GrowsTo
  <2>2. k < n => k < Len(bars)
    BY <1>1
  <2>3. a[k].time = b[k].time /\ IsPrefix(a[k].ticks, b[k].ticks)
    BY <2>1 DEF Continues
  <2>4. k < n => a[k] = b[k]
    BY <2>1, <2>2
  <2> QED BY <2>3, <2>4
<1>5. UpToLastBar(a, b)
  BY <1>2, <1>3, <1>4 DEF UpToLastBar
<1> QED BY <1>1, <1>5 DEF a, b

LEMMA GrownUpToLast ==
  ASSUME NEW T, NEW bars \in Seq(RowOf(T)), NEW later \in Seq(RowOf(T)), GrowsTo(bars, later),
         Len(bars) = Len(later)
  PROVE  UpToLastBar(bars, later)
<1>1. Len(bars) \in 0..Len(bars)
  OBVIOUS
<1>2. UpToLastBar(SubSeq(bars, 1, Len(bars)), SubSeq(later, 1, Len(bars)))
  BY <1>1, GrowsUpToLast
<1>3. SubSeq(bars, 1, Len(bars)) = bars /\ SubSeq(later, 1, Len(later)) = later
  BY SubSeqFull
<1> QED BY <1>2, <1>3

\* At every moment, also between the steps of a refresh, after refreshes that
\* died and after an unsync, a sidecar is a first part of the full series and
\* only its last bar may miss ticks.
THEOREM OnlyTheLastIsOpen ==
  ASSUME EvenStores
  PROVE  Spec => []OnlyTheLastBarIsOpen
<1>1. TypeInv /\ Inv => OnlyTheLastBarIsOpen
  <2> SUFFICES ASSUME TypeInv, Inv, NEW s \in Stores
      PROVE  LET full == Rebuild(s, source)
                 n == Len(sidecar[s])
             IN  n <= Len(full) /\ UpToLastBar(sidecar[s], SubSeq(full, 1, n))
    BY DEF OnlyTheLastBarIsOpen
  <2> DEFINE all == Len(source)
  <2>1. IsSource(source) /\ s \in Series /\ all \in 0..all
    BY StoreSeries, TimesType DEF TypeInv
  <2>2. PICK m \in 0..all : \E n \in 0..Len(Upto(s, source, m)) :
           sidecar[s] = SubSeq(Upto(s, source, m), 1, n)
    BY DEF Inv, IsStored
  <2>3. PICK n \in 0..Len(Upto(s, source, m)) : sidecar[s] = SubSeq(Upto(s, source, m), 1, n)
    BY <2>2
  <2>4. all \in m..all
    BY <2>1
  <2> DEFINE bars == Upto(s, source, m)
             full == Upto(s, source, all)
  <2>5. bars \in Seq(Row) /\ full \in Seq(Row) /\ GrowsTo(bars, full)
    BY <2>1, <2>4, UptoType, UptoGrows
  <2>6. Rebuild(s, source) = full
    BY <2>1, UptoAll
  <2> HIDE DEF bars, full
  <2>7. n \in 0..Len(bars)
    BY <2>3 DEF bars
  <2>8. n <= Len(full) /\ UpToLastBar(SubSeq(bars, 1, n), SubSeq(full, 1, n))
    BY <2>5, <2>7, GrowsUpToLast DEF Row
  <2>9. sidecar[s] = SubSeq(bars, 1, n)
    BY <2>3 DEF bars
  <2>10. Len(SubSeq(bars, 1, n)) = n
    <3>1. n \in Nat /\ \A i \in 1..n : bars[i] \in Row
      BY <2>5, <2>7
    <3> QED BY <3>1, SubSeqProperties
  <2> QED BY <2>6, <2>8, <2>9, <2>10
<1> QED BY <1>1, SidecarInvariant, PTL

-----------------------------------------------------------------------------
(* Bars from bars.                                                         *)

\* What of a store is read for a request, as symbol_bars filters it.
Through(have, want, t) ==
    have.session = "ext" /\ want.session = "rth" => InHours("rth", t)
Reread(have, want, rows) ==
    IF have.session = "ext" /\ want.session = "rth" THEN InSession("rth", rows) ELSE rows

LEMMA RereadType ==
  ASSUME NEW S, NEW rows \in Seq(S), NEW have, NEW want
  PROVE  Reread(have, want, rows) \in Seq(S)
  BY InSessionType DEF Reread

LEMMA RereadEmpty ==
  ASSUME NEW have, NEW want
  PROVE  Reread(have, want, <<>>) = <<>>
  BY InSessionEmpty DEF Reread

LEMMA RereadAppend ==
  ASSUME NEW S, NEW rows \in Seq(S), NEW e \in S, NEW have, NEW want
  PROVE  Reread(have, want, Append(rows, e)) =
            IF Through(have, want, e.time) THEN Append(Reread(have, want, rows), e)
            ELSE Reread(have, want, rows)
<1>1. CASE have.session = "ext" /\ want.session = "rth"
  <2>1. InSession("rth", Append(rows, e)) =
           IF InHours("rth", e.time) THEN Append(InSession("rth", rows), e)
           ELSE InSession("rth", rows)
    BY InSessionAppend
  <2> QED BY <1>1, <2>1 DEF Reread, Through
<1>2. CASE ~(have.session = "ext" /\ want.session = "rth")
  BY <1>2 DEF Reread, Through
<1> QED BY <1>1, <1>2

\* A bucket of the store lies within one of the request, and in its hours or
\* not as its ticks do.
Fits(have, want) ==
    \A t \in Times :
        /\ Belongs(want.session, t) => Belongs(have.session, t)
        /\ Belongs(have.session, t) =>
               /\ BucketOf(want, BucketOf(have, t)) = BucketOf(want, t)
               /\ Through(have, want, BucketOf(have, t)) <=> Belongs(want.session, t)

LEMMA ServesFits ==
  ASSUME NEW have \in Series, NEW want \in Series, Serves(have, want), WithinDay(have),
         have.session # want.session => Aligned(have)
  PROVE  Fits(have, want)
<1> DEFINE w == have.width
           v == want.width
           s == have.session
           r == want.session
<1>1. w \in 1..Day /\ v \in 1..Day /\ s \in Sessions /\ r \in Sessions
  BY SeriesType
<1>2. v = Day \/ (w # Day /\ v # Day /\ v % w = 0)
  BY DEF Serves
<1>3. s = r \/ (s = "ext" /\ r = "rth" /\ w < Day)
  BY DEF Serves
<1>4. (Hours[r].open - Hours[s].open) % w = 0
  <2>1. CASE s = r
    <3>1. Hours[r].open - Hours[s].open = 0
      BY <1>1, <2>1, HoursType
    <3>2. w \in Nat \ {0}
      BY <1>1, HoursType
    <3> HIDE DEF w, s, r
    <3>3. 0 % w = 0
      BY <3>2
    <3> QED BY <3>1, <3>3
  <2>2. CASE s # r
    BY <1>3, <2>2 DEF Aligned
  <2> QED BY <2>1, <2>2
<1>5. ASSUME NEW t \in Times, Belongs(s, t)
      PROVE  BucketOf(want, BucketOf(have, t)) = BucketOf(want, t)
  <2>1. t \in Int /\ Midnight(t) <= BucketStart(w, s, t)
    BY <1>5, SidecarAssumption DEF WithinDay, BucketOf
  <2>2. v = Day \/ (w # Day /\ v # Day /\ v % w = 0 /\ (Hours[r].open - Hours[s].open) % w = 0)
    BY <1>2, <1>4
  <2>3. BucketStart(v, r, BucketStart(w, s, t)) = BucketStart(v, r, t)
    <3> HIDE DEF w, v, s, r
    <3> QED BY <1>1, <2>1, <2>2, NestedBuckets
  <2> QED BY <2>3 DEF BucketOf
<1>6. ASSUME NEW t \in Times, Belongs(s, t)
      PROVE  Through(have, want, BucketOf(have, t)) <=> Belongs(r, t)
  <2>1. CASE s = r
    BY <1>6, <2>1 DEF Through
  <2>2. CASE s = "ext" /\ r = "rth" /\ w < Day
    <3>1. t \in Int /\ Midnight(t) <= BucketStart(w, s, t) /\ w # Day
      BY <1>1, <1>6, <2>2, SidecarAssumption, HoursType DEF WithinDay, BucketOf
    <3>2. (Hours[r].close - Hours[r].open) % w = 0
      BY <2>2 DEF Aligned
    <3>3. InHours(r, BucketStart(w, s, t)) <=> InHours(r, t)
      <4> HIDE DEF w, s, r
      <4> QED BY <1>1, <1>4, <3>1, <3>2, WholeBuckets
    <3> QED BY <2>2, <3>3 DEF Through, Belongs, BucketOf
  <2> QED BY <1>3, <2>1, <2>2
<1>7. ASSUME NEW t \in Times, Belongs(r, t) PROVE Belongs(s, t)
  BY <1>3, <1>7 DEF Belongs
<1> QED BY <1>5, <1>6, <1>7 DEF Fits

\* Whatever a row does to the bars, the last of them then covers it.
LEMMA PushCovers ==
  ASSUME NEW T, NEW w \in 1..Day, NEW s \in Sessions,
         NEW bars \in Seq(RowOf(T)), NEW row \in RowOf(T)
  PROVE  row.time < Push(w, s, bars, row)[Len(Push(w, s, bars, row))].time + w
<1> DEFINE pushed == Push(w, s, bars, row)
<1>1. Len(bars) \in Nat /\ row.time \in Int
  BY BarsTypes
<1>2. CASE Joins(w, bars, row)
  <2>1. IsJoined(pushed, T, bars, row)
    BY <1>2, PushJoins
  <2> HIDE DEF pushed
  <2>2. pushed[Len(pushed)].time = bars[Len(bars)].time
    BY <2>1 DEF IsJoined
  <2> QED BY <1>2, <2>2 DEF Joins, pushed
<1>3. CASE ~Joins(w, bars, row)
  <2>1. pushed = Append(bars, NewBar(w, s, row))
    BY <1>3, PushOpens DEF NewBar
  <2>2. NewBar(w, s, row) \in RowOf(T) /\ NewBar(w, s, row).time = BucketStart(w, s, row.time)
    BY BarsTypes DEF NewBar
  <2> HIDE DEF pushed
  <2>3. pushed[Len(pushed)] = NewBar(w, s, row)
    BY <2>1, <2>2, AppendProperties
  <2>4. row.time < BucketStart(w, s, row.time) + w
    BY <1>1, BucketStartBounds
  <2> QED BY <2>2, <2>3, <2>4 DEF pushed
<1> QED BY <1>2, <1>3

\* Two rows that differ in their time only, on the same side of every edge.
LEMMA PushSame ==
  ASSUME NEW w, NEW s, NEW bars, NEW row, NEW other, row.ticks = other.ticks,
         BucketStart(w, s, row.time) = BucketStart(w, s, other.time),
         Joins(w, bars, row) <=> Joins(w, bars, other)
  PROVE  Push(w, s, bars, row) = Push(w, s, bars, other)
  BY DEF Push, Joins, NextBucketStart, Last

\* The last bucket before a tick is the tick's own, or ends at or before it.
LEMMA LastBucket ==
  ASSUME NEW x \in Series, Even(x.width, x.session),
         NEW ticks, IsSource(ticks), IsAscending(ticks), NEW n \in 1..Len(ticks),
         Belongs(x.session, ticks[n]), Upto(x, ticks, n - 1) # <<>>
  PROVE  LET last == Upto(x, ticks, n - 1)[Len(Upto(x, ticks, n - 1))].time
         IN  /\ last \in Int
             /\ last = BucketOf(x, ticks[n]) \/ last + x.width <= BucketOf(x, ticks[n])
             /\ ticks[n] < last + x.width => last = BucketOf(x, ticks[n])
             /\ last = BucketOf(x, ticks[n]) => ticks[n] < last + x.width
<1> DEFINE bars == Upto(x, ticks, n - 1)
           t == ticks[n]
<1>1. /\ Len(ticks) \in Nat /\ n - 1 \in 0..Len(ticks)
      /\ t \in Times /\ t \in Int
      /\ \A i \in 1..(n - 1) : i \in 1..Len(ticks) /\ ticks[i] \in Times /\ ticks[i] <= t
  BY TimesType DEF IsAscending
<1>2. bars \in Seq(Row) /\ Len(bars) \in Nat
  BY <1>1, UptoType
<1>3. \A k \in 1..Len(bars) : \E i \in 1..(n - 1) :
         ticks[i] \in Times /\ Belongs(x.session, ticks[i]) /\ bars[k].time = BucketOf(x, ticks[i])
  BY <1>1, UptoFrom
<1> HIDE DEF bars
<1>4. Len(bars) \in 1..Len(bars)
  <2>1. bars # <<>>
    BY DEF bars
  <2> QED BY <1>2, <2>1
<1>5. PICK i \in 1..(n - 1) :
         ticks[i] \in Times /\ Belongs(x.session, ticks[i])
         /\ bars[Len(bars)].time = BucketOf(x, ticks[i])
  BY <1>3, <1>4
<1>6. Beside(x.width, BucketOf(x, ticks[i]), BucketOf(x, t))
  BY <1>1, <1>5, TickBuckets
<1>7. BucketOf(x, ticks[i]) \in Nat /\ x.width \in Nat \ {0}
  BY <1>5, BucketOfBounds
<1>8. BucketOf(x, t) \in Nat /\ BucketOf(x, t) <= t /\ t < BucketOf(x, t) + x.width
  BY <1>1, BucketOfBounds
<1> DEFINE a == BucketOf(x, ticks[i])
           b == BucketOf(x, t)
           w == x.width
<1>9. a = b \/ a + w <= b
  BY <1>6 DEF Beside
<1>10. t < a + w => a = b
  <2>1. a \in Int /\ b \in Int /\ w \in Int /\ b <= t /\ t \in Int
    BY <1>1, <1>7, <1>8
  <2> HIDE DEF a, b, w, t
  <2> QED BY <1>9, <2>1
<1> HIDE DEF a
<1>11. a \in Int /\ bars[Len(bars)].time = a
  BY <1>5, <1>7 DEF a
<1>12. a = b => t < a + w
  BY <1>8
<1> QED BY <1>9, <1>10, <1>11, <1>12 DEF bars

\* A tick and the start of its stored bucket fall on the same side of the end of
\* the last bucket of the request.
LEMMA SameSide ==
  ASSUME NEW have \in Series, NEW want \in Series, Fits(have, want),
         Even(want.width, want.session),
         NEW ticks, IsSource(ticks), IsAscending(ticks), NEW n \in 1..Len(ticks),
         Belongs(want.session, ticks[n]), NEW row, row.time = BucketOf(have, ticks[n])
  PROVE  Joins(want.width, Upto(want, ticks, n - 1), row)
            <=> Joins(want.width, Upto(want, ticks, n - 1), Tick(ticks[n], n))
<1> DEFINE bars == Upto(want, ticks, n - 1)
           t == ticks[n]
           b == BucketOf(have, t)
           last == bars[Len(bars)].time
           v == want.width
<1>1. t \in Times /\ t \in Int
  BY TimesType
<1>2. Tick(ticks[n], n).time = t
  BY TickParts
<1>3. CASE bars = <<>>
  BY <1>3 DEF Joins
<1>4. CASE bars # <<>>
  <2>1. /\ last \in Int
        /\ last = BucketOf(want, t) \/ last + v <= BucketOf(want, t)
        /\ last = BucketOf(want, t) => t < last + v
    BY <1>4, LastBucket
  <2>2. Belongs(have.session, t) /\ BucketOf(want, b) = BucketOf(want, t)
    BY <1>1 DEF Fits
  <2>3. b \in Nat /\ b <= t
    BY <1>1, BucketOfBounds
  <2>4. BucketOf(want, b) <= b /\ BucketOf(want, b) \in Int
    <3>1. b \in Int
      BY <2>3
    <3> HIDE DEF b
    <3> QED BY <3>1, SeriesType, BucketStartBounds DEF BucketOf
  <2>5. v \in Int
    BY SeriesType
  <2> HIDE DEF last, b, t, v
  <2>6. b < last + v <=> t < last + v
    BY <1>1, <2>1, <2>2, <2>3, <2>4, <2>5
  <2> QED BY <1>2, <1>4, <2>6 DEF Joins, last, b, v, t
<1> QED BY <1>3, <1>4

\* A stored bar that opens passes on what its tick would.
LEMMA CoarsenOpened ==
  ASSUME NEW have \in Series, NEW want \in Series, Fits(have, want),
         Even(want.width, want.session),
         NEW ticks, IsSource(ticks), IsAscending(ticks), NEW n \in 1..Len(ticks),
         Belongs(want.session, ticks[n])
  PROVE  Push(want.width, want.session, Upto(want, ticks, n - 1),
              NewBar(have.width, have.session, Tick(ticks[n], n))) =
         Push(want.width, want.session, Upto(want, ticks, n - 1), Tick(ticks[n], n))
<1> DEFINE bars == Upto(want, ticks, n - 1)
           tick == Tick(ticks[n], n)
           bar == NewBar(have.width, have.session, tick)
           t == ticks[n]
<1>1. t \in Times /\ tick.time = t
  BY TimesType, TickParts
<1>2. bar.time = BucketOf(have, t) /\ bar.ticks = tick.ticks
  BY <1>1 DEF NewBar, BucketOf
<1>3. BucketStart(want.width, want.session, bar.time)
         = BucketStart(want.width, want.session, tick.time)
  <2>1. BucketOf(want, BucketOf(have, t)) = BucketOf(want, t)
    BY <1>1 DEF Fits
  <2>2. \A u : BucketOf(want, u) = BucketStart(want.width, want.session, u)
    BY DEF BucketOf
  <2> HIDE DEF bar, tick, t
  <2> QED BY <1>1, <1>2, <2>1, <2>2
<1> HIDE DEF bar
<1>4. Joins(want.width, bars, bar) <=> Joins(want.width, bars, tick)
  BY <1>2, SameSide
<1> HIDE DEF tick, bars
<1>5. Push(want.width, want.session, bars, bar) = Push(want.width, want.session, bars, tick)
  BY <1>2, <1>3, <1>4, PushSame
<1> QED BY <1>5 DEF bars, bar, tick

\* Joined bars, without their last.
LEMMA JoinedParts ==
  ASSUME NEW T, NEW w \in 1..Day, NEW s \in Sessions,
         NEW bars \in Seq(RowOf(T)), NEW row \in RowOf(T), Joins(w, bars, row)
  PROVE  \E c \in Seq(RowOf(T)), l \in RowOf(T) :
            /\ bars = Append(c, l)
            /\ bars[Len(bars)] = l
            /\ Push(w, s, bars, row) = Append(c, Merged(l, row))
<1>1. PICK c \in Seq(RowOf(T)), l \in RowOf(T) : bars = Append(c, l)
  BY SequenceEmptyOrAppend DEF Joins
<1>2. bars[Len(bars)] = l
  BY <1>1, AppendProperties
<1>3. row.time < l.time + w
  BY <1>2 DEF Joins
<1>4. Push(w, s, Append(c, l), row) = Append(c, Merged(l, row))
  BY <1>3, PushOnto
<1> QED BY <1>1, <1>2, <1>4

\* A stored bar that is extended passes on the tick that extends it.
LEMMA CoarsenJoined ==
  ASSUME NEW have \in Series, NEW want \in Series, Fits(have, want),
         Even(want.width, want.session),
         NEW ticks, IsSource(ticks), IsAscending(ticks), NEW n \in 1..Len(ticks),
         Belongs(want.session, ticks[n]),
         NEW c \in Seq(Row), NEW l \in Row, l.time = BucketOf(have, ticks[n]),
         Resample(want.width, want.session, Append(c, l)) = Upto(want, ticks, n - 1)
  PROVE  Resample(want.width, want.session, Append(c, Merged(l, Tick(ticks[n], n)))) =
         Push(want.width, want.session, Upto(want, ticks, n - 1), Tick(ticks[n], n))
<1> DEFINE v == want.width
           s == want.session
           tick == Tick(ticks[n], n)
           bars == Upto(want, ticks, n - 1)
           begun == Resample(v, s, c)
           more == Merged(l, tick)
<1>1. v \in 1..Day /\ s \in Sessions
  BY SeriesType
<1>2. tick \in Row
  BY UptoNext
<1> HIDE DEF tick
<1>3. more \in Row
  <2>1. l \in RowOf(Places) /\ tick \in RowOf(Places)
    BY <1>2 DEF Row
  <2> HIDE DEF v, s
  <2>2. Merged(l, tick) \in RowOf(Places)
    BY <1>1, <2>1, BarsTypes
  <2> QED BY <2>2 DEF Row
<1> HIDE DEF more
<1>4. begun \in Seq(RowOf(Places))
  <2>1. c \in Seq(RowOf(Places))
    BY DEF Row
  <2> HIDE DEF v, s
  <2> QED BY <1>1, <2>1, ResampleType
<1>5. /\ Resample(v, s, Append(c, l)) = Push(v, s, begun, l)
      /\ Resample(v, s, Append(c, more)) = Push(v, s, begun, more)
  <2>1. c \in Seq(RowOf(Places)) /\ l \in RowOf(Places) /\ more \in RowOf(Places)
    BY <1>3 DEF Row
  <2> HIDE DEF v, s
  <2> QED BY <1>1, <2>1, ResampleAppend
<1>6. bars = Push(v, s, begun, l)
  BY <1>5
<1> HIDE DEF begun, bars
<1>7. Joins(v, bars, l)
  <2>1. l \in RowOf(Places)
    BY DEF Row
  <2> HIDE DEF v, s
  <2>2. Push(v, s, begun, l) # <<>>
    BY <1>1, <1>4, <2>1, PushType
  <2>3. l.time < Push(v, s, begun, l)[Len(Push(v, s, begun, l))].time + v
    BY <1>1, <1>4, <2>1, PushCovers
  <2> QED BY <1>6, <2>2, <2>3 DEF Joins
<1>8. Joins(v, bars, tick)
  BY <1>7, SameSide DEF bars, tick
<1>9. Push(v, s, Push(v, s, begun, l), tick) = Push(v, s, begun, more)
  <2>1. l \in RowOf(Places) /\ tick \in RowOf(Places)
    BY <1>2 DEF Row
  <2>2. Joins(v, Push(v, s, begun, l), tick)
    BY <1>6, <1>8
  <2> HIDE DEF v, s
  <2>3. Push(v, s, Push(v, s, begun, l), tick) = Push(v, s, begun, Merged(l, tick))
    BY <1>1, <1>4, <2>1, <2>2, PushTwice
  <2> QED BY <2>3 DEF more
<1>10. Resample(v, s, Append(c, more)) = Push(v, s, bars, tick)
  BY <1>5, <1>6, <1>9
<1> QED BY <1>10 DEF more, bars, tick

IsCoarsened(have, want, ticks, n) ==
    Resample(want.width, want.session, Reread(have, want, Upto(have, ticks, n)))
        = Upto(want, ticks, n)

\* One tick more in the store is one tick more in the answer.
LEMMA CoarsenNext ==
  ASSUME NEW have \in Series, NEW want \in Series, Fits(have, want),
         Even(have.width, have.session), Even(want.width, want.session),
         NEW ticks, IsSource(ticks), IsAscending(ticks), NEW n \in 1..Len(ticks),
         IsCoarsened(have, want, ticks, n - 1)
  PROVE  IsCoarsened(have, want, ticks, n)
<1> DEFINE t == ticks[n]
           tick == Tick(ticks[n], n)
           bars == Upto(have, ticks, n - 1)
           coarse == Upto(want, ticks, n - 1)
           b == BucketOf(have, t)
           v == want.width
           s == want.session
<1>1. /\ t \in Times /\ tick \in Row /\ tick.time = t
      /\ Upto(have, ticks, n) = IF Belongs(have.session, t)
                                THEN Push(have.width, have.session, bars, tick) ELSE bars
      /\ Upto(want, ticks, n) = IF Belongs(s, t) THEN Push(v, s, coarse, tick) ELSE coarse
  BY UptoNext, TickParts
<1>2. bars \in Seq(Row) /\ coarse \in Seq(Row)
  <2>1. n - 1 \in 0..Len(ticks)
    BY TimesType
  <2> QED BY <2>1, UptoType
<1>3. Resample(v, s, Reread(have, want, bars)) = coarse
  BY DEF IsCoarsened
<1>4. Belongs(s, t) => Belongs(have.session, t)
  BY <1>1 DEF Fits
<1>5. Belongs(have.session, t) => (Through(have, want, b) <=> Belongs(s, t))
  BY <1>1 DEF Fits
<1>6. CASE ~Belongs(have.session, t)
  BY <1>1, <1>3, <1>4, <1>6 DEF IsCoarsened
<1>7. CASE Belongs(have.session, t) /\ ~Joins(have.width, bars, tick)
  <2> DEFINE bar == NewBar(have.width, have.session, tick)
             read == Reread(have, want, bars)
  <2>1. bar \in Row /\ bar.time = b
    <3>1. bar.time = b
      BY <1>1 DEF NewBar, BucketOf
    <3>2. have.width \in 1..Day /\ have.session \in Sessions /\ tick \in RowOf(Places)
      BY <1>1, SeriesType DEF Row
    <3> HIDE DEF tick
    <3>3. bar \in RowOf(Places)
      BY <3>2, BarsTypes
    <3> QED BY <3>1, <3>3 DEF Row
  <2>2. Upto(have, ticks, n) = Append(bars, bar)
    BY <1>1, <1>7, PushOpens DEF NewBar
  <2> HIDE DEF bar, bars
  <2>3. read \in Seq(Row)
    BY <1>2, RereadType
  <2>4. Reread(have, want, Append(bars, bar)) =
           IF Through(have, want, bar.time) THEN Append(read, bar) ELSE read
    BY <1>2, <2>1, RereadAppend
  <2> HIDE DEF read
  <2>5. CASE ~Belongs(s, t)
    BY <1>1, <1>3, <1>5, <1>7, <2>1, <2>2, <2>4, <2>5 DEF IsCoarsened, read
  <2>6. CASE Belongs(s, t)
    <3>1. Resample(v, s, Append(read, bar)) = Push(v, s, Resample(v, s, read), bar)
      <4>1. v \in 1..Day /\ s \in Sessions /\ read \in Seq(RowOf(Places)) /\ bar \in RowOf(Places)
        BY <2>1, <2>3, SeriesType DEF Row
      <4> HIDE DEF v, s
      <4> QED BY <4>1, ResampleAppend
    <3>2. Push(v, s, coarse, bar) = Push(v, s, coarse, tick)
      BY <2>6, CoarsenOpened DEF bar
    <3>3. Reread(have, want, Upto(have, ticks, n)) = Append(read, bar)
      BY <1>5, <1>7, <2>1, <2>2, <2>4, <2>6
    <3>4. Resample(v, s, read) = coarse
      BY <1>3 DEF read
    <3> QED BY <1>1, <2>6, <3>1, <3>2, <3>3, <3>4 DEF IsCoarsened
  <2> QED BY <2>5, <2>6
<1>8. CASE Belongs(have.session, t) /\ Joins(have.width, bars, tick)
  <2>1. PICK c \in Seq(RowOf(Places)), l \in RowOf(Places) :
           /\ bars = Append(c, l)
           /\ bars[Len(bars)] = l
           /\ Push(have.width, have.session, bars, tick) = Append(c, Merged(l, tick))
    <3>1. have.width \in 1..Day /\ have.session \in Sessions
          /\ tick \in RowOf(Places) /\ bars \in Seq(RowOf(Places))
      BY <1>1, <1>2, SeriesType DEF Row
    <3> HIDE DEF bars, tick
    <3> QED BY <1>8, <3>1, JoinedParts
  <2> DEFINE more == Merged(l, tick)
             read == Reread(have, want, c)
  <2>2. l.time = b
    <3>1. bars # <<>> /\ t < bars[Len(bars)].time + have.width
      BY <1>1, <1>8 DEF Joins
    <3>2. bars[Len(bars)].time = BucketOf(have, ticks[n])
      BY <1>8, <3>1, LastBucket
    <3> QED BY <2>1, <3>2
  <2>3. c \in Seq(Row) /\ l \in Row
    BY <2>1 DEF Row
  <2>4. more \in Row /\ more.time = b
    <3>1. more.time = b
      BY <2>2 DEF Merged
    <3>2. have.width \in 1..Day /\ have.session \in Sessions /\ tick \in RowOf(Places)
      BY <1>1, SeriesType DEF Row
    <3> HIDE DEF tick
    <3>3. more \in RowOf(Places)
      BY <2>1, <3>2, BarsTypes
    <3> QED BY <3>1, <3>3 DEF Row
  <2>5. Upto(have, ticks, n) = Append(c, more)
    BY <1>1, <1>8, <2>1
  <2> HIDE DEF more
  <2>6. read \in Seq(Row)
    BY <2>3, RereadType
  <2>7. /\ Reread(have, want, Append(c, more)) =
              IF Through(have, want, b) THEN Append(read, more) ELSE read
        /\ Reread(have, want, Append(c, l)) =
              IF Through(have, want, b) THEN Append(read, l) ELSE read
    BY <2>2, <2>3, <2>4, RereadAppend
  <2> HIDE DEF read
  <2>8. CASE ~Belongs(s, t)
    <3>1. Reread(have, want, Upto(have, ticks, n)) = Reread(have, want, bars)
      BY <1>5, <1>8, <2>1, <2>5, <2>7, <2>8
    <3> QED BY <1>1, <1>3, <2>8, <3>1 DEF IsCoarsened
  <2>9. CASE Belongs(s, t)
    <3>1. /\ Reread(have, want, Upto(have, ticks, n)) = Append(read, more)
          /\ Reread(have, want, bars) = Append(read, l)
      BY <1>5, <1>8, <2>1, <2>5, <2>7, <2>9
    <3>2. Resample(v, s, Append(read, l)) = coarse
      BY <1>3, <3>1
    <3>3. Resample(v, s, Append(read, more)) = Push(v, s, coarse, tick)
      BY <2>2, <2>3, <2>6, <2>9, <3>2, CoarsenJoined DEF more
    <3> QED BY <1>1, <2>9, <3>1, <3>3 DEF IsCoarsened
  <2> QED BY <2>8, <2>9
<1> QED BY <1>6, <1>7, <1>8

\* Bars of bars are the bars of the ticks.
LEMMA Coarsen ==
  ASSUME NEW have \in Series, NEW want \in Series, Fits(have, want),
         Even(have.width, have.session), Even(want.width, want.session),
         NEW ticks, IsSource(ticks), IsAscending(ticks), NEW n \in 0..Len(ticks)
  PROVE  Resample(want.width, want.session, Reread(have, want, Upto(have, ticks, n)))
            = Upto(want, ticks, n)
<1> DEFINE S == {k \in 0..Len(ticks) : IsCoarsened(have, want, ticks, k)}
<1>1. Len(ticks) \in Nat
  BY TimesType
<1>2. 0 \in S
  <2>1. Upto(have, ticks, 0) = <<>> /\ Upto(want, ticks, 0) = <<>>
    BY UptoNone
  <2>2. Resample(want.width, want.session, <<>>) = <<>>
    BY SeriesType, ResampleEmpty
  <2>3. Reread(have, want, <<>>) = <<>>
    BY RereadEmpty
  <2> QED BY <1>1, <2>1, <2>2, <2>3 DEF IsCoarsened
<1>3. \A k \in 1..Len(ticks) : k - 1 \in S => k \in S
  <2> SUFFICES ASSUME NEW k \in 1..Len(ticks), k - 1 \in S PROVE k \in S
    OBVIOUS
  <2>1. IsCoarsened(have, want, ticks, k)
    BY CoarsenNext
  <2> QED BY <1>1, <2>1
<1> HIDE DEF S
<1>4. 0..Len(ticks) \subseteq S
  BY <1>1, <1>2, <1>3, Induction
<1> QED BY <1>4 DEF S, IsCoarsened

-----------------------------------------------------------------------------
(* A request.                                                              *)

\* Bars that grew without a bar more differ in their last at most.
LEMMA GrownLast ==
  ASSUME NEW T, NEW bars \in Seq(RowOf(T)), NEW later \in Seq(RowOf(T)), GrowsTo(bars, later),
         Len(bars) = Len(later), bars # <<>>
  PROVE  \E c \in Seq(RowOf(T)), x \in RowOf(T), y \in RowOf(T) :
            bars = Append(c, x) /\ later = Append(c, y) /\ Continues(x, y)
<1>1. PICK c \in Seq(RowOf(T)), x \in RowOf(T) : bars = Append(c, x)
  BY SequenceEmptyOrAppend
<1>2. later # <<>>
  <2>1. Len(bars) = Len(c) + 1 /\ Len(c) \in Nat
    BY <1>1, AppendProperties
  <2>2. Len(later) # 0
    BY <2>1
  <2>3. Len(<<>>) = 0
    OBVIOUS
  <2> QED BY <2>2, <2>3, Zenon
<1>3. PICK d \in Seq(RowOf(T)), y \in RowOf(T) : later = Append(d, y)
  BY <1>2, SequenceEmptyOrAppend
<1>4. /\ Len(bars) = Len(c) + 1 /\ bars[Len(bars)] = x /\ Len(c) \in Nat
      /\ \A i \in 1..Len(c) : bars[i] = c[i]
  BY <1>1, AppendProperties
<1>5. /\ Len(later) = Len(d) + 1 /\ later[Len(later)] = y /\ Len(d) \in Nat
      /\ \A i \in 1..Len(d) : later[i] = d[i]
  BY <1>3, AppendProperties
<1>6. \A i \in 1..Len(c) : i \in 1..Len(bars) /\ i < Len(bars)
  BY <1>4
<1>7. Len(c) = Len(d) /\ \A i \in 1..Len(c) : c[i] = d[i]
  <2>1. \A i \in 1..Len(c) : later[i] = bars[i]
    BY <1>6 DEF GrowsTo
  <2>2. Len(c) = Len(d)
    <3>1. Len(bars) = Len(c) + 1 /\ Len(later) = Len(d) + 1
      BY <1>4, <1>5
    <3>2. \A p, q \in Nat : p + 1 = q + 1 => p = q
      OBVIOUS
    <3>3. Len(c) \in Nat /\ Len(d) \in Nat /\ Len(c) + 1 = Len(d) + 1
      BY <1>4, <1>5, <3>1
    <3> QED BY <3>2, <3>3, Zenon
  <2> QED BY <1>4, <1>5, <2>1, <2>2
<1>8. c = d
  BY <1>7, SeqEqual
<1>9. Continues(x, y)
  BY <1>4, <1>5 DEF GrowsTo
<1> QED BY <1>1, <1>3, <1>8, <1>9

\* What it gives of more of the last bar is more of its own last bar.
IsGrown(bars, later) ==
    /\ bars \in Seq(Row) /\ later \in Seq(Row)
    /\ GrowsTo(bars, later)
    /\ Len(bars) = Len(later)

LEMMA RereadGrown ==
  ASSUME NEW have \in Series, NEW want \in Series,
         NEW bars \in Seq(Row), NEW later \in Seq(Row), GrowsTo(bars, later),
         Len(bars) = Len(later), bars # <<>>
  PROVE  IsGrown(Resample(want.width, want.session, Reread(have, want, bars)),
                 Resample(want.width, want.session, Reread(have, want, later)))
<1> DEFINE v == want.width
           s == want.session
           B == RowOf(Places)
<1>1. v \in 1..Day /\ s \in Sessions /\ bars \in Seq(B) /\ later \in Seq(B)
  BY SeriesType DEF Row
<1>2. PICK c \in Seq(B), x \in B, y \in B :
         bars = Append(c, x) /\ later = Append(c, y) /\ Continues(x, y)
  BY <1>1, GrownLast
<1> DEFINE read == Reread(have, want, c)
           base == Resample(v, s, read)
<1>3. read \in Seq(B)
  BY <1>2, RereadType
<1>4. /\ Reread(have, want, bars) = IF Through(have, want, x.time) THEN Append(read, x) ELSE read
      /\ Reread(have, want, later) = IF Through(have, want, y.time) THEN Append(read, y) ELSE read
  BY <1>2, RereadAppend
<1>5. x.time = y.time
  BY <1>2 DEF Continues
<1> HIDE DEF v, s, read
<1>6. base \in Seq(B)
  BY <1>1, <1>3, ResampleType
<1>7. CASE Through(have, want, x.time)
  <2>1. Reread(have, want, bars) = Append(read, x) /\ Reread(have, want, later) = Append(read, y)
    BY <1>4, <1>5, <1>7
  <2>2. /\ Resample(v, s, Append(read, x)) = Push(v, s, base, x)
        /\ Resample(v, s, Append(read, y)) = Push(v, s, base, y)
    BY <1>1, <1>2, <1>3, ResampleAppend
  <2> HIDE DEF base
  <2>3. /\ GrowsTo(Push(v, s, base, x), Push(v, s, base, y))
        /\ Len(Push(v, s, base, x)) = Len(Push(v, s, base, y))
    BY <1>1, <1>2, <1>6, PushAlike
  <2>4. Push(v, s, base, x) \in Seq(B) /\ Push(v, s, base, y) \in Seq(B)
    BY <1>1, <1>2, <1>6, PushType
  <2>5. IsGrown(Push(v, s, base, x), Push(v, s, base, y))
    BY <2>3, <2>4 DEF IsGrown, Row
  <2> QED BY <2>1, <2>2, <2>5 DEF v, s
<1>8. CASE ~Through(have, want, x.time)
  <2>1. Reread(have, want, bars) = read /\ Reread(have, want, later) = read
    BY <1>4, <1>5, <1>8
  <2>2. IsGrown(base, base)
    <3> HIDE DEF base
    <3> QED BY <1>6, GrowsSelf DEF IsGrown, Row
  <2> QED BY <2>1, <2>2 DEF v, s
<1> QED BY <1>7, <1>8

\* What resolve_sidecar_match found is a store that may answer.
LEMMA FoundStore ==
  ASSUME NEW want, Found(want)
  PROVE  /\ Head(Current(want)) \in Stores
         /\ Serves(Head(Current(want)), want)
         /\ sidecar[Head(Current(want))] # <<>>
         /\ ~IsStale(Head(Current(want)))
<1> DEFINE order == Order(want)
           T == {order[i] : i \in 1..(2 * Len(Candidates))}
           P == {i \in DOMAIN Order(want) :
                            /\ Order(want)[i] \in Stores
                            /\ Serves(Order(want)[i], want)
                            /\ sidecar[Order(want)[i]] # <<>>}
           Q == {i \in DOMAIN Usable(want) : ~IsStale(Usable(want)[i])}
<1>1. order \in Seq(T)
  <2>1. DOMAIN order = 1..(2 * Len(Candidates))
    BY DEF Order
  <2>2. 2 * Len(Candidates) \in Nat
    BY SidecarAssumption
  <2>3. order = [i \in 1..(2 * Len(Candidates)) |-> order[i]]
    BY DEF Order
  <2> HIDE DEF order
  <2>4. order \in [1..(2 * Len(Candidates)) -> T]
    BY <2>3
  <2> QED BY <2>2, <2>4
<1>2. Usable(want) = RowsAt(order, P) /\ Current(want) = RowsAt(Usable(want), Q)
  BY DEF Usable, Current
<1>3. \A i \in P : order[i] \in Stores /\ Serves(order[i], want) /\ sidecar[order[i]] # <<>>
  OBVIOUS
<1>4. \A i \in Q : ~IsStale(Usable(want)[i])
  OBVIOUS
<1> HIDE DEF T, order, P, Q
<1>5. /\ Usable(want) \in Seq(T)
      /\ \A k \in 1..Len(Usable(want)) : \E i \in 1..Len(order) :
            i \in P /\ Usable(want)[k] = order[i]
  BY <1>1, <1>2, RowsAtType, RowsAtElements
<1>6. /\ Current(want) \in Seq(T)
      /\ \A k \in 1..Len(Current(want)) : \E i \in 1..Len(Usable(want)) :
            i \in Q /\ Current(want)[k] = Usable(want)[i]
  BY <1>2, <1>5, RowsAtType, RowsAtElements
<1>7. Current(want) # <<>>
  BY DEF Found
<1>8. 1 \in 1..Len(Current(want)) /\ Head(Current(want)) = Current(want)[1]
  BY <1>6, <1>7
<1>9. PICK i \in 1..Len(Usable(want)) : i \in Q /\ Head(Current(want)) = Usable(want)[i]
  BY <1>6, <1>8
<1>10. PICK j \in 1..Len(order) : j \in P /\ Usable(want)[i] = order[j]
  BY <1>5, <1>9
<1> QED BY <1>3, <1>4, <1>9, <1>10

\* A store that is not stale misses no bar.
LEMMA FreshStore ==
  ASSUME EvenStores, TypeInv, Inv, NEW have \in Stores, source # <<>>,
         sidecar[have] # <<>>, ~IsStale(have)
  PROVE  \E m \in 0..Len(source) :
            /\ sidecar[have] = Upto(have, source, m)
            /\ Len(Upto(have, source, m)) = Len(Upto(have, source, Len(source)))
<1> DEFINE all == Len(source)
           w == have.width
           full == Upto(have, source, all)
<1>1. /\ IsSource(source) /\ IsAscending(source)
      /\ have \in Series /\ Even(have.width, have.session)
      /\ all \in Nat /\ all \in 0..all
      /\ \A i \in 1..all : source[i] \in Times /\ source[i] \in Int /\ source[i] <= source[all]
  <2>1. IsSource(source) /\ IsAscending(source) /\ have \in Series /\ Even(have.width, have.session)
    BY StoreSeries DEF TypeInv, EvenStores
  <2>2. all \in Nat /\ \A i \in 1..all : source[i] \in Times /\ source[i] \in Int
    BY <2>1, TimesType
  <2>3. \A i \in 1..all : i <= all /\ all \in 1..all
    BY <2>2
  <2> QED BY <2>1, <2>2, <2>3 DEF IsAscending
<1>2. PICK m \in 0..all : \E n \in 0..Len(Upto(have, source, m)) :
         sidecar[have] = SubSeq(Upto(have, source, m), 1, n)
  BY DEF Inv, IsStored
<1> DEFINE bars == Upto(have, source, m)
<1>3. PICK n \in 0..Len(bars) : sidecar[have] = SubSeq(bars, 1, n)
  BY <1>2
<1>4. bars \in Seq(Row) /\ full \in Seq(Row) /\ GrowsTo(bars, full) /\ InOrder(full)
  <2>1. all \in m..all
    BY <1>1
  <2> QED BY <1>1, <2>1, UptoType, UptoGrows, UptoInOrder
<1>5. \A k \in 1..Len(full) : \E i \in 1..all :
         /\ source[i] \in Times /\ Belongs(have.session, source[i])
         /\ full[k].time = BucketOf(have, source[i])
  BY <1>1, UptoFrom
<1> HIDE DEF bars, full
<1>6. /\ Len(sidecar[have]) = n /\ n \in 1..n /\ n <= Len(bars) /\ Len(bars) <= Len(full)
      /\ Len(full) \in Nat /\ Len(bars) \in Nat
      /\ sidecar[have][n] = bars[n]
  <2>1. n \in Nat /\ n <= Len(bars) /\ \A i \in 1..n : bars[i] \in Row
    BY <1>4
  <2>2. /\ Len(SubSeq(bars, 1, n)) = n
        /\ \A i \in 1..n : SubSeq(bars, 1, n)[i] = bars[i]
        /\ SubSeq(bars, 1, n) \in Seq(Row)
    BY <2>1, SubSeqProperties
  <2>3. n # 0
    <3>1. SubSeq(bars, 1, 0) = <<>>
      BY SubSeqEmpty
    <3> QED BY <1>3, <3>1
  <2>4. n \in 1..n
    BY <2>1, <2>3
  <2>5. Len(bars) <= Len(full) /\ Len(full) \in Nat /\ Len(bars) \in Nat
    BY <1>4 DEF GrowsTo
  <2> QED BY <1>3, <2>1, <2>2, <2>4, <2>5
<1>7. source[all] < bars[n].time + w
  <2>1. ~(Last(source) >= NextBucketStart(w, Last(sidecar[have]).time))
    BY DEF IsStale
  <2>2. Last(source) = source[all] /\ Last(sidecar[have]) = bars[n]
    BY <1>6 DEF Last
  <2>3. source[all] \in Int
    <3>1. all # 0
      <4>1. source \in Seq(Times)
        BY <1>1 DEF IsSource
      <4> QED BY <4>1
    <3>2. all \in 1..all
      BY <1>1, <3>1
    <3> QED BY <1>1, <3>2
  <2>4. bars[n].time \in Int /\ w \in Int
    <3>1. bars[n] \in Row
      BY <1>4, <1>6
    <3> QED BY <1>1, <3>1, SeriesType DEF Row, RowOf
  <2> HIDE DEF w, all
  <2> QED BY <2>1, <2>2, <2>3, <2>4 DEF NextBucketStart
<1>8. n = Len(full)
  <2> SUFFICES ASSUME n # Len(full) PROVE FALSE
    OBVIOUS
  <2>1. n + 1 \in 1..Len(full) /\ n \in 1..Len(full) /\ n < n + 1 /\ n \in 1..Len(bars)
    BY <1>6
  <2>2. full[n].time = bars[n].time /\ full[n].time < full[n + 1].time
    <3>1. Continues(bars[n], full[n])
      BY <1>4, <2>1 DEF GrowsTo
    <3> QED BY <1>4, <2>1, <3>1 DEF Continues, InOrder
  <2>3. PICK j \in 1..all : source[j] \in Times /\ Belongs(have.session, source[j])
                            /\ full[n].time = BucketOf(have, source[j])
    BY <1>5, <2>1
  <2>4. PICK i \in 1..all : source[i] \in Times /\ Belongs(have.session, source[i])
                            /\ full[n + 1].time = BucketOf(have, source[i])
    BY <1>5, <2>1
  <2> DEFINE a == BucketOf(have, source[j])
             b == BucketOf(have, source[i])
  <2>5. a \in Int /\ b \in Int /\ b <= source[i] /\ w \in Int /\ w > 0
    <3>1. a \in Nat /\ w \in Nat \ {0}
      BY <1>1, <2>3, BucketOfBounds
    <3>2. b \in Nat /\ b <= source[i]
      BY <1>1, <2>4, BucketOfBounds
    <3> QED BY <3>1, <3>2
  <2>6. CASE source[j] <= source[i]
    <3>1. Beside(w, a, b)
      BY <1>1, <2>3, <2>4, <2>6, TickBuckets
    <3>2. source[i] <= source[all] /\ source[i] \in Int /\ source[all] \in Int
      <4>1. all \in 1..all
        BY <1>1
      <4> QED BY <1>1, <4>1
    <3>3. source[all] < a + w /\ a < b
      BY <1>7, <2>2, <2>3, <2>4
    <3>4. \A p, q, r, x, y \in Int : q <= x /\ x <= y /\ y < p + r /\ p < q
                                       => ~(p = q) /\ ~(p + r <= q)
      OBVIOUS
    <3> HIDE DEF a, b, w, all
    <3>5. ~(a = b) /\ ~(a + w <= b)
      BY <2>5, <3>2, <3>3, <3>4
    <3> QED BY <3>1, <3>5 DEF Beside
  <2>7. CASE ~(source[j] <= source[i])
    <3>1. source[i] <= source[j]
      BY <1>1, <2>7
    <3>2. Beside(w, b, a)
      BY <1>1, <2>3, <2>4, <3>1, TickBuckets
    <3>3. a < b
      BY <2>2, <2>3, <2>4
    <3>4. \A p, q, r \in Int : r > 0 /\ p < q => ~(q = p) /\ ~(q + r <= p)
      OBVIOUS
    <3> HIDE DEF a, b, w
    <3>5. ~(b = a) /\ ~(b + w <= a)
      BY <2>5, <3>3, <3>4
    <3> QED BY <3>2, <3>5 DEF Beside
  <2> QED BY <2>6, <2>7
<1>9. n = Len(bars) /\ Len(bars) = Len(full)
  BY <1>6, <1>8
<1>10. SubSeq(bars, 1, Len(bars)) = bars
  BY <1>4, SubSeqFull
<1>11. sidecar[have] = bars
  BY <1>3, <1>9, <1>10
<1> QED BY <1>9, <1>11 DEF bars, full

\* What a store that may answer gives.
LEMMA Answered ==
  ASSUME EvenStores, TypeInv, Inv, NEW have \in Stores, NEW want \in Series, source # <<>>,
         sidecar[have] # <<>>, ~IsStale(have),
         Even(want.width, want.session), Fits(have, want)
  PROVE  UpToLastBar(Resample(want.width, want.session, Reread(have, want, sidecar[have])),
                     Rebuild(want, source))
<1> DEFINE all == Len(source)
<1>1. /\ IsSource(source) /\ IsAscending(source)
      /\ have \in Series /\ Even(have.width, have.session)
      /\ all \in Nat /\ all \in 0..all
  BY StoreSeries, TimesType DEF TypeInv, EvenStores
<1>2. PICK m \in 0..all : /\ sidecar[have] = Upto(have, source, m)
                          /\ Len(Upto(have, source, m)) = Len(Upto(have, source, all))
  BY FreshStore
<1> DEFINE bars == Upto(have, source, m)
           full == Upto(have, source, all)
<1>3. bars \in Seq(Row) /\ full \in Seq(Row) /\ GrowsTo(bars, full)
  <2>1. all \in m..all
    BY <1>1
  <2> QED BY <1>1, <2>1, UptoType, UptoGrows
<1>4. Resample(want.width, want.session, Reread(have, want, full)) = Rebuild(want, source)
  BY <1>1, Coarsen, UptoAll
<1>5. bars # <<>> /\ Len(bars) = Len(full)
  BY <1>2
<1> HIDE DEF full, bars
<1>6. IsGrown(Resample(want.width, want.session, Reread(have, want, bars)),
              Resample(want.width, want.session, Reread(have, want, full)))
  BY <1>1, <1>3, <1>5, RereadGrown
<1>7. UpToLastBar(Resample(want.width, want.session, Reread(have, want, bars)),
                  Resample(want.width, want.session, Reread(have, want, full)))
  BY <1>6, GrownUpToLast DEF IsGrown, Row
<1> QED BY <1>2, <1>4, <1>7 DEF bars

\* Then bars read through any sidecar that resolve_sidecar_match accepts are the
\* bars of the ticks but for what the last one misses, however that sidecar's
\* refreshes ended.  Without Aligned it is false, which is a finding.
THEOREM ServedCorrect ==
  ASSUME EvenStores, FitRequests
  PROVE  Spec => []ServedIsResampled
<1>1. TypeInv /\ Inv => ServedIsResampled
  <2> SUFFICES ASSUME TypeInv, Inv, NEW want \in Requests, Found(want)
      PROVE  UpToLastBar(Served(want), Rebuild(want, source))
    BY DEF ServedIsResampled
  <2> DEFINE have == Head(Current(want))
  <2>1. have \in Stores /\ Serves(have, want) /\ sidecar[have] # <<>> /\ ~IsStale(have)
    BY FoundStore
  <2>2. source # <<>>
    BY DEF Found
  <2>3. want \in Series /\ Even(want.width, want.session)
    BY SidecarAssumption DEF FitRequests
  <2>4. Served(want) = Resample(want.width, want.session, Reread(have, want, sidecar[have]))
    BY DEF Served, Reread
  <2> HIDE DEF have
  <2>5. Fits(have, want)
    <3>1. WithinDay(have) /\ (have.session # want.session => Aligned(have))
      BY <2>1 DEF FitRequests
    <3> QED BY <2>1, <2>3, <3>1, StoreSeries, ServesFits
  <2> QED BY <2>1, <2>2, <2>3, <2>4, <2>5, Answered
<1> QED BY <1>1, SidecarInvariant, PTL

-----------------------------------------------------------------------------
(* An archive is a tick file with its sidecars.                            *)

\* Every step of an archive is one of its symbol's tick file and sidecars, or
\* leaves them alone: what is proved above of these holds in an archive.
THEOREM ArchiveIsSidecar == ArchiveSpec => Spec
<1>1. ArchiveInit => Init
  BY DEF ArchiveInit
<1>2. ASSUME [ArchiveNext]_archive PROVE [Next]_vars
  <2>1. CASE UNCHANGED archive
    BY <2>1 DEF archive, vars
  <2>2. ASSUME NEW s \in Stores, UnsyncSymbol(s) PROVE Next
    BY <2>2 DEF UnsyncSymbol, Next
  <2>3. ASSUME NEW s \in Stores, NEW end \in Ends, SyncSymbol(s, end) PROVE Next
    BY <2>3 DEF SyncSymbol, Next
  <2>4. CASE Scan \/ Write \/ Report \/ Abandon \/ \E t \in Times : Download(t)
    BY <2>4 DEF Next
  <2> QED BY <1>2, <2>1, <2>2, <2>3, <2>4 DEF ArchiveNext
<1> QED BY <1>1, <1>2, PTL DEF ArchiveSpec, Spec

\* The files beside them are never touched.
LEMMA BesideStays == ArchiveSpec => [](beside \in Archives)
<1>1. ArchiveInit => beside \in Archives
  BY DEF ArchiveInit
<1>2. beside \in Archives /\ [ArchiveNext]_archive => (beside \in Archives)'
  BY DEF ArchiveNext, archive
<1> QED BY <1>1, <1>2, PTL DEF ArchiveSpec

-----------------------------------------------------------------------------
(* More laws of RowsAt.                                                    *)

\* What stands at a position is taken.
LEMMA RowsAtTaken ==
  ASSUME NEW S, NEW rows \in Seq(S), NEW P, NEW i \in 1..Len(rows), i \in P
  PROVE  \E k \in 1..Len(RowsAt(rows, P)) : RowsAt(rows, P)[k] = rows[i]
<1> DEFINE Taken(s) == \A j \in 1..Len(s) : j \in P =>
                          \E k \in 1..Len(RowsAt(s, P)) : RowsAt(s, P)[k] = s[j]
           T == {s \in Seq(S) : Taken(s)}
<1>1. <<>> \in T
  <2>1. <<>> \in Seq(S) /\ Len(<<>>) = 0
    OBVIOUS
  <2> QED BY <2>1
<1>2. ASSUME NEW s \in Seq(S), NEW e \in S, s \in T
      PROVE  Append(s, e) \in T
  <2> DEFINE n == Len(s)
             old == RowsAt(s, P)
             more == Append(s, e)
             new == RowsAt(more, P)
  <2>1. /\ n \in Nat /\ more \in Seq(S) /\ Len(more) = n + 1 /\ more[n + 1] = e
        /\ \A j \in 1..n : more[j] = s[j]
    BY AppendProperties
  <2>2. old \in Seq(S) /\ Len(old) \in Nat
    BY RowsAtType
  <2>3. new = IF n + 1 \in P THEN Append(old, e) ELSE old
    BY RowsAtAppend
  <2>4. /\ Len(Append(old, e)) = Len(old) + 1 /\ Append(old, e)[Len(old) + 1] = e
        /\ \A k \in 1..Len(old) : Append(old, e)[k] = old[k]
    BY <2>2, AppendProperties
  <2>5. \A j \in 1..n : j \in P => \E k \in 1..Len(old) : old[k] = s[j]
    BY <1>2
  <2> HIDE DEF old, more, new
  <2>6. Len(old) <= Len(new) /\ \A k \in 1..Len(old) : k \in 1..Len(new) /\ new[k] = old[k]
    BY <2>2, <2>3, <2>4
  <2>7. ASSUME NEW j \in 1..Len(more), j \in P
        PROVE  \E k \in 1..Len(new) : new[k] = more[j]
    <3>1. CASE j \in 1..n
      BY <2>1, <2>5, <2>6, <2>7, <3>1
    <3>2. CASE j = n + 1
      <4>1. new = Append(old, e)
        BY <2>3, <2>7, <3>2
      <4>2. Len(old) + 1 \in 1..Len(new) /\ new[Len(old) + 1] = e
        BY <2>2, <2>4, <4>1
      <4> QED BY <2>1, <3>2, <4>2
    <3> QED BY <2>1, <3>1, <3>2
  <2> QED BY <2>1, <2>7 DEF more, new
<1>3. Seq(S) \subseteq T
  <2> HIDE DEF T
  <2> QED BY <1>1, <1>2, SeqInduction
<1> QED BY <1>3

\* One position takes one row.
LEMMA RowsAtOne ==
  ASSUME NEW S, NEW rows \in Seq(S), NEW j \in 1..Len(rows)
  PROVE  RowsAt(rows, {j}) = <<rows[j]>>
<1> DEFINE One(s) == RowsAt(s, {j}) = IF j <= Len(s) THEN <<s[j]>> ELSE <<>>
           T == {s \in Seq(S) : One(s)}
<1>1. <<>> \in T
  <2>1. <<>> \in Seq(S) /\ Len(<<>>) = 0 /\ ~(j <= 0)
    OBVIOUS
  <2> QED BY <2>1, RowsAtEmpty
<1>2. ASSUME NEW s \in Seq(S), NEW e \in S, s \in T
      PROVE  Append(s, e) \in T
  <2> DEFINE n == Len(s)
             old == RowsAt(s, {j})
             more == Append(s, e)
             new == RowsAt(more, {j})
  <2>1. /\ n \in Nat /\ more \in Seq(S) /\ Len(more) = n + 1 /\ more[n + 1] = e
        /\ \A i \in 1..n : more[i] = s[i]
    BY AppendProperties
  <2>2. new = IF n + 1 \in {j} THEN Append(old, e) ELSE old
    BY RowsAtAppend
  <2>3. old = IF j <= n THEN <<s[j]>> ELSE <<>>
    BY <1>2
  <2> HIDE DEF old, more, new
  <2>4. new = IF j <= n + 1 THEN <<more[j]>> ELSE <<>>
    <3>1. CASE j <= n
      <4>1. new = old /\ j \in 1..n
        BY <2>1, <2>2, <3>1
      <4> QED BY <2>1, <2>3, <3>1, <4>1
    <3>2. CASE j = n + 1
      <4>1. new = Append(old, e) /\ old = <<>>
        BY <2>1, <2>2, <2>3, <3>2
      <4>2. Append(<<>>, e) = <<e>>
        OBVIOUS
      <4> QED BY <2>1, <3>2, <4>1, <4>2
    <3>3. CASE ~(j <= n + 1)
      BY <2>1, <2>2, <2>3, <3>3
    <3> QED BY <2>1, <3>1, <3>2, <3>3
  <2> QED BY <2>1, <2>4 DEF more, new
<1>3. Seq(S) \subseteq T
  <2> HIDE DEF T
  <2> QED BY <1>1, <1>2, SeqInduction
<1>4. j <= Len(rows)
  OBVIOUS
<1> QED BY <1>3, <1>4

\* Two sorts of positions share the rows out.
LEMMA RowsAtParts ==
  ASSUME NEW S, NEW rows \in Seq(S), NEW P, NEW Q,
         \A i \in 1..Len(rows) : i \in P <=> i \notin Q
  PROVE  Len(RowsAt(rows, P)) + Len(RowsAt(rows, Q)) = Len(rows)
<1> DEFINE Apart(s) == \A i \in 1..Len(s) : i \in P <=> i \notin Q
           Shared(s) == Len(RowsAt(s, P)) + Len(RowsAt(s, Q)) = Len(s)
           T == {s \in Seq(S) : Apart(s) => Shared(s)}
<1>1. <<>> \in T
  <2>1. <<>> \in Seq(S) /\ Len(<<>>) = 0
    OBVIOUS
  <2> QED BY <2>1, RowsAtEmpty
<1>2. ASSUME NEW s \in Seq(S), NEW e \in S, s \in T
      PROVE  Append(s, e) \in T
  <2> DEFINE n == Len(s)
             p == RowsAt(s, P)
             q == RowsAt(s, Q)
             more == Append(s, e)
             pm == RowsAt(more, P)
             qm == RowsAt(more, Q)
  <2>1. n \in Nat /\ more \in Seq(S) /\ Len(more) = n + 1
    BY AppendProperties
  <2>2. /\ p \in Seq(S) /\ q \in Seq(S) /\ Len(p) \in Nat /\ Len(q) \in Nat
        /\ Len(Append(p, e)) = Len(p) + 1 /\ Len(Append(q, e)) = Len(q) + 1
    <3>1. p \in Seq(S) /\ q \in Seq(S)
      BY RowsAtType
    <3> HIDE DEF p, q
    <3> QED BY <3>1, AppendProperties, LenProperties
  <2>3. /\ pm = IF n + 1 \in P THEN Append(p, e) ELSE p
        /\ qm = IF n + 1 \in Q THEN Append(q, e) ELSE q
    BY RowsAtAppend
  <2>4. Apart(s) => Len(p) + Len(q) = n
    BY <1>2
  <2> HIDE DEF p, q, pm, qm, more
  <2>5. ASSUME Apart(more) PROVE Len(pm) + Len(qm) = n + 1
    <3>1. Apart(s) /\ (n + 1 \in P <=> n + 1 \notin Q)
      BY <2>1, <2>5
    <3>2. Len(p) + Len(q) = n
      BY <2>4, <3>1
    <3>3. \/ Len(pm) = Len(p) + 1 /\ Len(qm) = Len(q)
          \/ Len(pm) = Len(p) /\ Len(qm) = Len(q) + 1
      BY <2>2, <2>3, <3>1
    <3>4. \A a, b \in Nat : (a + 1) + b = (a + b) + 1 /\ a + (b + 1) = (a + b) + 1
      OBVIOUS
    <3>5. Len(pm) + Len(qm) = (Len(p) + Len(q)) + 1
      BY <2>2, <3>3, <3>4, Zenon
    <3> QED BY <3>2, <3>5
  <2> QED BY <2>1, <2>5 DEF more, pm, qm
<1>3. Seq(S) \subseteq T
  <2> HIDE DEF T
  <2> QED BY <1>1, <1>2, SeqInduction
<1> QED BY <1>3

-----------------------------------------------------------------------------
(* Least numbers, and sequences of sequences.                              *)

LEMMA MinIs ==
  ASSUME NEW S, S \subseteq Nat, S # {}
  PROVE  Min(S) \in S /\ \A n \in S : Min(S) <= n
<1>1. \E m \in S : \A n \in S : m <= n
  BY LeastElement
<1> QED BY <1>1 DEF Min

\* One after another, sequences of one element are the sequence of these.
LEMMA FlattenOnes ==
  ASSUME NEW S, NEW s \in Seq(S), NEW seqs, seqs = [i \in 1..Len(s) |-> <<s[i]>>]
  PROVE  FlattenSeq(seqs) = s
<1> DEFINE N == Len(s)
           IsFlat(h) == h = [i \in 1..Len(seqs) |->
                                IF i = 1 THEN seqs[i] ELSE h[i - 1] \o seqs[i]]
           f == [i \in 1..N |-> SubSeq(s, 1, i)]
<1>1. N \in Nat /\ Len(seqs) = N /\ \A i \in 1..N : s[i] \in S /\ seqs[i] = <<s[i]>>
  OBVIOUS
<1>2. CASE N = 0
  <2>1. s = <<>> /\ seqs = <<>>
    BY <1>1, <1>2
  <2>2. FlattenSeq(<<>>) = <<>>
    BY DEF FlattenSeq
  <2> QED BY <2>1, <2>2
<1>3. CASE N # 0
  <2>1. \A i \in 1..N : i # 1 => i - 1 \in 1..N
    BY <1>1
  <2>2. SubSeq(s, 1, 1) = <<s[1]>>
    <3>1. 1 \in 1..N
      BY <1>1, <1>3
    <3>2. SubSeq(s, 1, 1) \in Seq(S) /\ Len(SubSeq(s, 1, 1)) = 1 /\ SubSeq(s, 1, 1)[1] = s[1]
      BY <1>1, <3>1
    <3>3. <<s[1]>> \in Seq(S) /\ Len(<<s[1]>>) = 1 /\ <<s[1]>>[1] = s[1]
      BY <1>1, <3>1
    <3> DEFINE a == SubSeq(s, 1, 1)
               b == <<s[1]>>
    <3> HIDE DEF a, b
    <3>4. a \in Seq(S) /\ b \in Seq(S) /\ Len(a) = Len(b) /\ \A i \in 1..Len(a) : a[i] = b[i]
      BY <3>2, <3>3 DEF a, b
    <3>5. a = b
      BY <3>4, SeqEqual
    <3> QED BY <3>5 DEF a, b
  <2>3. ASSUME NEW i \in 1..N, i # 1
        PROVE  SubSeq(s, 1, i) = SubSeq(s, 1, i - 1) \o <<s[i]>>
    <3>1. SubSeq(s, 1, i - 1) \in Seq(S)
      BY <2>1, <2>3, SubSeqProperties
    <3> QED BY <2>3, SubSeqRecursiveSecond
  <2>4. \A i \in 1..N : f[i] = IF i = 1 THEN seqs[i] ELSE f[i - 1] \o seqs[i]
    BY <1>1, <2>1, <2>2, <2>3
  <2>5. IsFlat(f)
    <3> HIDE DEF N
    <3>1. f = [i \in 1..N |-> f[i]]
      OBVIOUS
    <3> HIDE DEF f
    <3> QED BY <1>1, <2>4, <3>1
  <2> DEFINE g == CHOOSE h : IsFlat(h)
  <2>6. IsFlat(g)
    <3> HIDE DEF IsFlat, f
    <3> QED BY <2>5
  <2>7. FlattenSeq(seqs) = g[N]
    BY <1>1, <1>3 DEF FlattenSeq
  <2> HIDE DEF g, f
  <2>8. \A i \in 1..N : g[i] = IF i = 1 THEN seqs[i] ELSE g[i - 1] \o seqs[i]
    <3> HIDE DEF N
    <3> QED BY <1>1, <2>6, Zenon
  <2> DEFINE R == {i \in 0..N : i # 0 => g[i] = SubSeq(s, 1, i)}
  <2>9. 0 \in R /\ \A i \in 1..N : i - 1 \in R => i \in R
    <3>1. 0 \in R
      BY <1>1
    <3>2. ASSUME NEW i \in 1..N, i - 1 \in R PROVE i \in R
      <4>1. CASE i = 1
        BY <1>1, <2>2, <2>8, <4>1
      <4>2. CASE i # 1
        <5>1. g[i - 1] = SubSeq(s, 1, i - 1)
          BY <3>2, <4>2
        <5>2. g[i] = g[i - 1] \o seqs[i] /\ seqs[i] = <<s[i]>>
          BY <1>1, <2>8, <4>2
        <5>3. SubSeq(s, 1, i) = SubSeq(s, 1, i - 1) \o <<s[i]>>
          BY <2>3, <4>2
        <5>4. g[i] = SubSeq(s, 1, i)
          BY <5>1, <5>2, <5>3, Zenon
        <5>5. i \in 0..N
          BY <1>1
        <5> QED BY <5>4, <5>5
      <4> QED BY <4>1, <4>2
    <3> QED BY <3>1, <3>2
  <2>10. N \in R
    <3>1. N \in 0..N
      BY <1>1
    <3> HIDE DEF R, N
    <3>2. N \in Nat
      BY <1>1
    <3>3. 0..N \subseteq R
      BY <2>9, <3>2, Induction
    <3> QED BY <3>1, <3>3
  <2> QED BY <1>3, <2>7, <2>10, SubSeqFull
<1> QED BY <1>2, <1>3

\* A single sequence stays.
LEMMA FlattenOne ==
  ASSUME NEW r
  PROVE  FlattenSeq(<<r>>) = r
<1> DEFINE seqs == <<r>>
           IsFlat(h) == h = [i \in 1..Len(seqs) |->
                                IF i = 1 THEN seqs[i] ELSE h[i - 1] \o seqs[i]]
           f == [i \in 1..1 |-> r]
           g == CHOOSE h : IsFlat(h)
<1>1. Len(seqs) = 1 /\ seqs[1] = r
  OBVIOUS
<1>2. IsFlat(f)
  <2>1. \A i \in 1..1 : i = 1
    OBVIOUS
  <2> HIDE DEF seqs
  <2>2. \A i \in 1..1 : f[i] = IF i = 1 THEN seqs[i] ELSE f[i - 1] \o seqs[i]
    BY <1>1, <2>1
  <2>3. f = [i \in 1..1 |-> f[i]]
    OBVIOUS
  <2> HIDE DEF f
  <2> QED BY <1>1, <2>2, <2>3
<1>3. IsFlat(g)
  <2> HIDE DEF IsFlat, f
  <2> QED BY <1>2
<1>4. FlattenSeq(seqs) = g[1]
  <2>1. ~(1 = 0)
    OBVIOUS
  <2> HIDE DEF seqs
  <2> QED BY <1>1, <2>1 DEF FlattenSeq
<1>5. g[1] = r
  <2>1. 1 \in 1..1
    OBVIOUS
  <2> HIDE DEF g, seqs
  <2> QED BY <1>1, <1>3, <2>1
<1> QED BY <1>4, <1>5

-----------------------------------------------------------------------------
(* What is selected are files.                                             *)

AnyRow == [time: Int, ticks: Seq(Int)]

LEMMA RowsAreFileRows == Seq(Row) \subseteq Seq(AnyRow) /\ Seq(Bar) \subseteq Seq(AnyRow)
<1>1. Places \subseteq Int
  BY SidecarAssumption DEF Places
<1>2. Seq(Places) \subseteq Seq(Int)
  BY <1>1, SeqMonotonic
<1>3. Row \subseteq AnyRow
  BY <1>2 DEF Row, RowOf, AnyRow
<1>4. Bar \subseteq AnyRow
  BY <1>2 DEF Bar, AnyRow, Places
<1> QED BY <1>3, <1>4, SeqMonotonic

LEMMA OwnType ==
  ASSUME TypeInv
  PROVE  Own \in File
<1>1. Rows(source) \in Seq(Row)
  BY RowsType DEF TypeInv
<1>2. Rows(source) \in Seq(AnyRow)
  BY <1>1, RowsAreFileRows
<1> QED BY <1>2, ArchiveAssumption DEF Own, File, AnyRow

LEMMA SideType ==
  ASSUME TypeInv, NEW s \in Stores
  PROVE  Side(s) \in File
<1>1. sidecar[s] \in Seq(Bar)
  BY DEF TypeInv
<1>2. sidecar[s] \in Seq(AnyRow)
  BY <1>1, RowsAreFileRows
<1> QED BY <1>2, ArchiveAssumption DEF Side, File, AnyRow

LEMMA SideFilesType ==
  ASSUME TypeInv
  PROVE  SideFiles \in Seq(File)
<1> DEFINE order == Order([width |-> Day, session |-> "rth"])
           T == {order[i] : i \in 1..(2 * Len(Candidates))}
           P == {i \in DOMAIN order : order[i] \in Stores /\ sidecar[order[i]] # <<>>}
           stored == RowsAt(order, P)
<1>1. order \in Seq(T) /\ DOMAIN order = 1..Len(order)
  <2>1. 2 * Len(Candidates) \in Nat
    BY SidecarAssumption
  <2>2. order = [i \in 1..(2 * Len(Candidates)) |-> order[i]]
    BY DEF Order
  <2>3. DOMAIN order = 1..(2 * Len(Candidates))
    BY <2>2
  <2> HIDE DEF order
  <2>4. order \in Seq(T)
    BY <2>1, <2>2
  <2> QED BY <2>4, LenProperties
<1>2. stored \in Seq(T)
  <2> HIDE DEF order, T, P
  <2> QED BY <1>1, RowsAtType
<1>3. \A k \in 1..Len(stored) : stored[k] \in Stores
  <2>1. \A k \in 1..Len(stored) : \E i \in 1..Len(order) : i \in P /\ stored[k] = order[i]
    <3> HIDE DEF order, T, P
    <3> QED BY <1>1, RowsAtElements
  <2> QED BY <2>1
<1>4. SideFiles = [k \in DOMAIN stored |-> Side(stored[k])]
  BY DEF SideFiles
<1> HIDE DEF stored
<1>5. DOMAIN stored = 1..Len(stored) /\ Len(stored) \in Nat
  BY <1>2, LenProperties
<1>6. \A k \in 1..Len(stored) : Side(stored[k]) \in File
  BY <1>3, SideType
<1> QED BY <1>4, <1>5, <1>6

LEMMA SelectionType ==
  ASSUME TypeInv, beside \in Archives, NEW files \in Selections
  PROVE  files \in Seq(File) /\ files # <<>>
<1>1. beside.first \in Seq(File) /\ beside.last \in Seq(File)
  BY ArchiveAssumption
<1>2. Own \in File /\ SideFiles \in Seq(File) /\ <<Own>> \in Seq(File)
  BY OwnType, SideFilesType
<1>3. Listing \in Seq(File)
  <2>1. beside.first \o SideFiles \in Seq(File)
    BY <1>1, <1>2, ConcatProperties
  <2>2. (beside.first \o SideFiles) \o <<Own>> \in Seq(File)
    BY <1>2, <2>1, ConcatProperties
  <2>3. ((beside.first \o SideFiles) \o <<Own>>) \o beside.last \in Seq(File)
    BY <1>1, <2>2, ConcatProperties
  <2> QED BY <2>3 DEF Listing
<1>4. CASE \E n \in 1..Len(Listing) : files = SubSeq(Listing, 1, n)
  <2>1. PICK n \in 1..Len(Listing) : files = SubSeq(Listing, 1, n)
    BY <1>4
  <2>2. files \in Seq(File) /\ Len(files) = n /\ n # 0
    <3>1. \A i \in 1..n : Listing[i] \in File
      BY <1>3
    <3> QED BY <1>3, <2>1, <3>1, SubSeqProperties
  <2>3. Len(<<>>) = 0
    OBVIOUS
  <2> QED BY <2>2, <2>3, Zenon
<1>5. CASE \E f \in File : files = <<f>>
  BY <1>5
<1>6. CASE \E f \in File : files = <<Own, f>>
  BY <1>2, <1>6
<1>7. ToSet(Listing) \subseteq File /\ ToSet(SideFiles) \subseteq File
  BY <1>2, <1>3 DEF ToSet
<1> QED BY <1>4, <1>5, <1>6, <1>7 DEF Selections
-----------------------------------------------------------------------------
(* What a selection holds of one symbol.                                   *)

LEMMA RowsAtSet ==
  ASSUME NEW S, NEW rows \in Seq(S), NEW P
  PROVE  \A e : e \in ToSet(RowsAt(rows, P)) <=> \E i \in 1..Len(rows) : i \in P /\ e = rows[i]
<1> DEFINE taken == RowsAt(rows, P)
<1>1. taken \in Seq(S) /\ DOMAIN taken = 1..Len(taken)
  BY RowsAtType, LenProperties
<1>2. \A k \in 1..Len(taken) : \E i \in 1..Len(rows) : i \in P /\ taken[k] = rows[i]
  BY RowsAtElements
<1>3. \A i \in 1..Len(rows) : i \in P => \E k \in 1..Len(taken) : taken[k] = rows[i]
  BY RowsAtTaken
<1> HIDE DEF taken
<1>4. \A e : e \in ToSet(taken) <=> \E k \in 1..Len(taken) : e = taken[k]
  BY <1>1 DEF ToSet
<1>5. ASSUME NEW e, e \in ToSet(taken)
      PROVE  \E i \in 1..Len(rows) : i \in P /\ e = rows[i]
  BY <1>2, <1>4, <1>5
<1>6. ASSUME NEW e, NEW i \in 1..Len(rows), i \in P, e = rows[i]
      PROVE  e \in ToSet(taken)
  <2>1. PICK k \in 1..Len(taken) : taken[k] = rows[i]
    BY <1>3, <1>6
  <2> QED BY <1>4, <1>6, <2>1
<1> QED BY <1>5, <1>6 DEF taken

LEMMA FileSet ==
  ASSUME NEW files \in Seq(File)
  PROVE  /\ DOMAIN files = 1..Len(files) /\ Len(files) \in Nat
         /\ ToSet(files) \subseteq File
         /\ \A f : f \in ToSet(files) <=> \E i \in 1..Len(files) : f = files[i]
         /\ files # <<>> <=> ToSet(files) # {}
<1>1. /\ DOMAIN files = 1..Len(files) /\ Len(files) \in Nat
      /\ \A i \in 1..Len(files) : files[i] \in File
  BY LenProperties, ElementOfSeq
<1>2. \A f : f \in ToSet(files) <=> \E i \in 1..Len(files) : f = files[i]
  BY <1>1 DEF ToSet
<1>3. files = <<>> <=> Len(files) = 0
  BY EmptySeq
<1>4. ToSet(files) # {} <=> Len(files) # 0
  <2>1. ASSUME Len(files) # 0 PROVE 1 \in 1..Len(files)
    BY <1>1, <2>1
  <2>2. ASSUME NEW i \in 1..Len(files) PROVE Len(files) # 0
    BY <1>1
  <2> QED BY <1>2, <2>1, <2>2
<1> QED BY <1>1, <1>2, <1>3, <1>4

LEMMA FilesOfIs ==
  ASSUME NEW files \in Seq(File), NEW s
  PROVE  /\ FilesOf(files, s) \in Seq(File)
         /\ ToSet(FilesOf(files, s)) = {f \in ToSet(files) : f.symbol = s}
<1> DEFINE P == {i \in DOMAIN files : files[i].symbol = s}
           of == RowsAt(files, P)
<1>1. of \in Seq(File)
  <2> HIDE DEF P
  <2> QED BY RowsAtType
<1>2. \A f : f \in ToSet(of) <=> \E i \in 1..Len(files) : i \in P /\ f = files[i]
  <2> HIDE DEF P
  <2> QED BY RowsAtSet
<1>3. \A i \in 1..Len(files) : i \in P <=> files[i].symbol = s
  BY FileSet
<1> HIDE DEF P, of
<1>4. \A f : f \in ToSet(of) <=> f \in ToSet(files) /\ f.symbol = s
  BY <1>2, <1>3, FileSet
<1>5. ToSet(of) = {f \in ToSet(files) : f.symbol = s}
  BY <1>4
<1> QED BY <1>1, <1>5 DEF of, P, FilesOf

\* A part that is all of one symbol is its own part.
LEMMA FilesOfAll ==
  ASSUME NEW files \in Seq(File), NEW s, \A f \in ToSet(files) : f.symbol = s
  PROVE  FilesOf(files, s) = files
<1>1. 1..Len(files) \subseteq {i \in DOMAIN files : files[i].symbol = s}
  BY FileSet
<1> QED BY <1>1, RowsAtAll DEF FilesOf

LEMMA ReadableIs ==
  ASSUME NEW files \in Seq(File)
  PROVE  /\ Readable(files) \in Seq(File)
         /\ ToSet(Readable(files)) = {f \in ToSet(files) : f.kind # "unreadable"}
         /\ (\A f \in ToSet(files) : f.kind # "unreadable") => Readable(files) = files
<1> DEFINE P == {i \in DOMAIN files : files[i].kind # "unreadable"}
           some == RowsAt(files, P)
<1>1. some \in Seq(File)
  <2> HIDE DEF P
  <2> QED BY RowsAtType
<1>2. \A f : f \in ToSet(some) <=> \E i \in 1..Len(files) : i \in P /\ f = files[i]
  <2> HIDE DEF P
  <2> QED BY RowsAtSet
<1>3. \A i \in 1..Len(files) : i \in P <=> files[i].kind # "unreadable"
  BY FileSet
<1>4. ASSUME \A f \in ToSet(files) : f.kind # "unreadable"
      PROVE  some = files
  <2> HIDE DEF P
  <2>1. 1..Len(files) \subseteq P
    BY <1>3, <1>4, FileSet
  <2> QED BY <2>1, RowsAtAll
<1> HIDE DEF P, some
<1>5. \A f : f \in ToSet(some) <=> f \in ToSet(files) /\ f.kind # "unreadable"
  BY <1>2, <1>3, FileSet
<1>6. ToSet(some) = {f \in ToSet(files) : f.kind # "unreadable"}
  BY <1>5
<1> QED BY <1>1, <1>4, <1>6 DEF some, P, Readable

LEMMA SymbolsInIs ==
  ASSUME NEW files \in Seq(File)
  PROVE  /\ SymbolsIn(files) \in Seq(ToSet(Symbols))
         /\ \A s : s \in ToSet(SymbolsIn(files)) => \E f \in ToSet(files) : f.symbol = s
<1> DEFINE P == {i \in DOMAIN Symbols : \E f \in ToSet(files) : f.symbol = Symbols[i]}
           some == RowsAt(Symbols, P)
<1>1. some \in Seq(ToSet(Symbols))
  <2> HIDE DEF P
  <2> QED BY RowsAtType, ArchiveAssumption
<1>2. \A s : s \in ToSet(some) <=> \E i \in 1..Len(Symbols) : i \in P /\ s = Symbols[i]
  <2> HIDE DEF P
  <2> QED BY RowsAtSet, ArchiveAssumption
<1> HIDE DEF some
<1>3. \A s : s \in ToSet(some) => \E f \in ToSet(files) : f.symbol = s
  BY <1>2
<1> QED BY <1>1, <1>3 DEF some, SymbolsIn

\* Of one symbol's files, it is the only symbol.
LEMMA SymbolsInOne ==
  ASSUME NEW files \in Seq(File), files # <<>>, NEW s, \A f \in ToSet(files) : f.symbol = s
  PROVE  SymbolsIn(files) = <<s>>
<1> DEFINE P == {i \in DOMAIN Symbols : \E f \in ToSet(files) : f.symbol = Symbols[i]}
<1>1. DOMAIN Symbols = 1..Len(Symbols)
  BY ArchiveAssumption, LenProperties
<1>2. PICK f \in ToSet(files) : f.symbol = s /\ f \in File
  BY FileSet
<1>3. s \in ToSet(Symbols)
  BY <1>2 DEF File
<1>4. PICK j \in 1..Len(Symbols) : Symbols[j] = s
  BY <1>1, <1>3 DEF ToSet
<1>5. \A i \in 1..Len(Symbols) : Symbols[i] = s => i = j
  BY <1>1, <1>4, ArchiveAssumption DEF IsInjective
<1>6. P = {j}
  BY <1>1, <1>2, <1>4, <1>5
<1>7. RowsAt(Symbols, {j}) = <<Symbols[j]>>
  BY ArchiveAssumption, RowsAtOne
<1> QED BY <1>4, <1>6, <1>7 DEF SymbolsIn
-----------------------------------------------------------------------------
(* What the commands and the tools answer.                                 *)

Line(symbol, files, want) == [symbol |-> symbol, bars |-> Streamed(files, want)]

\* bars answers for the symbols before the first it cannot stream.
IsAnswer(answer, found, asked, want) ==
    /\ answer.ok <=> \A i \in 1..Len(asked) : Streamable(FilesOf(found, asked[i]))
    /\ \E done \in 0..Len(asked) :
          /\ answer.rows = [i \in 1..done |-> Line(asked[i], FilesOf(found, asked[i]), want)]
          /\ \A i \in 1..done : Streamable(FilesOf(found, asked[i]))
          /\ answer.ok => done = Len(asked)

LEMMA BarsCommandIs ==
  ASSUME NEW files \in Seq(File), NEW want
  PROVE  IsAnswer(BarsCommand(files, want), Readable(files), SymbolsIn(Readable(files)), want)
<1> DEFINE found == Readable(files)
           asked == SymbolsIn(found)
           Serve(i) == Streamable(FilesOf(found, asked[i]))
           parts == [i \in DOMAIN asked |-> FilesOf(found, asked[i])]
           failed == {i \in DOMAIN asked : ~Streamable(parts[i])}
           done == Min({Len(asked) + 1} \cup failed) - 1
           rows == [i \in 1..done |-> [symbol |-> asked[i], bars |-> Streamed(parts[i], want)]]
           answer == BarsCommand(files, want)
<1>1. DOMAIN asked = 1..Len(asked) /\ Len(asked) \in Nat
  BY ReadableIs, SymbolsInIs, LenProperties
<1>2. answer = [ok |-> failed = {}, rows |-> rows]
  BY DEF BarsCommand
<1> HIDE DEF found, asked
<1>3. \A i \in 1..Len(asked) : parts[i] = FilesOf(found, asked[i])
  BY <1>1
<1> HIDE DEF parts
<1>4. \A i : i \in failed <=> i \in 1..Len(asked) /\ ~Serve(i)
  BY <1>1, <1>3
<1>5. failed = {} <=> \A i \in 1..Len(asked) : Serve(i)
  BY <1>4
<1> DEFINE ends == {Len(asked) + 1} \cup failed
<1>6. ends \subseteq Nat /\ Len(asked) + 1 \in ends /\ ends # {}
  BY <1>1
<1>7. failed = {} => ends = {Len(asked) + 1}
  OBVIOUS
<1> HIDE DEF failed
<1>8. failed \subseteq ends
  OBVIOUS
<1> HIDE DEF ends
<1>9. Min(ends) \in ends /\ \A n \in ends : Min(ends) <= n
  BY <1>6, MinIs
<1>10. \A i \in failed : i \in 1..Len(asked)
  BY <1>4
<1>11. done = Min(ends) - 1
  BY DEF ends
<1>12. Min(ends) \in Nat /\ Min(ends) # 0
  BY <1>1, <1>6, <1>9, <1>10 DEF ends
<1> HIDE DEF done
<1>13. done \in 0..Len(asked)
  BY <1>1, <1>6, <1>9, <1>11, <1>12
<1>14. ASSUME NEW i \in 1..done PROVE i \in 1..Len(asked) /\ Serve(i)
  <2>1. i \in 1..Len(asked) /\ i < Min(ends)
    BY <1>1, <1>11, <1>12, <1>13
  <2>2. i \notin failed
    BY <1>8, <1>9, <1>12, <2>1
  <2> QED BY <1>4, <2>1, <2>2
<1>15. failed = {} => done = Len(asked)
  BY <1>1, <1>7, <1>9, <1>11
<1>16. rows = [i \in 1..done |-> Line(asked[i], FilesOf(found, asked[i]), want)]
  BY <1>3, <1>14 DEF Line
<1> HIDE DEF rows, answer
<1>17. answer.ok = (failed = {}) /\ answer.rows = rows
  BY <1>2
<1>18. IsAnswer(answer, found, asked, want)
  BY <1>5, <1>13, <1>14, <1>15, <1>16, <1>17 DEF IsAnswer
<1> QED BY <1>18 DEF answer, found, asked

\* Asked for one symbol that it can stream, it answers for that.
LEMMA Alone ==
  ASSUME NEW files \in Seq(File), files # <<>>, NEW s, NEW want,
         \A f \in ToSet(files) : f.symbol = s /\ f.kind # "unreadable", Streamable(files)
  PROVE  BarsCommand(files, want).rows = <<Line(s, files, want)>>
<1>1. Readable(files) = files /\ SymbolsIn(files) = <<s>> /\ FilesOf(files, s) = files
  BY ReadableIs, SymbolsInOne, FilesOfAll
<1>2. Len(<<s>>) = 1 /\ <<s>>[1] = s /\ \A i \in 1..1 : i = 1
  OBVIOUS
<1> DEFINE one == <<s>>
           answer == BarsCommand(files, want)
<1> HIDE DEF one, answer
<1>3. IsAnswer(answer, files, one, want)
  BY <1>1, BarsCommandIs DEF answer, one
<1>4. Len(one) = 1 /\ one[1] = s
  BY <1>2 DEF one
<1>5. answer.ok
  BY <1>1, <1>2, <1>3, <1>4 DEF IsAnswer
<1>6. answer.rows = [i \in 1..1 |-> Line(one[i], FilesOf(files, one[i]), want)]
  BY <1>3, <1>4, <1>5 DEF IsAnswer
<1>7. answer.rows = [i \in 1..1 |-> Line(s, files, want)]
  BY <1>1, <1>2, <1>4, <1>6
<1>8. \A e : [i \in 1..1 |-> e] = <<e>>
  OBVIOUS
<1> QED BY <1>7, <1>8 DEF answer

\* mdfwob_bars is bars of every symbol by itself, or an error that bars of the
\* readable files makes as well.
ToolAnswers(files, want) ==
    LET tool == ToolBars(files, want)
        asked == SymbolsIn(files)
        alone == [i \in DOMAIN asked |-> BarsCommand(FilesOf(files, asked[i]), want)]
    IN  /\ tool.ok =>
              /\ tool.rows = FlattenSeq([i \in DOMAIN asked |-> alone[i].rows])
              /\ [i \in DOMAIN tool.rows |-> tool.rows[i].symbol] = asked
        /\ ~tool.ok => \/ \E f \in ToSet(files) : f.kind = "unreadable"
                       \/ ~BarsCommand(files, want).ok

LEMMA ToolBarsIs ==
  ASSUME NEW files \in Seq(File), NEW want
  PROVE  ToolAnswers(files, want)
<1> DEFINE asked == SymbolsIn(files)
           unread == \E f \in ToSet(files) : f.kind = "unreadable"
           Part(i) == FilesOf(files, asked[i])
           alone == [i \in DOMAIN asked |-> BarsCommand(Part(i), want)]
           lines == [i \in DOMAIN asked |-> Line(asked[i], Part(i), want)]
           tool == ToolBars(files, want)
<1>1. /\ DOMAIN asked = 1..Len(asked) /\ Len(asked) \in Nat
      /\ \A i \in 1..Len(asked) : asked[i] \in ToSet(asked)
      /\ \A s \in ToSet(asked) : \E i \in 1..Len(asked) : s = asked[i]
  <2>1. asked \in Seq(ToSet(Symbols))
    BY SymbolsInIs
  <2> HIDE DEF asked
  <2>2. DOMAIN asked = 1..Len(asked) /\ Len(asked) \in Nat
    BY <2>1, LenProperties
  <2> QED BY <2>2 DEF ToSet
<1>2. ASSUME NEW i \in 1..Len(asked) PROVE Part(i) \in Seq(File) /\ Part(i) # <<>>
  <2>1. PICK f \in ToSet(files) : f.symbol = asked[i]
    BY <1>1, SymbolsInIs
  <2>2. f \in ToSet(Part(i))
    BY <2>1, FilesOfIs
  <2> QED BY <2>2, FilesOfIs, FileSet
<1>3. tool = [ok |-> ~(unread \/ \E s \in ToSet(asked) : ~Streamable(FilesOf(files, s))),
              rows |-> IF unread \/ \E s \in ToSet(asked) : ~Streamable(FilesOf(files, s))
                       THEN <<>> ELSE lines]
  BY DEF ToolBars, Line
<1> HIDE DEF tool, asked
<1>4. ASSUME tool.ok
      PROVE  /\ tool.rows = FlattenSeq([i \in DOMAIN asked |-> alone[i].rows])
             /\ [i \in DOMAIN tool.rows |-> tool.rows[i].symbol] = asked
  <2>1. /\ tool.rows = lines
        /\ ~unread
        /\ \A i \in 1..Len(asked) : Streamable(Part(i))
    BY <1>1, <1>3, <1>4
  <2>2. ASSUME NEW i \in 1..Len(asked)
        PROVE  BarsCommand(Part(i), want).rows = <<Line(asked[i], Part(i), want)>>
    <3>1. \A f \in ToSet(Part(i)) : f.symbol = asked[i] /\ f.kind # "unreadable"
      BY <2>1, FilesOfIs
    <3> DEFINE part == Part(i)
               s == asked[i]
    <3>2. part \in Seq(File) /\ part # <<>> /\ Streamable(part)
      BY <1>2, <2>1
    <3>3. \A f \in ToSet(part) : f.symbol = s /\ f.kind # "unreadable"
      BY <3>1
    <3> HIDE DEF part, s
    <3>4. BarsCommand(part, want).rows = <<Line(s, part, want)>>
      BY <3>2, <3>3, Alone
    <3> QED BY <3>4 DEF part, s
  <2> DEFINE S == {lines[i] : i \in 1..Len(asked)}
             seqs == [i \in DOMAIN asked |-> alone[i].rows]
  <2>3. lines \in Seq(S) /\ Len(lines) = Len(asked) /\ DOMAIN lines = 1..Len(asked)
    <3>1. lines = [i \in 1..Len(asked) |-> lines[i]]
      BY <1>1
    <3>2. DOMAIN lines = 1..Len(asked)
      BY <1>1
    <3> HIDE DEF lines
    <3>3. lines \in [1..Len(asked) -> S]
      BY <3>1
    <3>4. lines \in Seq(S)
      BY <1>1, <3>3
    <3> HIDE DEF S
    <3> QED BY <1>1, <3>2, <3>4, LenProperties
  <2>4. \A i \in 1..Len(asked) : lines[i] = Line(asked[i], Part(i), want)
    BY <1>1
  <2>5. \A i \in 1..Len(asked) : alone[i].rows = <<lines[i]>>
    BY <1>1, <2>2, <2>4
  <2> HIDE DEF lines, S, alone
  <2>6. seqs = [i \in 1..Len(lines) |-> <<lines[i]>>]
    BY <1>1, <2>3, <2>5
  <2> HIDE DEF seqs
  <2>7. FlattenSeq(seqs) = lines
    BY <2>3, <2>6, FlattenOnes
  <2>8. [i \in DOMAIN lines |-> lines[i].symbol] = asked
    <3>1. \A a, b : Line(a, b, want).symbol = a
      BY DEF Line
    <3>2. asked = [i \in 1..Len(asked) |-> asked[i]]
      BY SymbolsInIs, <1>1 DEF asked
    <3> HIDE DEF Part
    <3>3. \A i \in 1..Len(asked) : lines[i].symbol = asked[i]
      BY <2>4, <3>1
    <3> QED BY <2>3, <3>2, <3>3
  <2> QED BY <2>1, <2>7, <2>8 DEF seqs
<1>5. ASSUME ~tool.ok, ~unread PROVE ~BarsCommand(files, want).ok
  <2>1. Readable(files) = files
    BY <1>5, ReadableIs
  <2>2. IsAnswer(BarsCommand(files, want), files, asked, want)
    BY <2>1, BarsCommandIs DEF asked
  <2>3. PICK i \in 1..Len(asked) : ~Streamable(FilesOf(files, asked[i]))
    BY <1>1, <1>3, <1>5
  <2> QED BY <2>2, <2>3 DEF IsAnswer
<1> QED BY <1>4, <1>5 DEF ToolAnswers, tool, asked

-----------------------------------------------------------------------------
(* The files that are accepted.                                            *)

LEMMA ShapeKind ==
  ASSUME NEW f \in File
  PROVE  Shape(f) # "none" <=> f.kind \in {"tick", "bar"}
<1> DEFINE gaps == {f.rows[i + 1].time - f.rows[i].time : i \in 1..(Len(f.rows) - 1)}
<1>1. f.kind \in {"tick", "bar", "alien", "unreadable"}
  BY DEF File
<1>2. Shape(f) = CASE f.kind = "tick" -> "ticks"
                   [] f.kind = "bar" /\ gaps = {} -> "unknown"
                   [] f.kind = "bar" /\ gaps # {} -> IF Min(gaps) < Day THEN "subday" ELSE "coarse"
                   [] OTHER -> "none"
  BY DEF Shape
<1> HIDE DEF gaps
<1> QED BY <1>1, <1>2

LEMMA KnownIs ==
  ASSUME NEW files \in Seq(File)
  PROVE  /\ Known(files) \in Seq(File)
         /\ ToSet(Known(files)) = {f \in ToSet(files) : Shape(f) # "none"}
         /\ (\A f \in ToSet(files) : Shape(f) # "none") => Known(files) = files
<1> DEFINE P == {i \in DOMAIN files : Shape(files[i]) # "none"}
           some == RowsAt(files, P)
<1>1. some \in Seq(File)
  <2> HIDE DEF P
  <2> QED BY RowsAtType
<1>2. \A f : f \in ToSet(some) <=> \E i \in 1..Len(files) : i \in P /\ f = files[i]
  <2> HIDE DEF P
  <2> QED BY RowsAtSet
<1>3. \A i \in 1..Len(files) : i \in P <=> Shape(files[i]) # "none"
  BY FileSet
<1>4. ASSUME \A f \in ToSet(files) : Shape(f) # "none"
      PROVE  some = files
  <2> HIDE DEF P
  <2>1. 1..Len(files) \subseteq P
    BY <1>3, <1>4, FileSet
  <2> QED BY <2>1, RowsAtAll
<1> HIDE DEF P, some
<1>5. \A f : f \in ToSet(some) <=> f \in ToSet(files) /\ Shape(f) # "none"
  BY <1>2, <1>3, FileSet
<1>6. ToSet(some) = {f \in ToSet(files) : Shape(f) # "none"}
  BY <1>5
<1> QED BY <1>1, <1>4, <1>6 DEF some, P, Known

LEMMA KnownOne ==
  ASSUME NEW f \in File
  PROVE  Known(<<f>>) = IF Shape(f) # "none" THEN <<f>> ELSE <<>>
<1> DEFINE one == <<f>>
<1>1. one \in Seq(File) /\ ToSet(one) = {f}
  BY DEF ToSet
<1> HIDE DEF one
<1>2. CASE Shape(f) # "none"
  BY <1>1, <1>2, KnownIs DEF one
<1>3. CASE Shape(f) = "none"
  <2>1. ToSet(Known(one)) = {}
    BY <1>1, <1>3, KnownIs
  <2>2. Known(one) = <<>>
    BY <1>1, <2>1, KnownIs, FileSet
  <2> QED BY <1>3, <2>2 DEF one
<1> QED BY <1>2, <1>3

\* inspect and verify accept the same files, ticks and bars.
LEMMA AcceptedOne ==
  ASSUME NEW f \in File
  PROVE  /\ VerifyTool(<<f>>).ok <=> Shape(f) # "none"
         /\ InspectTool(<<f>>).ok = VerifyTool(<<f>>).ok
<1>1. Len(<<f>>) = 1 /\ <<f>>[1] = f /\ <<f>> # <<>>
  OBVIOUS
<1> DEFINE one == <<f>>
           known == Known(one)
<1>2. known = IF Shape(f) # "none" THEN one ELSE <<>>
  BY KnownOne
<1>3. VerifyTool(one) = VerifyCommand(f) /\ InspectTool(one) = InspectCommand(f)
  BY <1>1 DEF VerifyTool, InspectTool
<1>4. InspectCommand(f).ok = (known = one)
  BY DEF InspectCommand, AllOrNone
<1>5. VerifyCommand(f).ok = (f.kind # "unreadable" /\ known # <<>>)
  BY DEF VerifyCommand
<1>6. one # <<>>
  BY <1>1
<1> HIDE DEF known, one
<1>7. Shape(f) # "none" => f.kind # "unreadable"
  BY ShapeKind
<1>8. VerifyCommand(f).ok = (Shape(f) # "none")
  BY <1>2, <1>5, <1>6, <1>7
<1>9. InspectCommand(f).ok = (Shape(f) # "none")
  BY <1>2, <1>4, <1>6
<1> QED BY <1>3, <1>8, <1>9 DEF one

\* stat and ls answer for the files that verify accepts.
FilesAnswer(files) ==
    LET unread == \E f \in ToSet(files) : f.kind = "unreadable"
        accepted == RowsAt(files, {i \in DOMAIN files : VerifyTool(<<files[i]>>).ok})
    IN  /\ StatTool(files).ok => StatTool(files).rows = accepted /\ ~unread
        /\ StatTool(files) = LsTool(files)
        /\ StatCommand(files).rows = accepted
        /\ \A f \in ToSet(files) : InspectTool(<<f>>).ok = VerifyTool(<<f>>).ok
        /\ Len(LsCommand(files, {"tick"}).rows) + Len(LsCommand(files, {"bar"}).rows)
              = Len(accepted)

LEMMA FilesAnswerIs ==
  ASSUME NEW files \in Seq(File), files # <<>>
  PROVE  FilesAnswer(files)
<1> DEFINE accepted == RowsAt(files, {i \in DOMAIN files : VerifyTool(<<files[i]>>).ok})
           known == Known(files)
           unread == \E f \in ToSet(files) : f.kind = "unreadable"
           Kinds(kinds) == {i \in DOMAIN known : known[i].kind \in kinds}
<1>1. accepted = known
  <2>1. \A i \in DOMAIN files : files[i] \in File
    BY FileSet, ElementOfSeq
  <2>2. {i \in DOMAIN files : VerifyTool(<<files[i]>>).ok}
           = {i \in DOMAIN files : Shape(files[i]) # "none"}
    BY <2>1, AcceptedOne
  <2> QED BY <2>2 DEF Known
<1>2. known \in Seq(File) /\ \A f \in ToSet(known) : f.kind = "tick" \/ f.kind = "bar"
  <2>1. known \in Seq(File) /\ \A f \in ToSet(known) : Shape(f) # "none"
    BY KnownIs
  <2> HIDE DEF known
  <2>2. ToSet(known) \subseteq File
    BY <2>1, FileSet
  <2> QED BY <2>1, <2>2, ShapeKind
<1>3. \A i \in 1..Len(known) : i \in Kinds({"tick"}) <=> i \notin Kinds({"bar"})
  <2>1. \A i \in 1..Len(known) : known[i] \in ToSet(known) /\ i \in DOMAIN known
    BY <1>2, FileSet
  <2> QED BY <1>2, <2>1
<1>4. known = files => ~unread
  <2>1. ASSUME NEW f \in ToSet(files), known = files PROVE f.kind # "unreadable"
    BY <1>2, <2>1
  <2> QED BY <2>1
<1>5. Len(RowsAt(known, Kinds({"tick"}))) + Len(RowsAt(known, Kinds({"bar"}))) = Len(known)
  <2> DEFINE P == Kinds({"tick"})
             Q == Kinds({"bar"})
  <2> HIDE DEF P, Q, known
  <2>1. \A i \in 1..Len(known) : i \in P <=> i \notin Q
    BY <1>3 DEF P, Q
  <2>2. Len(RowsAt(known, P)) + Len(RowsAt(known, Q)) = Len(known)
    BY <1>2, <2>1, RowsAtParts
  <2> QED BY <2>2 DEF P, Q
<1>6. /\ LsCommand(files, {"tick"}).rows = RowsAt(known, Kinds({"tick"}))
      /\ LsCommand(files, {"bar"}).rows = RowsAt(known, Kinds({"bar"}))
  BY DEF LsCommand, Passing
<1>7. StatTool(files) = LsTool(files)
  BY DEF StatTool, LsTool
<1>8. /\ StatTool(files).ok = (known = files)
      /\ StatTool(files).rows = IF known = files THEN files ELSE <<>>
  BY DEF StatTool, AllOrNone
<1>9. StatCommand(files).rows = known
  BY DEF StatCommand, Passing
<1>10. \A f \in ToSet(files) : InspectTool(<<f>>).ok = VerifyTool(<<f>>).ok
  <2>1. ASSUME NEW f \in File PROVE InspectTool(<<f>>).ok = VerifyTool(<<f>>).ok
    BY AcceptedOne
  <2>2. ToSet(files) \subseteq File
    BY FileSet
  <2> QED BY <2>1, <2>2, Zenon
<1> HIDE DEF known, accepted, Kinds
<1>11. StatTool(files).ok => StatTool(files).rows = accepted /\ ~unread
  BY <1>1, <1>4, <1>8, Zenon
<1>12. Len(LsCommand(files, {"tick"}).rows) + Len(LsCommand(files, {"bar"}).rows)
          = Len(accepted)
  BY <1>1, <1>5, <1>6
<1>13. StatCommand(files).rows = accepted
  BY <1>1, <1>9
<1> QED BY <1>7, <1>10, <1>11, <1>12, <1>13 DEF FilesAnswer, accepted

\* Whatever lies in the directory, and whatever of it is selected, in the middle
\* of any sync: a tool that answers leaves nothing out, each entry is the
\* command's, and it refuses only what the command cannot answer either or what
\* holds a file that is no FWOB file.
THEOREM AnswersInFull == ArchiveSpec => []ToolsAnswerInFull
<1>1. TypeInv /\ beside \in Archives => ToolsAnswerInFull
  <2> SUFFICES ASSUME TypeInv, beside \in Archives, NEW files \in Selections
               PROVE  /\ \A want \in Requests : ToolAnswers(files, want)
                      /\ FilesAnswer(files)
    BY DEF ToolsAnswerInFull, ToolAnswers, FilesAnswer
  <2>1. files \in Seq(File) /\ files # <<>>
    BY SelectionType
  <2> QED BY <2>1, ToolBarsIs, FilesAnswerIs
<1>2. Init => TypeInv
  BY InitTyped
<1>3. TypeInv /\ [Next]_vars => TypeInv'
  BY NextTyped
<1>4. ArchiveSpec => [](beside \in Archives)
  BY BesideStays
<1>5. Spec => []TypeInv
  BY <1>2, <1>3, PTL DEF Spec
<1> QED BY <1>1, <1>4, <1>5, ArchiveIsSidecar, PTL
-----------------------------------------------------------------------------
(* Bars of any stored bars, however old.                                   *)

LEMMA GrowsPrefix ==
  ASSUME NEW T, NEW bars \in Seq(T), NEW later, GrowsTo(bars, later), NEW n \in 0..Len(bars)
  PROVE  GrowsTo(SubSeq(bars, 1, n), later)
<1>1. /\ Len(SubSeq(bars, 1, n)) = n
      /\ \A k \in 1..n : SubSeq(bars, 1, n)[k] = bars[k] /\ k \in 1..Len(bars)
  <2>1. \A k \in 1..n : bars[k] \in T /\ k \in 1..Len(bars)
    OBVIOUS
  <2> QED BY <2>1, SubSeqProperties
<1> DEFINE part == SubSeq(bars, 1, n)
<1> HIDE DEF part
<1>2. Len(part) = n /\ \A k \in 1..n : part[k] = bars[k] /\ k \in 1..Len(bars)
  BY <1>1 DEF part
<1>3. n \in Nat /\ n <= Len(bars) /\ Len(bars) \in Nat
  OBVIOUS
<1>4. n <= Len(later)
  BY <1>3 DEF GrowsTo
<1>5. GrowsTo(part, later)
  BY <1>2, <1>3, <1>4 DEF GrowsTo
<1> QED BY <1>5 DEF part

\* The request's bars of a store's first bars grow to those of all its bars.
LEMMA RereadGrows ==
  ASSUME NEW have \in Series, NEW want \in Series,
         NEW bars \in Seq(Row), NEW later \in Seq(Row), GrowsTo(bars, later)
  PROVE  GrowsTo(Resample(want.width, want.session, Reread(have, want, bars)),
                 Resample(want.width, want.session, Reread(have, want, later)))
<1> DEFINE v == want.width
           s == want.session
           Again(rows) == Resample(v, s, Reread(have, want, rows))
           now == Again(bars)
<1>1. v \in 1..Day /\ s \in Sessions
  BY SeriesType
<1>2. ASSUME NEW rows \in Seq(Row) PROVE Again(rows) \in Seq(Row)
  <2>1. Reread(have, want, rows) \in Seq(Row)
    BY RereadType
  <2> HIDE DEF v, s
  <2> QED BY <1>1, <2>1, ResampleType DEF Row
<1>3. CASE bars = <<>>
  <2>1. now = <<>>
    BY <1>1, <1>3, RereadEmpty, ResampleEmpty
  <2>2. Len(<<>>) = 0 /\ Len(Again(later)) \in Nat
    BY <1>2, LenProperties
  <2>3. 0 <= Len(Again(later))
    BY <2>2
  <2> HIDE DEF Again, now
  <2>4. GrowsTo(now, Again(later))
    BY <2>1, <2>2, <2>3 DEF GrowsTo
  <2> QED BY <2>4 DEF now, Again
<1>4. CASE bars # <<>>
  <2> DEFINE n == Len(bars)
             N == Len(later)
             Part(k) == SubSeq(later, 1, k)
             R == {k \in 0..N : k >= n => GrowsTo(now, Again(Part(k)))}
  <2>1. /\ n \in Nat /\ N \in Nat /\ n <= N /\ n # 0
        /\ \A k \in 1..N : later[k] \in Row
    BY <1>4, EmptySeq, LenProperties DEF GrowsTo
  <2>2. ASSUME NEW k \in 0..N
        PROVE  /\ Part(k) \in Seq(Row) /\ Len(Part(k)) = k
               /\ \A i \in 1..k : Part(k)[i] = later[i]
    <3>1. \A i \in 1..k : later[i] \in Row
      BY <2>1
    <3> QED BY <3>1, SubSeqProperties
  <2>3. GrowsTo(now, Again(Part(n)))
    <3> DEFINE part == Part(n)
    <3>1. part \in Seq(Row) /\ Len(part) = n /\ \A i \in 1..n : part[i] = later[i]
      BY <2>1, <2>2
    <3> HIDE DEF part
    <3>2. GrowsTo(bars, part)
      BY <3>1, <2>1 DEF GrowsTo
    <3>3. IsGrown(now, Again(part))
      BY <1>4, <3>1, <3>2, RereadGrown
    <3> QED BY <3>3 DEF IsGrown, part
  <2>4. ASSUME NEW k \in 1..N, k - 1 \in R PROVE k \in R
    <3>1. k \in 0..N /\ k - 1 \in 0..N
      BY <2>1
    <3>2. CASE k < n
      BY <2>1, <3>1, <3>2
    <3>3. CASE k = n
      BY <2>3, <3>1, <3>3
    <3>4. CASE k > n
      <4> DEFINE rows == Part(k - 1)
                 e == later[k]
                 read == Reread(have, want, rows)
      <4>1. Part(k) = Append(rows, e)
        BY <2>1, SubSeqRecursiveSecond
      <4>2. rows \in Seq(Row) /\ e \in Row
        BY <2>1, <2>2, <3>1
      <4>3. GrowsTo(now, Again(rows))
        BY <2>1, <2>4, <3>4
      <4>4. now \in Seq(Row) /\ Again(rows) \in Seq(Row)
        BY <1>2, <4>2
      <4> HIDE DEF rows, e
      <4>5. read \in Seq(Row)
        BY <4>2, RereadType
      <4>6. Reread(have, want, Append(rows, e)) =
               IF Through(have, want, e.time) THEN Append(read, e) ELSE read
        BY <4>2, RereadAppend
      <4> HIDE DEF read, v, s, now
      <4>7. Resample(v, s, Append(read, e)) = Push(v, s, Resample(v, s, read), e)
        BY <1>1, <4>2, <4>5, ResampleAppend DEF Row
      <4>8. Resample(v, s, read) = Again(rows)
        BY DEF read
      <4>9. GrowsTo(now, Push(v, s, Again(rows), e))
        <5> DEFINE old == Again(rows)
        <5> HIDE DEF old
        <5>1. old \in Seq(Row) /\ GrowsTo(now, old)
          BY <4>3, <4>4 DEF old
        <5>2. GrowsTo(now, Push(v, s, old, e))
          BY <1>1, <4>2, <4>4, <5>1, GrowsPush DEF Row
        <5> QED BY <5>2 DEF old
      <4>10. \/ Again(Append(rows, e)) = Push(v, s, Again(rows), e)
             \/ Again(Append(rows, e)) = Again(rows)
        BY <4>6, <4>7, <4>8
      <4>11. GrowsTo(now, Again(Part(k)))
        <5> HIDE DEF Again, Part
        <5> QED BY <4>1, <4>3, <4>9, <4>10
      <4> QED BY <3>1, <4>11
    <3> QED BY <2>1, <3>2, <3>3, <3>4
  <2>5. N \in R
    <3>1. 0 \in R
      BY <2>1
    <3> HIDE DEF R, N
    <3>2. 0..N \subseteq R
      BY <2>1, <2>4, <3>1, Induction
    <3> QED BY <2>1, <3>2
  <2>6. Part(N) = later
    BY SubSeqFull
  <2> HIDE DEF now, Again, Part
  <2>7. GrowsTo(now, Again(later))
    BY <2>1, <2>5, <2>6
  <2> QED BY <2>7 DEF now, Again
<1> QED BY <1>3, <1>4

\* Read through any store that serves it, a request gets a first part of the
\* ticks' bars, the last of them perhaps with ticks missing.
LEMMA StoredAnswer ==
  ASSUME EvenStores, TypeInv, Inv, NEW have \in Stores, NEW want \in Series,
         Even(want.width, want.session), Fits(have, want)
  PROVE  LET bars == Resample(want.width, want.session, Reread(have, want, sidecar[have]))
             market == Rebuild(want, source)
         IN  Len(bars) <= Len(market) /\ UpToLastBar(bars, SubSeq(market, 1, Len(bars)))
<1> DEFINE all == Len(source)
           stored == sidecar[have]
           bars == Resample(want.width, want.session, Reread(have, want, stored))
           market == Rebuild(want, source)
<1>1. /\ IsSource(source) /\ IsAscending(source)
      /\ have \in Series /\ Even(have.width, have.session)
      /\ all \in Nat /\ all \in 0..all
  BY StoreSeries, TimesType DEF TypeInv, EvenStores
<1>2. PICK m \in 0..all : \E n \in 0..Len(Upto(have, source, m)) :
         stored = SubSeq(Upto(have, source, m), 1, n)
  BY DEF Inv, IsStored
<1> DEFINE part == Upto(have, source, m)
           full == Upto(have, source, all)
<1>3. PICK n \in 0..Len(part) : stored = SubSeq(part, 1, n)
  BY <1>2
<1>4. part \in Seq(Row) /\ full \in Seq(Row) /\ GrowsTo(part, full)
  <2>1. all \in m..all
    BY <1>1
  <2> QED BY <1>1, <2>1, UptoType, UptoGrows
<1>5. Resample(want.width, want.session, Reread(have, want, full)) = market
  BY <1>1, Coarsen, UptoAll
<1> HIDE DEF part, full, market
<1>6. stored \in Seq(Row) /\ GrowsTo(stored, full)
  <2>1. GrowsTo(SubSeq(part, 1, n), full)
    BY <1>4, GrowsPrefix
  <2>2. stored \in Seq(Row)
    BY <1>1, BarsAreRows DEF TypeInv
  <2> QED BY <1>3, <2>1, <2>2
<1> HIDE DEF stored
<1>7. GrowsTo(bars, market)
  BY <1>1, <1>4, <1>5, <1>6, RereadGrows
<1>8. \A rows \in Seq(Row) : Resample(want.width, want.session, Reread(have, want, rows)) \in Seq(Row)
  <2> TAKE rows \in Seq(Row)
  <2>1. Reread(have, want, rows) \in Seq(Row) /\ want.width \in 1..Day /\ want.session \in Sessions
    BY RereadType, SeriesType
  <2> QED BY <2>1, ResampleType DEF Row
<1>9. bars \in Seq(Row) /\ market \in Seq(Row)
  <2>1. bars \in Seq(Row)
    BY <1>6, <1>8
  <2>2. market \in Seq(Row)
    BY <1>4, <1>5, <1>8
  <2> QED BY <2>1, <2>2
<1> HIDE DEF bars
<1>10. Len(bars) \in 0..Len(bars) /\ SubSeq(bars, 1, Len(bars)) = bars
  BY <1>9, SubSeqFull, LenProperties
<1>11. Len(bars) <= Len(market) /\ UpToLastBar(SubSeq(bars, 1, Len(bars)), SubSeq(market, 1, Len(bars)))
  BY <1>7, <1>9, <1>10, GrowsUpToLast DEF Row
<1> QED BY <1>10, <1>11 DEF bars, stored, market

-----------------------------------------------------------------------------
(* A sidecar by itself, as the commands read it.                           *)

\* Regular-hours bars below a day lie in regular hours themselves.
LEMMA BucketInHours ==
  ASSUME NEW w \in 1..Day, w # Day, NEW s \in Sessions, NEW t \in Int, InHours(s, t)
  PROVE  InHours(s, BucketStart(w, s, t))
<1> DEFINE a == BucketStart(w, s, t)
           m == Midnight(t)
           o == Hours[s].open
           c == Hours[s].close
<1>1. /\ w \in Nat \ {0} /\ o \in Int /\ c \in Int /\ m \in Int
      /\ a \in Int /\ a <= t /\ t < a + w /\ m <= t /\ 0 <= o
  <2>1. w \in Nat \ {0} /\ o \in Int /\ c \in Int /\ 0 <= o
    BY HoursType
  <2>2. a \in Int /\ a <= t /\ t < a + w
    BY BucketStartBounds
  <2>3. m \in Int /\ m <= t
    BY MidnightBounds
  <2> QED BY <2>1, <2>2, <2>3
<1>2. o <= t - m /\ t - m <= c - 1
  BY <1>1 DEF InHours
<1>3. PICK p \in Int : a = (m + o) + w * p
  BY BucketForm DEF OpenEpoch
<1> HIDE DEF a, m, o, c
<1>4. m + o <= a
  <2>1. w * p \in Int
    BY <1>1
  <2>2. w * 0 < w * p + w
    BY <1>1, <1>2, <1>3, <2>1
  <2>3. 0 <= p
    BY <1>1, <2>2, Multiples
  <2>4. 0 <= w * p
    BY <1>1, <2>3, Multiples
  <2> QED BY <1>1, <1>3, <2>1, <2>4
<1>5. m <= a /\ o <= a - m /\ a - m <= c - 1
  BY <1>1, <1>2, <1>4
<1>6. Midnight(a) = m
  BY <1>1, <1>5, SameMidnight DEF m
<1>7. a - m \in o..(c - 1)
  BY <1>1, <1>5
<1> QED BY <1>6, <1>7 DEF InHours, a, o, c

\* Where a stored bar comes from.
LEMMA StoredFrom ==
  ASSUME TypeInv, Inv, NEW s \in Stores
  PROVE  \A k \in 1..Len(sidecar[s]) : \E t \in Times :
            Belongs(s.session, t) /\ sidecar[s][k].time = BucketOf(s, t)
<1>1. IsSource(source) /\ s \in Series
  BY StoreSeries DEF TypeInv
<1>2. PICK m \in 0..Len(source) : \E n \in 0..Len(Upto(s, source, m)) :
         sidecar[s] = SubSeq(Upto(s, source, m), 1, n)
  BY DEF Inv, IsStored
<1> DEFINE part == Upto(s, source, m)
<1>3. PICK n \in 0..Len(part) : sidecar[s] = SubSeq(part, 1, n)
  BY <1>2
<1>4. \A k \in 1..Len(part) : \E i \in 1..m :
         source[i] \in Times /\ Belongs(s.session, source[i]) /\ part[k].time = BucketOf(s, source[i])
  BY <1>1, UptoFrom
<1>5. part \in Seq(Row)
  BY <1>1, UptoType
<1> HIDE DEF part
<1>6. /\ Len(SubSeq(part, 1, n)) = n
      /\ \A k \in 1..n : SubSeq(part, 1, n)[k] = part[k] /\ k \in 1..Len(part)
  <2>1. \A k \in 1..n : part[k] \in Row /\ k \in 1..Len(part)
    BY <1>5
  <2> QED BY <1>5, <2>1, SubSeqProperties
<1>7. ASSUME NEW k \in 1..Len(sidecar[s])
      PROVE  \E t \in Times : Belongs(s.session, t) /\ sidecar[s][k].time = BucketOf(s, t)
  <2>1. k \in 1..Len(part) /\ sidecar[s][k] = part[k]
    BY <1>3, <1>6
  <2> QED BY <1>4, <2>1
<1> QED BY <1>7

\* Daily bars never look like bars below a day.
LEMMA DailyShape ==
  ASSUME TypeInv, Inv, NEW s \in Stores, s.width = Day
  PROVE  Shape(Side(s)) # "subday"
<1> DEFINE rows == sidecar[s]
           gaps == {rows[i + 1].time - rows[i].time : i \in 1..(Len(rows) - 1)}
<1>1. Side(s).rows = rows /\ Side(s).kind = "bar"
  BY DEF Side
<1>2. ASSUME gaps # {} PROVE ~(Min(gaps) < Day)
  <2>1. Len(rows) \in Nat /\ InOrder(rows) /\ \A i \in 1..Len(rows) : rows[i].time \in Int
    <3>1. rows \in Seq(Bar) /\ InOrder(rows)
      BY DEF TypeInv
    <3>2. \A i \in 1..Len(rows) : rows[i] \in Bar
      BY <3>1
    <3> QED BY <3>1, <3>2, LenProperties DEF Bar
  <2>2. \A i \in 1..Len(rows) : \E t \in Times : rows[i].time = Midnight(t)
    BY StoredFrom DEF BucketOf, BucketStart
  <2> HIDE DEF rows
  <2>3. ASSUME NEW i \in 1..(Len(rows) - 1)
        PROVE  rows[i + 1].time - rows[i].time \in Nat /\ rows[i + 1].time - rows[i].time >= Day
    <3>1. i \in 1..Len(rows) /\ i + 1 \in 1..Len(rows) /\ i < i + 1
      BY <2>1
    <3>2. rows[i].time < rows[i + 1].time
      BY <2>1, <3>1 DEF InOrder
    <3>3. PICK t \in Times : rows[i].time = Midnight(t)
      BY <2>2, <3>1
    <3>4. PICK u \in Times : rows[i + 1].time = Midnight(u)
      BY <2>2, <3>1
    <3>5. /\ t \in Int /\ u \in Int /\ Day \in Nat
          /\ Midnight(t) \in Int /\ Midnight(u) \in Int /\ Midnight(t) <= t /\ t < Midnight(t) + Day
          /\ Midnight(u) <= u /\ u < Midnight(u) + Day
      BY SidecarAssumption, MidnightBounds, HoursType
    <3>6. Midnight(t) + Day <= Midnight(u)
      <4>1. t <= u \/ u <= t
        BY <3>5
      <4>2. CASE t <= u
        BY <3>2, <3>3, <3>4, <3>5, <4>2, MidnightOrder
      <4>3. CASE u <= t
        <5>1. Midnight(u) = Midnight(t) \/ Midnight(u) + Day <= Midnight(t)
          BY <3>5, <4>3, MidnightOrder
        <5> QED BY <3>2, <3>3, <3>4, <3>5, <5>1
      <4> QED BY <4>1, <4>2, <4>3
    <3> DEFINE a == Midnight(t)
               b == Midnight(u)
    <3>7. a \in Int /\ b \in Int /\ a + Day <= b /\ Day \in Nat
      BY <3>5, <3>6
    <3>8. rows[i].time = a /\ rows[i + 1].time = b
      BY <3>3, <3>4
    <3> HIDE DEF a, b
    <3> QED BY <3>7, <3>8
  <2>4. \A g \in gaps : g \in Nat /\ g >= Day
    BY <2>3
  <2> HIDE DEF gaps
  <2>5. Min(gaps) \in gaps
    <3>1. gaps \subseteq Nat
      BY <2>4
    <3> QED BY <1>2, <3>1, MinIs
  <2> QED BY <2>4, <2>5, HoursType
<1>3. Shape(Side(s)) = CASE Side(s).kind = "tick" -> "ticks"
                         [] Side(s).kind = "bar" /\ gaps = {} -> "unknown"
                         [] Side(s).kind = "bar" /\ gaps # {} ->
                               IF Min(gaps) < Day THEN "subday" ELSE "coarse"
                         [] OTHER -> "none"
  BY <1>1 DEF Shape
<1> HIDE DEF gaps
<1> QED BY <1>1, <1>2, <1>3

\* Where its rows tell what it is, a sidecar is read as symbol_bars reads it.
LEMMA StreamedSide ==
  ASSUME TypeInv, Inv, NEW s \in Stores, NEW want \in Series, Serves(s, want),
         s.session # want.session => Shape(Side(s)) = "subday"
  PROVE  Streamed(<<Side(s)>>, want) =
            Resample(want.width, want.session, Reread(s, want, sidecar[s]))
<1> DEFINE files == <<Side(s)>>
           rows == sidecar[s]
           filter == want.session = "rth" /\ Accepts(Shape(Side(s)))
           read == IF filter THEN InSession("rth", rows) ELSE rows
<1>1. Streamed(files, want) = Resample(want.width, want.session, read)
  <2>1. DOMAIN files = 1..1 /\ files[1] = Side(s) /\ ToSet(files) = {Side(s)}
    BY DEF ToSet
  <2>2. Side(s).rows = rows
    BY DEF Side
  <2>3. \A e : [i \in 1..1 |-> e] = <<e>>
    OBVIOUS
  <2> HIDE DEF files
  <2>4. [i \in DOMAIN files |-> files[i].rows] = <<rows>>
    <3>1. \A i \in 1..1 : files[i].rows = rows
      BY <2>1, <2>2
    <3>2. [i \in DOMAIN files |-> files[i].rows] = [i \in 1..1 |-> rows]
      BY <2>1, <3>1
    <3> QED BY <2>3, <3>2
  <2>5. FlattenSeq([i \in DOMAIN files |-> files[i].rows]) = rows
    BY <2>4, FlattenOne
  <2>6. (\A f \in ToSet(files) : Accepts(Shape(f))) <=> Accepts(Shape(Side(s)))
    BY <2>1
  <2> HIDE DEF rows
  <2>7. Streamed(files, want) =
           Resample(want.width, want.session,
                    IF want.session = "rth" /\ \A f \in ToSet(files) : Accepts(Shape(f))
                    THEN InSession("rth", rows) ELSE rows)
    BY <2>5 DEF Streamed
  <2> QED BY <2>6, <2>7
<1>2. s \in Series /\ s.width \in 1..Day /\ s.session \in Sessions /\ want.session \in Sessions
  BY StoreSeries, SeriesType
<1>3. read = Reread(s, want, rows)
  <2>1. CASE s.session # want.session
    <3>1. s.session = "ext" /\ want.session = "rth"
      BY <2>1 DEF Serves
    <3>2. filter
      BY <2>1, <3>1 DEF Accepts
    <3> QED BY <3>1, <3>2 DEF Reread
  <2>2. CASE s.session = want.session /\ ~filter
    BY <2>2 DEF Reread
  <2>3. CASE s.session = want.session /\ filter
    <3>1. s.session = "rth" /\ Reread(s, want, rows) = rows
      BY <2>3 DEF Reread
    <3>2. s.width # Day
      <4>1. ASSUME s.width = Day PROVE Shape(Side(s)) = "unknown" \/ Shape(Side(s)) = "coarse"
        <5>1. Side(s).kind = "bar"
          BY DEF Side
        <5> DEFINE gaps == {Side(s).rows[i + 1].time - Side(s).rows[i].time
                               : i \in 1..(Len(Side(s).rows) - 1)}
        <5>2. Shape(Side(s)) = CASE Side(s).kind = "tick" -> "ticks"
                                 [] Side(s).kind = "bar" /\ gaps = {} -> "unknown"
                                 [] Side(s).kind = "bar" /\ gaps # {} ->
                                       IF Min(gaps) < Day THEN "subday" ELSE "coarse"
                                 [] OTHER -> "none"
          BY DEF Shape
        <5> HIDE DEF gaps
        <5> QED BY <4>1, <5>1, <5>2, DailyShape
      <4> QED BY <2>3, <4>1 DEF Accepts
    <3>3. rows \in Seq(Bar)
      BY DEF TypeInv
    <3>4. \A k \in 1..Len(rows) : InHours("rth", rows[k].time)
      <4> TAKE k \in 1..Len(rows)
      <4>1. PICK t \in Times : Belongs("rth", t) /\ rows[k].time = BucketStart(s.width, "rth", t)
        BY <3>1, StoredFrom DEF BucketOf
      <4>2. t \in Int /\ InHours("rth", t) /\ "rth" \in Sessions
        BY <4>1, SidecarAssumption DEF Belongs, Sessions
      <4> HIDE DEF rows
      <4> QED BY <1>2, <3>2, <4>1, <4>2, BucketInHours
    <3> HIDE DEF rows
    <3>5. InSession("rth", rows) = rows
      BY <3>3, <3>4, InSessionAll
    <3> QED BY <3>1, <3>5
  <2> QED BY <2>1, <2>2, <2>3
<1> QED BY <1>1, <1>3

\* What can be streamed holds files of one kind.
LEMMA OneKind ==
  ASSUME NEW files \in Seq(File), files # <<>>, Streamable(files)
  PROVE  Cardinality({f.kind : f \in ToSet(files)}) = 1
<1>1. PICK g : g \in ToSet(files)
  BY FileSet
<1>2. \A f, h \in ToSet(files) : f.kind = h.kind
  BY DEF Streamable
<1>3. {f.kind : f \in ToSet(files)} = {g.kind}
  BY <1>1, <1>2
<1> QED BY <1>3, FS_Singleton

\* An answer for one symbol, as the property has it of every entry.
IsMarket(bars, from, want) ==
    LET market == Rebuild(want, source)
    IN  /\ Cardinality({f.kind : f \in ToSet(from)}) = 1
        /\ \A s \in StoreOf(from[1]) :
              /\ Len(from) = 1
              /\ Serves(s, want) /\ (s.session # want.session => Shape(from[1]) = "subday")
              => /\ Len(bars) <= Len(market)
                 /\ UpToLastBar(bars, SubSeq(market, 1, Len(bars)))

LEMMA StreamedIsMarket ==
  ASSUME EvenStores, FitRequests, TypeInv, Inv, NEW want \in Requests,
         NEW from \in Seq(File), from # <<>>, Streamable(from)
  PROVE  IsMarket(Streamed(from, want), from, want)
<1> DEFINE market == Rebuild(want, source)
           bars == Streamed(from, want)
<1>1. want \in Series /\ Even(want.width, want.session)
  BY SidecarAssumption DEF FitRequests
<1>2. ASSUME NEW s \in StoreOf(from[1]), Len(from) = 1, Serves(s, want),
             s.session # want.session => Shape(from[1]) = "subday"
      PROVE  Len(bars) <= Len(market) /\ UpToLastBar(bars, SubSeq(market, 1, Len(bars)))
  <2>1. s \in Stores /\ from[1] = Side(s)
    BY DEF StoreOf
  <2>2. from = <<Side(s)>>
    <3>1. from = <<from[1]>>
      BY <1>2
    <3> QED BY <2>1, <3>1
  <2>3. Fits(s, want)
    <3>1. WithinDay(s) /\ (s.session # want.session => Aligned(s))
      BY <1>2, <2>1 DEF FitRequests
    <3> QED BY <1>1, <1>2, <2>1, <3>1, StoreSeries, ServesFits
  <2>4. bars = Resample(want.width, want.session, Reread(s, want, sidecar[s]))
    BY <1>1, <1>2, <2>1, <2>2, StreamedSide
  <2> HIDE DEF bars
  <2> QED BY <1>1, <2>1, <2>3, <2>4, StoredAnswer
<1>3. Cardinality({f.kind : f \in ToSet(from)}) = 1
  BY OneKind
<1> QED BY <1>2, <1>3 DEF IsMarket

\* Whatever is selected, and in the middle of any sync, no answer mixes ticks
\* with bars, and a sidecar named by itself answers as the ticks do as far as it
\* reaches.
THEOREM AnswersTrue ==
  ASSUME EvenStores, FitRequests
  PROVE  ArchiveSpec => []AnswersAreTheMarket
<1>1. ASSUME TypeInv, Inv, beside \in Archives PROVE AnswersAreTheMarket
  <2>1. ASSUME NEW want \in Requests, NEW files \in Selections,
               NEW i \in DOMAIN BarsCommand(files, want).rows
        PROVE  IsMarket(BarsCommand(files, want).rows[i].bars,
                        FilesOf(Readable(files), BarsCommand(files, want).rows[i].symbol), want)
    <3> DEFINE found == Readable(files)
               asked == SymbolsIn(found)
               answer == BarsCommand(files, want)
    <3>1. files \in Seq(File)
      BY <1>1, SelectionType
    <3>2. found \in Seq(File)
      BY <3>1, ReadableIs
    <3>3. IsAnswer(answer, found, asked, want)
      BY <3>1, BarsCommandIs
    <3>4. i \in DOMAIN answer.rows
      OBVIOUS
    <3>5. asked \in Seq(ToSet(Symbols))
          /\ \A s : s \in ToSet(asked) => \E f \in ToSet(found) : f.symbol = s
      BY <3>2, SymbolsInIs
    <3> HIDE DEF answer, asked, found
    <3>6. PICK done \in 0..Len(asked) :
             /\ answer.rows = [k \in 1..done |-> Line(asked[k], FilesOf(found, asked[k]), want)]
             /\ \A k \in 1..done : Streamable(FilesOf(found, asked[k]))
      BY <3>3 DEF IsAnswer
    <3>7. DOMAIN answer.rows = 1..done
      BY <3>6
    <3>8. i \in 1..done /\ i \in 1..Len(asked)
      <4>1. Len(asked) \in Nat
        BY <3>5, LenProperties
      <4> QED BY <3>4, <3>6, <3>7, <4>1
    <3> DEFINE symbol == asked[i]
               from == FilesOf(found, symbol)
    <3>9. answer.rows[i] = Line(symbol, from, want)
      BY <3>6, <3>8
    <3>10. answer.rows[i].symbol = symbol /\ answer.rows[i].bars = Streamed(from, want)
      BY <3>9 DEF Line
    <3>11. from \in Seq(File) /\ from # <<>>
      <4>1. symbol \in ToSet(asked)
        <5>1. DOMAIN asked = 1..Len(asked)
          BY <3>5, LenProperties
        <5> QED BY <3>8, <5>1 DEF ToSet
      <4>2. PICK f \in ToSet(found) : f.symbol = symbol
        BY <3>5, <4>1
      <4> HIDE DEF symbol
      <4>3. f \in ToSet(from)
        BY <3>2, <4>2, FilesOfIs
      <4> QED BY <3>2, <4>3, FilesOfIs, FileSet
    <3>12. Streamable(from)
      BY <3>6, <3>8
    <3> HIDE DEF from, symbol
    <3>13. IsMarket(Streamed(from, want), from, want)
      BY <1>1, <3>11, <3>12, StreamedIsMarket
    <3>14. FilesOf(found, answer.rows[i].symbol) = from
      BY <3>10 DEF from
    <3>15. IsMarket(answer.rows[i].bars, FilesOf(found, answer.rows[i].symbol), want)
      BY <3>10, <3>13, <3>14
    <3> QED BY <3>15 DEF answer, found
  <2> QED BY <2>1 DEF AnswersAreTheMarket, IsMarket
<1>2. ArchiveSpec => [](beside \in Archives)
  BY BesideStays
<1>3. Spec => [](TypeInv /\ Inv)
  BY SidecarInvariant
<1> QED BY <1>1, <1>2, <1>3, ArchiveIsSidecar, PTL
=============================================================================
