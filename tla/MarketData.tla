----------------------------- MODULE MarketData -----------------------------
(***************************************************************************)
(* What a symbol's download is about: the trades the market printed, the   *)
(* range of time the user asked for, and the calendar of the exchange.     *)
(*                                                                         *)
(* Time is counted in instants; a second is Sub of them.  A provider gives *)
(* a trade a timestamp, an instant (Databento) or a whole second (IBKR); an*)
(* FWOB file keeps its second (provider_tick_to_tick stores                *)
(* unix_timestamp()).  A trade is named by its position in the market's    *)
(* print order, so that a file is a sequence of trades and a gap or a      *)
(* duplicate in it is visible.                                             *)
(***************************************************************************)
EXTENDS Integers, Sequences, SequencesExt

CONSTANTS
    Market,        \* the timestamp its provider gives each trade, in print order
    Sub,           \* instants per second
    Start,         \* configured_start, or None for the provider's head
    End,           \* configured_end, or None for "now" at each iteration
    Horizon,       \* the last second of the calendar
    NextMidnight   \* second -> start of the next local day

\* Option::None for an instant.
None == -1

Trades == 1..Len(Market)
Second(t) == t \div Sub

ASSUME MarketAssumption ==
    /\ Sub \in Nat \ {0}
    /\ Market \in Seq(Nat)
    /\ \A m, n \in 1..Len(Market) : m <= n => Market[m] <= Market[n]
    /\ Start \in Nat \cup {None}
    /\ End \in Nat \cup {None}
    \* DownloadPlan::new refuses a plan whose start is not before its end.
    /\ Start # None /\ End # None => Start < End
    /\ Horizon \in Nat
    /\ NextMidnight \in [0..Horizon -> Nat]
    /\ \A s \in 0..Horizon : NextMidnight[s] > s
    /\ End # None => Second(End) <= Horizon

\* Seeded faults, each named in PROJECT.json with the property that must fail
\* when it stands in for the definition after it.
NoNextDay(cursor) == None                            \* a date overflow unnoticed
SameDayStart(cursor) == Sub * Second(cursor)         \* today() for tomorrow()
SameSecond(m) == Sub * Second(Market[m])             \* the "+ 1" forgotten

\* next_day_start: the instant of the local midnight after the cursor's day.
NextDayStart(cursor) == Sub * NextMidnight[Second(cursor)]

\* The cursor after a batch whose last tick is trade m: the following second.
SecondAfter(m) == Sub * (Second(Market[m]) + 1)

\* The first instant the user asked for (all of history without a start).
Origin == IF Start = None THEN 0 ELSE Start

\* The trades the user asked for, by their timestamps.  Without an end, all of
\* them from the start on.
Wanted == {m \in Trades : /\ Market[m] >= Origin
                          /\ End # None => Market[m] < End}

-----------------------------------------------------------------------------
\* A stored sequence has no gap, no duplicate and no reordering when its k-th
\* trade is the k-th one the market printed from its first.
Contiguous(s) == \A k \in 1..Len(s) : s[k] = s[1] + k - 1

\* It starts at the first trade the user asked for, and it never stops inside
\* a second: the resume position is a whole second, so a wanted trade of the
\* last stored second that is not stored could never be fetched again.
StartsAtOrigin(s) ==
    s # <<>> => \A m \in Wanted : s[1] <= m
EndsAtSecond(s) ==
    s # <<>> => \A m \in Wanted :
        Second(Market[m]) = Second(Market[s[Len(s)]]) => m <= s[Len(s)]

Exact(s) ==
    /\ \A k \in 1..Len(s) : s[k] \in Wanted
    /\ Contiguous(s)
    /\ StartsAtOrigin(s)
    /\ EndsAtSecond(s)
=============================================================================
