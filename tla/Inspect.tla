------------------------------ MODULE Inspect -------------------------------
(***************************************************************************)
(* The overview of one tick or bar file that inspect and ls give: the      *)
(* frames they sample, the hours they tell from the days' first frames,    *)
(* and the preview.  A file is the sequence of its frames' times, at most  *)
(* a few of which are read.                                                *)
(***************************************************************************)
EXTENDS Bars

CONSTANTS
    Sample,        \* INSPECT_SAMPLE: frames read at each end
    ProbeDays,     \* HOURS_PROBE_DAYS
    ProbeFrames,   \* HOURS_PROBE_FRAMES
    PreviewCount   \* FRAME_PREVIEW_COUNT

ASSUME InspectAssumption ==
    /\ {Sample, ProbeDays, ProbeFrames, PreviewCount} \subseteq Nat \ {0}
    /\ 2 * PreviewCount <= Sample

DayOf(t) == t \div Day

\* sample_windows: frames at both ends, none of them twice.
LeadWindow(times) == SubSeq(times, 1, Min({Len(times), Sample}))
TailWindow(times) ==
    SubSeq(times, Max({Len(times) - Sample, Min({Len(times), Sample})}) + 1, Len(times))

Sampled(times) == LeadWindow(times) \o TailWindow(times)

\* min_positive_gap, <<>> where there is none.
NarrowestGap(times) ==
    LET gaps == {times[i + 1] - times[i] : i \in 1..(Len(times) - 1)} \ {0}
    IN  IF gaps = {} THEN <<>> ELSE <<Min(gaps)>>

\* classify_hours, from the frames it is given.  The time of day stands for the
\* minute of the local day that the code compares.
SampledHours(times) ==
    IF Cardinality({t % Day : t \in ToSet(times)}) <= 1 THEN "n/a"
    ELSE IF \A t \in ToSet(times) : InHours("rth", t) THEN "rth" ELSE "extended"

-----------------------------------------------------------------------------
(***************************************************************************)
(* day_open_times: a walk over the days at each end, that goes on from the *)
(* day it landed on.  A walk is [day, probed, opens, over, decided]: the   *)
(* next day to look at, the frames where days were found to open, the      *)
(* times read there, and whether one of them was outside.                  *)
(***************************************************************************)

\* The first frame from t on, the end of the file where there is none.
LowerBound(times, t) == Min({i \in DOMAIN times : times[i] >= t} \cup {Len(times) + 1})
FramesFrom(times, i) == SubSeq(times, i, Min({Len(times), i + ProbeFrames - 1}))
Outside(opens) == \E t \in ToSet(opens) : ~InHours("rth", t)

\* Forward, from the day after the first.
HeadProbe(times, walk) ==
    LET index == LowerBound(times, Day * walk.day)
        opens == FramesFrom(times, index)
    IN  IF walk.over \/ Day * walk.day > Last(times) THEN [walk EXCEPT !.over = TRUE]
        ELSE [day |-> DayOf(times[index]) + 1, probed |-> walk.probed \cup {index},
              opens |-> walk.opens \o opens,
              over |-> Outside(opens), decided |-> Outside(opens)]

\* Seeded fault: from one calendar day to the one before it.
TailProbeByDate(times, walk) ==
    LET index == LowerBound(times, Day * walk.day)
        opens == FramesFrom(times, index)
    IN  IF walk.over \/ Day * walk.day <= Head(times) \/ index \in walk.probed
        THEN [walk EXCEPT !.over = TRUE]
        ELSE [day |-> walk.day - 1, probed |-> walk.probed \cup {index},
              opens |-> walk.opens \o opens,
              over |-> Outside(opens), decided |-> Outside(opens)]

\* Backward, from the last day, before the first day and up to where the head's
\* walk has been; the frame before a day's first tells the next day to look at.
TailProbe(times, walk) ==
    LET index == LowerBound(times, Day * walk.day)
        opens == FramesFrom(times, index)
    IN  IF walk.over \/ Day * walk.day <= Head(times) \/ index \in walk.probed
        THEN [walk EXCEPT !.over = TRUE]
        ELSE [day |-> DayOf(times[index - 1]), probed |-> walk.probed \cup {index},
              opens |-> walk.opens \o opens,
              over |-> Outside(opens), decided |-> Outside(opens)]

HeadWalk(times) ==
    LET first == [day |-> DayOf(Head(times)) + 1, probed |-> {}, opens |-> <<>>,
                  over |-> FALSE, decided |-> FALSE]
        walk[n \in 0..ProbeDays] == IF n = 0 THEN first ELSE HeadProbe(times, walk[n - 1])
    IN  walk[ProbeDays]

\* From where the head's walk ended.
TailWalk(times, head) ==
    LET first == [head EXCEPT !.day = DayOf(Last(times)), !.over = FALSE]
        walk[n \in 0..ProbeDays] == IF n = 0 THEN first ELSE TailProbe(times, walk[n - 1])
    IN  walk[ProbeDays]

DayOpenTimes(times) ==
    LET head == HeadWalk(times)
    IN  IF head.decided THEN head.opens ELSE TailWalk(times, head).opens

-----------------------------------------------------------------------------

\* classify_file_hours: a file of daily or coarser bars does not show its
\* hours, and one of a single day only those of its sample.
FileHours(kind, times) ==
    LET sample == Sampled(times)
        opens == DayOpenTimes(times)
    IN  IF times = <<>> THEN "none"
        ELSE IF kind = "bar" /\ \A gap \in ToSet(NarrowestGap(sample)) : gap >= Day THEN "n/a"
        ELSE IF opens = <<>> THEN SampledHours(sample)
        ELSE IF Outside(opens) THEN "extended" ELSE "rth"

\* preview_rows, a 0 for the ellipsis, and the frames for their times.
Preview(times) ==
    LET tail == IF TailWindow(times) = <<>> THEN LeadWindow(times) ELSE TailWindow(times)
    IN  IF Len(times) <= 2 * PreviewCount THEN LeadWindow(times)
        ELSE SubSeq(times, 1, PreviewCount) \o <<0>>
             \o SubSeq(tail, Max({1, Len(tail) - PreviewCount + 1}), Len(tail))

-----------------------------------------------------------------------------

\* inspect_file, its keys from the file's index; the granularity of bars is the
\* gap that its label names, <<>> for none.
InspectFile(kind, times) ==
    [kind |-> kind,
     frames |-> Len(times),
     first |-> IF times = <<>> THEN <<>> ELSE <<Head(times)>>,
     last |-> IF times = <<>> THEN <<>> ELSE <<Last(times)>>,
     granularity |-> IF kind = "bar" THEN NarrowestGap(Sampled(times)) ELSE <<>>,
     hours |-> FileHours(kind, times),
     preview |-> Preview(times)]

\* ls_file: the same of every file, without the preview.
LsFile(kind, times) ==
    LET all == InspectFile(kind, times)
    IN  [f \in DOMAIN all \ {"preview"} |->
            IF f = "hours" /\ all.hours = "none" THEN "n/a" ELSE all[f]]
=============================================================================
