----------------------------- MODULE MemoryCurve -----------------------------
(***************************************************************************)
(* The shape of a container's memory around an OOM kill, as the OOMKilled  *)
(* analyzer reads it: samples in percent of the memory limit, one a        *)
(* minute, those up to the kill (pre) and those after it (post).           *)
(***************************************************************************)
EXTENDS Integers, Sequences, SequencesExt, FiniteSetsExt

Near == 90          \* memoryNearLimitThreshold
HighBaseline == 75  \* memoryHighBaselineThreshold
LowRestart == 60    \* memoryLowRestartThreshold
ReturnHigh == 70    \* memoryRestartReturnThreshold

Total(s) == FoldSeq(+, 0, s)
Values(s) == {s[i] : i \in DOMAIN s}

(* firstSegment, lastSegment: a third of the samples, rounded up; all of them when at most three *)
Third(s) == IF Len(s) <= 3 THEN Len(s) ELSE (Len(s) + 2) \div 3
First(s) == SubSeq(s, 1, Third(s))
Last3(s) == SubSeq(s, Len(s) - Third(s) + 1, Len(s))

AtLeast(s, percent) == Total(s) >= percent * Len(s)      \* the average of s, 0 for no sample
Grows(s) ==                                              \* by 35% from the first to the last third
    /\ Total(First(s)) > 0
    /\ 100 * Total(Last3(s)) * Len(First(s)) >= 135 * Total(First(s)) * Len(Last3(s))
Rise(s) == IF Len(s) < 2 THEN 0 ELSE s[Len(s)] - s[1]
Minutes(s) == Len(s) - 1

SustainedNear(all) ==
    /\ Len(all) >= 3
    /\ 100 * Len(SelectSeq(all, LAMBDA v : v >= Near)) >= 80 * Len(all)

Leaks(pre, post) ==
    \/ /\ Len(pre) >= 4
       /\ Total(First(pre)) <= HighBaseline * Len(First(pre)) /\ AtLeast(Last3(pre), Near)
       /\ Grows(pre) \/ Rise(pre) >= 3 * Minutes(pre)
    \/ /\ Len(post) >= 3
       /\ Min(Values(post)) > 0 /\ Min(Values(post)) <= LowRestart
       /\ Max(Values(post)) >= HighBaseline
       /\ Grows(post)

LimitTooLow(pre, post) ==
    /\ AtLeast(First(pre), HighBaseline)
    /\ Rise(pre) <= 3 * Minutes(pre) /\ -Rise(pre) <= 3 * Minutes(pre)
    /\ post = << >> \/ AtLeast(First(post), ReturnHigh) \/ Max(Values(post)) >= Near

(* enrichMemoryShape: every sample counts as "before" when there is none *)
Pattern(curve) ==
    LET all == curve.pre \o curve.post
        pre == IF curve.pre = << >> THEN all ELSE curve.pre
    IN  IF Leaks(pre, curve.post) THEN "memory_leak"
        ELSE IF SustainedNear(all) /\ LimitTooLow(pre, curve.post) THEN "limit_too_low"
        ELSE IF SustainedNear(all) THEN "near_limit"
        ELSE "no_shape"

(* Samples a container may have left. *)
Curves ==
    [leak   |-> [pre |-> <<40, 55, 70, 92, 98>>, post |-> <<30>>],
     flat   |-> [pre |-> <<94, 95, 95, 96>>, post |-> <<93, 94, 95>>],
     warmup |-> [pre |-> <<94, 95, 95, 96>>, post |-> <<35, 55, 80, 95>>],
     short  |-> [pre |-> <<94, 95, 95, 96>>, post |-> <<35, 60, 95>>],
     spike  |-> [pre |-> <<40, 41, 40, 96>>, post |-> << >>]]
=============================================================================
