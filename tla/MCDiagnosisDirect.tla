------------------------- MODULE MCDiagnosisDirect --------------------------
(***************************************************************************)
(* Instances of DiagnosisDirect: three tasks, two of them about one pod.   *)
(***************************************************************************)
EXTENDS DiagnosisDirect

CONSTANTS t1, t2, t3, p1, p2

OnePod == [t \in Tasks |-> p1]
TwoPods == [t \in Tasks |-> IF t = t3 THEN p2 ELSE p1]
=============================================================================
