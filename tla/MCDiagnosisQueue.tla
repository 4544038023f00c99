-------------------------- MODULE MCDiagnosisQueue --------------------------
(***************************************************************************)
(* Instances of DiagnosisQueue: tasks t1 and t2 are about one pod, t3      *)
(* about another; two server processes.                                    *)
(***************************************************************************)
EXTENDS DiagnosisQueue, TLC

CONSTANTS t1, t2, t3, p1, p2, x1, x2

OnePod == [t \in Tasks |-> p1]
TwoPods == [t \in Tasks |-> IF t = t3 THEN p2 ELSE p1]

\* For runs in which every task is about the same pod.
Symmetric == Permutations(Procs) \cup Permutations(Tasks)
=============================================================================
