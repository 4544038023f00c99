--------------------------- MODULE TaskLifecycle ----------------------------
(***************************************************************************)
(* What the diagnosis queue promises about a task, without workers, stream *)
(* or lock: once accepted it is attempted at most 1 + MaxRetry times, and  *)
(* it ends, for good, as a success or in the dead letter table, the latter *)
(* only after its last attempt.                                            *)
(***************************************************************************)
EXTENDS Integers

CONSTANTS Tasks, MaxRetry

VARIABLES
    phase,      \* [Tasks -> "absent", "open", "success" or "buried"]
    attempt     \* [Tasks -> retries used by an open task]

taskVars == <<phase, attempt>>

Init ==
    /\ phase = [t \in Tasks |-> "absent"]
    /\ attempt = [t \in Tasks |-> 0]

Accept(t) ==
    /\ phase[t] = "absent"
    /\ phase' = [phase EXCEPT ![t] = "open"]
    /\ UNCHANGED attempt

Retry(t) ==
    /\ phase[t] = "open"
    /\ attempt[t] < MaxRetry
    /\ attempt' = [attempt EXCEPT ![t] = @ + 1]
    /\ UNCHANGED phase

End(t, how) ==
    /\ phase[t] = "open"
    /\ phase' = [phase EXCEPT ![t] = how]
    /\ attempt' = [attempt EXCEPT ![t] = 0]

Succeed(t) == End(t, "success")

Bury(t) == attempt[t] = MaxRetry /\ End(t, "buried")

Next == \E t \in Tasks : Accept(t) \/ Retry(t) \/ Succeed(t) \/ Bury(t)

Spec == Init /\ [][Next]_taskVars

\* Every accepted task ends.
Ends == \A t \in Tasks : phase[t] = "open" ~> phase[t] \in {"success", "buried"}

LiveSpec == Spec /\ Ends
=============================================================================
