-------------------------- MODULE DiagnosisDirect ---------------------------
(***************************************************************************)
(* Diagnoses without a queue (queue.type = ""): StartPodDiagnosis runs the *)
(* diagnosis in a goroutine of its own, in one server process that may     *)
(* crash.  There is no retry and nothing picks a lost task up again.       *)
(***************************************************************************)
EXTENDS DiagnosisRun

VARIABLES
    start,      \* [Tasks -> progress of StartPodDiagnosis and its token]
    up          \* the process is running

directVars == <<start, up>>
vars == <<runVars, directVars>>

ASSUME GoroutinePerTask == Executors = Tasks

DirectTypeOK ==
    /\ RunTypeOK
    /\ run \in [Executors -> [pc: {"idle", "spawned", "done"} \cup Executing, task: Tasks \cup {NoTask},
                              token: Nat, ctx: {"live", "dead"}, out: Cause]]
    /\ start \in [Tasks -> [pc: {"no", "locked", "spawned", "refused"}, token: Nat]]
    /\ up \in BOOLEAN

Init ==
    /\ RunInit
    /\ start = [t \in Tasks |-> [pc |-> "no", token |-> NoToken]]
    /\ up = TRUE

StartLock(t) ==
    /\ up
    /\ start[t].pc = "no"
    /\ \/ /\ Acquire(PodOf[t])
          /\ start' = [start EXCEPT ![t] = [pc |-> "locked", token |-> nextToken]]
       \/ /\ ~LockFree(PodOf[t])
          /\ start' = [start EXCEPT ![t].pc = "refused"]
          /\ UNCHANGED <<lock, nextToken>>
    /\ UNCHANGED <<row, report, freed, run, cancelling, cancelled, faults, up>>

\* The row is created and the goroutine spawned, or the lock given back.
StartCreate(t) ==
    /\ up
    /\ start[t].pc = "locked"
    /\ \/ /\ Save(t, "running", "none")
          /\ run' = [run EXCEPT ![t] = [Idle EXCEPT !.pc = "spawned", !.task = t,
                                                    !.token = start[t].token]]
          /\ start' = [start EXCEPT ![t].pc = "spawned"]
          /\ UNCHANGED <<lock, freed, faults>>
       \/ /\ Disturb("db")
          /\ Unlock(PodOf[t], start[t].token)
          /\ start' = [start EXCEPT ![t].pc = "refused"]
          /\ UNCHANGED <<row, run>>
    /\ UNCHANGED <<report, nextToken, cancelling, cancelled, up>>

\* The goroutine is scheduled and registers its cancel function.
Register(t) ==
    /\ run[t].pc = "spawned"
    /\ Goto(t, "load")
    /\ UNCHANGED <<row, report, lock, nextToken, freed, cancelling, cancelled, faults>>
    /\ UNCHANGED directVars

RunStep(t) ==
    /\ Load(t) \/ Work(t) \/ Persist(t) \/ Finish(t) \/ Release(t, "done")
    /\ UNCHANGED directVars

\* The cancel function is found in this process's map, if it is there yet.
Cancel(t) ==
    /\ up
    /\ CancelRead(t) \/ CancelSignal(t, Executors) \/ CancelWrite(t)
    /\ UNCHANGED directVars

\* The process dies and comes back: goroutines and handlers are gone, rows and
\* Redis lock entries stay, a local lock map is lost with the process.
Crash ==
    /\ Disturb("crash")
    /\ up
    /\ up' = FALSE
    /\ run' = [e \in Executors |-> Idle]
    /\ start' = [t \in Tasks |-> IF start[t].pc = "locked"
                                 THEN [start[t] EXCEPT !.pc = "refused"] ELSE start[t]]
    /\ IF TokenLock THEN UNCHANGED <<lock, freed>>
       ELSE /\ lock' = [p \in Pods |-> NoToken]
            /\ freed' = freed \cup {lock[p] : p \in {p \in Pods : ~LockFree(p)}}
    /\ cancelling' = [t \in Tasks |-> "no"]
    /\ UNCHANGED <<row, report, nextToken, cancelled>>

Restart ==
    /\ ~up
    /\ up' = TRUE
    /\ UNCHANGED <<runVars, start>>

Relied(k) ==
    \/ \E t \in Tasks : start[t].pc = "locked" /\ start[t].token = k
    \/ \E e \in Executors : run[e].pc \in Executing \cup {"spawned"} /\ run[e].token = k

ExpireLease(p) ==
    /\ Expire(p)
    /\ IF Relied(lock[p]) THEN Disturb("expire") ELSE UNCHANGED faults
    /\ UNCHANGED directVars

\* The process waits for requests.
Wait == up /\ (\A t \in Tasks : run[t].pc \in {"idle", "done"}) /\ UNCHANGED vars

StartStep(t) == StartLock(t) \/ StartCreate(t)

Next ==
    \/ \E t \in Tasks : \/ StartStep(t) \/ Register(t) \/ RunStep(t) \/ Cancel(t)
                         \/ (Timeout(t) /\ UNCHANGED directVars)
    \/ \E p \in Pods : ExpireLease(p)
    \/ Crash \/ Restart \/ Wait

Spec == Init /\ [][Next]_vars

\* A goroutine that was spawned runs on, and so does a handler that was called.
FairSpec ==
    /\ Spec
    /\ \A t \in Tasks : /\ WF_vars(StartCreate(t)) /\ WF_vars(Register(t))
                        /\ WF_vars(RunStep(t))
                        /\ WF_vars(up /\ (CancelSignal(t, Executors) \/ CancelWrite(t))
                                     /\ UNCHANGED directVars)

-----------------------------------------------------------------------------
Working(t) == run[t].pc \in Executing \cup {"spawned"}

\* A lease protects its run until it is released or expires: two diagnoses of
\* one pod at once means that one of them has lost its lease that way, through
\* crashes, failed starts and cancellations.  With the local lock nothing is left
\* of this once a lease expires in use: its late release frees another's.
OneLease ==
    TokenLock \/ Spared({"expire"}) =>
        \A s, t \in Tasks :
            s # t /\ Working(s) /\ Working(t) /\ PodOf[s] = PodOf[t]
                => run[s].token \in freed \/ run[t].token \in freed

\* A diagnosis that was started reaches a final status, cancelled or not, unless
\* the process dies, the task timeout fires, or the load or the last write of the
\* row fails, which the run only logs (diagnosis_service.go:347, 364).
StartedEnds ==
    \A t \in Tasks : start[t].pc = "spawned"
                        ~> \/ row[t].status \in Terminal
                           \/ ~Spared({"crash", "timeout", "unread", "db"})
=============================================================================
