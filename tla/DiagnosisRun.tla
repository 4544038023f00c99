---------------------------- MODULE DiagnosisRun ----------------------------
(***************************************************************************)
(* One diagnosis run: what DiagnosisService.runAgentDiagnosis (and its     *)
(* legacy twin) does to the task row, the report table and the pod lock,   *)
(* one action per storage call, and the CancelTask handler that races it.  *)
(* A run is carried by an executor: a queue worker of a server process, or *)
(* the goroutine StartPodDiagnosis spawns when there is no queue.          *)
(*                                                                         *)
(* The actions here leave the variables of the module that extends this    *)
(* one alone; DiagnosisQueue and DiagnosisDirect conjoin what they do.     *)
(***************************************************************************)
EXTENDS Integers, Sequences

CONSTANTS
    Tasks,      \* ids of diagnosis_tasks rows
    Pods,       \* "namespace/pod" lock keys
    PodOf,      \* the pod each task is about
    Executors,  \* who may carry a run
    NoTask,     \* the task of an idle executor
    TokenLock,  \* TRUE: redisPodLock (compare and delete); FALSE: localPodLock
    Faults,     \* the disturbances of this instance, a subset of FaultKinds
    MaxFaults   \* bound: how many disturbances one behaviour contains

\* "db": a write to MySQL fails; "unread": a read of a task row does; "redis": a
\* call of the lock or of the stream does; "unacked": an XACK does.
FaultKinds == {"cancel", "crash", "drain", "timeout", "expire", "slow",
               "db", "unread", "redis", "unacked"}

ASSUME PodOfType == PodOf \in [Tasks -> Pods]
ASSUME NoTaskType == NoTask \notin Tasks
ASSUME LockKind  == TokenLock \in BOOLEAN
ASSUME FaultType == Faults \subseteq FaultKinds /\ MaxFaults \in Nat

NoToken == 0    \* no lease; the uuids of TryAcquire are 1, 2, ...

VARIABLES
    row,        \* [Tasks -> status and cause]: the diagnosis_tasks table
    report,     \* tasks with a diagnosis_reports row (unique on task_id)
    lock,       \* [Pods -> token or NoToken]: the lock entries
    nextToken,  \* the next fresh lease token
    freed,      \* history: leases that expired or were released by their holder
    run,        \* [Executors -> run in progress]
    cancelling, \* [Tasks -> progress of a CancelTask call]
    cancelled,  \* history: tasks whose CancelTask call returned nil
    faults      \* history: the disturbances so far, oldest first

runVars == <<row, report, lock, nextToken, freed, run, cancelling, cancelled, faults>>

Terminal == {"success", "failed"}
FaultLog == {s \in Seq(FaultKinds) : Len(s) <= MaxFaults}
Status   == {"absent", "running"} \cup Terminal
Cause    == {"none", "report", "error", "cancelled"}

\* Places of a run.  The ones in Executing hold the lease they were given.
Executing == {"load", "work", "persist", "finish", "release"}
Registered == Executing   \* cancelFuncs[taskID] is set from "load" to "release"

Idle == [pc |-> "idle", task |-> NoTask, token |-> NoToken, ctx |-> "live", out |-> "none"]

RunTypeOK ==
    /\ row \in [Tasks -> [status: Status, cause: Cause]]
    /\ report \subseteq Tasks
    /\ lock \in [Pods -> Nat]
    /\ nextToken \in Nat \ {0}
    /\ freed \subseteq Nat
    /\ cancelling \in [Tasks -> {"no", "read", "signalled"}]
    /\ cancelled \subseteq Tasks
    /\ faults \in FaultLog

RunInit ==
    /\ row = [t \in Tasks |-> [status |-> "absent", cause |-> "none"]]
    /\ report = {}
    /\ lock = [p \in Pods |-> NoToken]
    /\ nextToken = 1
    /\ freed = {}
    /\ run = [e \in Executors |-> Idle]
    /\ cancelling = [t \in Tasks |-> "no"]
    /\ cancelled = {}
    /\ faults = <<>>

-----------------------------------------------------------------------------
(* The disturbances.  Each is off unless its kind is in Faults.            *)

Disturb(kind) ==
    /\ kind \in Faults
    /\ Len(faults) < MaxFaults
    /\ faults' = Append(faults, kind)

\* None of these disturbances has happened.
Spared(kinds) == \A i \in DOMAIN faults : faults[i] \notin kinds

-----------------------------------------------------------------------------
(* The pod lock as its callers see it (PodLock models its clock).          *)

LockFreeMutant(p) == TRUE    \* SET without NX

LockFree(p) == lock[p] = NoToken

\* redisPodLock.TryAcquire, granted: SET NX with a fresh uuid.
Acquire(p) ==
    /\ LockFree(p)
    /\ lock' = [lock EXCEPT ![p] = nextToken]
    /\ nextToken' = nextToken + 1

\* Release: redis deletes the entry only when it still stores this token, the
\* local lock deletes it whatever token it is given.
OwnsEntryMutant(p, token) == lock[p] # NoToken

OwnsEntry(p, token) == lock[p] # NoToken /\ (TokenLock => lock[p] = token)

Unlock(p, token) ==
    IF OwnsEntry(p, token)
    THEN /\ lock' = [lock EXCEPT ![p] = NoToken]
         /\ freed' = freed \cup {token}
    ELSE UNCHANGED <<lock, freed>>

ExpireMutant(p) == FALSE   \* an entry set without its TTL

\* The TTL of an entry runs out (its key vanishes from Redis).
Expire(p) ==
    /\ ~LockFree(p)
    /\ lock' = [lock EXCEPT ![p] = NoToken]
    /\ freed' = freed \cup {lock[p]}
    /\ UNCHANGED <<row, report, nextToken, run, cancelling, cancelled>>

-----------------------------------------------------------------------------
(* The run itself.                                                         *)

Save(t, status, cause) == row' = [row EXCEPT ![t] = [status |-> status, cause |-> cause]]

Goto(e, pc) == run' = [run EXCEPT ![e].pc = pc]

\* The work is over: the outcome is what finish will be called with.
Conclude(e, pc, out) == run' = [run EXCEPT ![e].pc = pc, ![e].out = out]

\* A storage call of the run goes through, or it fails: with a dead context
\* always, with a live one as a fault.
Served(e) == run[e].ctx = "live" /\ UNCHANGED faults

Fails(e, kind) == IF run[e].ctx = "dead" THEN UNCHANGED faults ELSE Disturb(kind)

\* cancelFuncs is set and GetByID called.  If the load fails the run returns
\* without writing a status.
Load(e) ==
    /\ run[e].pc = "load"
    /\ \/ Served(e) /\ Goto(e, "work")
       \/ Fails(e, "unread") /\ Goto(e, "release")
    /\ UNCHANGED <<row, report, lock, nextToken, freed, cancelling, cancelled>>

\* The agent loop, or the legacy snapshot and analysis: it yields a report, or
\* an error (or a panic, recovered into the same finish).
Work(e) ==
    /\ run[e].pc = "work"
    /\ \/ Conclude(e, "persist", "report")
       \/ Conclude(e, "finish", "error")
    /\ UNCHANGED <<row, report, lock, nextToken, freed, cancelling, cancelled, faults>>

\* The report row is new: diagnosis_reports.task_id is a unique index.
ReportAccepted(t) == t \notin report

\* Evidence and report are inserted under the run's context; any error turns
\* the outcome into a failure.
Persist(e) ==
    /\ run[e].pc = "persist"
    /\ \/ /\ Served(e)
          /\ ReportAccepted(run[e].task)
          /\ report' = report \cup {run[e].task}
          /\ Goto(e, "finish")
       \/ /\ ReportAccepted(run[e].task) => Fails(e, "db")
          /\ ~ReportAccepted(run[e].task) => UNCHANGED faults
          /\ Conclude(e, "finish", "error")
          /\ UNCHANGED report
    /\ UNCHANGED <<row, lock, nextToken, freed, cancelling, cancelled>>

FinalStatusMutant(e) == IF run[e].pc = "finish" THEN "success" ELSE "failed"

FinalStatusCauseMutant(e) == run[e].out    \* the outcome saved in the wrong column

FinalStatus(e) == IF run[e].out = "report" THEN "success" ELSE "failed"

\* finish: Save of the whole row, loaded when the run began, so it overwrites
\* whatever was written since.  It uses the run's context, and if it fails only
\* a log line says so: the row keeps its status.
Finish(e) ==
    /\ run[e].pc = "finish"
    /\ \/ Served(e) /\ Save(run[e].task, FinalStatus(e), run[e].out)
       \/ Fails(e, "db") /\ UNCHANGED row
    /\ Goto(e, "release")
    /\ UNCHANGED <<report, lock, nextToken, freed, cancelling, cancelled>>

\* The deferred call: forget the cancel function, release the lock.  A failing
\* release is not even logged; the entry stays until its TTL ends.
Release(e, after) ==
    /\ run[e].pc = "release"
    /\ \/ Unlock(PodOf[run[e].task], run[e].token) /\ UNCHANGED faults
       \/ TokenLock /\ Disturb("redis") /\ UNCHANGED <<lock, freed>>
    /\ Goto(e, after)
    /\ UNCHANGED <<row, report, nextToken, cancelling, cancelled>>

\* The task timeout of the run's context fires.
Timeout(e) ==
    /\ Disturb("timeout")
    /\ run[e].pc \in Executing \ {"release"}
    /\ run[e].ctx = "live"
    /\ run' = [run EXCEPT ![e].ctx = "dead"]
    /\ UNCHANGED <<row, report, lock, nextToken, freed, cancelling, cancelled>>

-----------------------------------------------------------------------------
(* CancelTask, as three steps: read the row, call the cancel function if   *)
(* this process runs the task, save the copy that was read.                *)

Cancellable(t) == row[t].status = "running"

CancelRead(t) ==
    /\ Disturb("cancel")
    /\ cancelling[t] = "no"
    /\ Cancellable(t)
    /\ cancelling' = [cancelling EXCEPT ![t] = "read"]
    /\ UNCHANGED <<row, report, lock, nextToken, freed, run, cancelled>>

\* mine: the executors of the process that serves the request.
CancelSignal(t, mine) ==
    /\ cancelling[t] = "read"
    /\ cancelling' = [cancelling EXCEPT ![t] = "signalled"]
    /\ run' = [e \in Executors |->
                  IF e \in mine /\ run[e].task = t /\ run[e].pc \in Registered
                  THEN [run[e] EXCEPT !.ctx = "dead"] ELSE run[e]]
    /\ UNCHANGED <<row, report, lock, nextToken, freed, cancelled, faults>>

\* A failing Save is the caller's error; the run has been signalled all the same.
CancelWrite(t) ==
    /\ cancelling[t] = "signalled"
    /\ cancelling' = [cancelling EXCEPT ![t] = "no"]
    /\ \/ /\ Save(t, "failed", "cancelled")
          /\ cancelled' = cancelled \cup {t}
          /\ UNCHANGED faults
       \/ Disturb("db") /\ UNCHANGED <<row, cancelled>>
    /\ UNCHANGED <<report, lock, nextToken, freed, run>>

-----------------------------------------------------------------------------
(* A task row never says success without the report row it promises: the   *)
(* status is the last write, and no retry, cancellation or redelivery      *)
(* removes or outruns the report.                                          *)
SuccessHasReport == \A t \in Tasks : row[t].status = "success" => t \in report
=============================================================================
