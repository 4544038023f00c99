-------------------------- MODULE DiagnosisTables ---------------------------
(***************************************************************************)
(* The database tables a diagnosis leaves rows in, as the operations       *)
(* around a diagnosis see them: the task row, the report and the           *)
(* remediation executions of its run, written in the order of              *)
(* Runtime.Run and runAgentDiagnosis, while the retention loop of          *)
(* OperationsService deletes old tasks whatever their state.               *)
(* Time is counted in windows of five minutes, the length of the alert     *)
(* deduplication window and of the default lease of a pod.                 *)
(***************************************************************************)
EXTENDS Integers, Sequences

CONSTANTS
    Pods,           \* "namespace/pod"
    Servers,        \* server processes sharing the database
    Retention,      \* operations.retention_days, in windows
    MaxTasks,       \* bound: task rows ever created
    MaxTime,        \* bound: windows a behaviour lasts
    MaxLost,        \* bound: storage calls that fail
    NoServer        \* "created by" of a task no webhook asked for

ASSUME TablesAssumption ==
    /\ Retention \in Nat \ {0} /\ MaxTasks \in Nat /\ MaxTime \in Nat /\ MaxLost \in Nat
    /\ NoServer \notin Servers

VARIABLES
    now,        \* the clock
    tasks,      \* every task row ever created: what it is about, and whether it is in the table
    run,        \* [1..MaxTasks -> place of its diagnosis]
    report,     \* tasks with a diagnosis_reports row
    execs,      \* remediation_executions rows ever created
    feedback,   \* tasks with a diagnosis_feedback row
    audit,      \* audit_logs: <<request, action, row>>
    dead,       \* tasks with a dead letter entry
    lost,       \* storage calls that failed so far
    unsaved     \* history: tasks whose final status could not be saved

tableVars == <<now, tasks, run, report, execs, feedback, audit, dead, lost, unsaved>>

Tasks == 1..MaxTasks
Rows  == {i \in Tasks : i <= Len(tasks)}
Window == 1     \* the deduplication window, and the lease of a pod

InTable(i) == i \in Rows /\ tasks[i].stored
Active(i)  == run[i] \in {"begin", "agent", "persist", "success", "failed"}

TaskType == [pod: Pods, alert: BOOLEAN, by: Servers \cup {NoServer}, created: 0..MaxTime,
             status: {"running", "success", "failed"}, stored: BOOLEAN]
ExecType == [task: Tasks, status: {"pending_approval", "manual_acknowledged", "blocked"},
             by: Nat, stored: BOOLEAN]

TablesTypeOK ==
    /\ now \in 0..MaxTime
    /\ tasks \in Seq(TaskType) /\ Len(tasks) <= MaxTasks
    /\ run \in [Tasks -> {"none", "begin", "agent", "persist", "success", "failed", "ended"}]
    /\ report \subseteq Tasks /\ feedback \subseteq Tasks
    /\ execs \in Seq(ExecType)
    /\ dead \subseteq Tasks /\ unsaved \subseteq Tasks
    /\ lost \in 0..MaxLost

TablesInit ==
    /\ now = 0
    /\ tasks = <<>>
    /\ run = [i \in Tasks |-> "none"]
    /\ report = {} /\ execs = <<>> /\ feedback = {} /\ audit = {} /\ dead = {}
    /\ lost = 0 /\ unsaved = {}

Lose == lost < MaxLost /\ lost' = lost + 1

\* gorm's Save: an update, or an insert with the same id when no row matched.
SaveRow(i, status) ==
    tasks' = [tasks EXCEPT ![i].status = status, ![i].stored = TRUE]

-----------------------------------------------------------------------------
(* The diagnosis of task i, in a goroutine or a queue worker.              *)

\* GetByID at the start: without a row, or when it fails, the run ends there and
\* saves nothing; the row, if it is there, stays running.
Load(i) ==
    /\ run[i] = "begin"
    /\ \/ /\ run' = [run EXCEPT ![i] = IF InTable(i) THEN "agent" ELSE "ended"]
          /\ UNCHANGED lost
       \/ Lose /\ run' = [run EXCEPT ![i] = "ended"]
    /\ UNCHANGED <<now, tasks, report, execs, feedback, audit, dead, unsaved>>

\* Runtime.Run ends with the executions of its remediation proposals: this task
\* has one of medium risk, which waits for approval.  Or the run fails before.
RunAgent(i) ==
    /\ run[i] = "agent"
    /\ \/ /\ execs' = Append(execs, [task |-> i, status |-> "pending_approval",
                                     by |-> 0, stored |-> TRUE])
          /\ run' = [run EXCEPT ![i] = "persist"]
          /\ UNCHANGED lost
       \/ /\ Lose
          /\ run' = [run EXCEPT ![i] = "failed"]
          /\ UNCHANGED execs
    /\ UNCHANGED <<now, tasks, report, feedback, audit, dead, unsaved>>

PersistReportMutant(i) ==
    /\ run[i] = "persist"
    /\ \/ report' = report \cup {i} /\ run' = [run EXCEPT ![i] = "success"] /\ UNCHANGED lost
       \/ Lose /\ run' = [run EXCEPT ![i] = "success"] /\ UNCHANGED report
    /\ UNCHANGED <<now, tasks, execs, feedback, audit, dead, unsaved>>

PersistReport(i) ==
    /\ run[i] = "persist"
    /\ \/ report' = report \cup {i} /\ run' = [run EXCEPT ![i] = "success"] /\ UNCHANGED lost
       \/ Lose /\ run' = [run EXCEPT ![i] = "failed"] /\ UNCHANGED report
    /\ UNCHANGED <<now, tasks, execs, feedback, audit, dead, unsaved>>

\* The final status is saved into the copy loaded at the start; a save that fails
\* is only logged.  A failed diagnosis may end in the dead letter table.
FinishRun(i) ==
    /\ run[i] \in {"success", "failed"}
    /\ run' = [run EXCEPT ![i] = "ended"]
    /\ \/ SaveRow(i, run[i]) /\ UNCHANGED <<lost, unsaved>>
       \/ Lose /\ unsaved' = unsaved \cup {i} /\ UNCHANGED tasks
    /\ dead' = IF run[i] = "failed" THEN dead \cup {i} ELSE dead
    /\ UNCHANGED <<now, report, execs, feedback, audit>>

-----------------------------------------------------------------------------
ExpiredMutant(i) == InTable(i) /\ tasks[i].created < now - Retention /\ tasks[i].status # "running"
Expired(i) == InTable(i) /\ tasks[i].created < now - Retention

\* CleanupOlderThan, one transaction: the children of every expired task, by
\* task id, and the task, finished or not.
SweptExecsMutant(ids) == execs
SweptExecs(ids) ==
    [e \in DOMAIN execs |-> [execs[e] EXCEPT !.stored = @ /\ execs[e].task \notin ids]]

Cleanup ==
    LET ids == {i \in Rows : Expired(i)}
    IN  /\ ids # {}
        /\ report' = report \ ids
        /\ execs' = SweptExecs(ids)
        /\ feedback' = feedback \ ids
        /\ tasks' = [i \in DOMAIN tasks |->
                        IF i \in ids THEN [tasks[i] EXCEPT !.stored = FALSE] ELSE tasks[i]]
        /\ UNCHANGED <<now, run, audit, dead, lost, unsaved>>

Tick ==
    /\ now < MaxTime
    /\ now' = now + 1
    /\ UNCHANGED <<tasks, run, report, execs, feedback, audit, dead, lost, unsaved>>

RunStep(i) == Load(i) \/ RunAgent(i) \/ PersistReport(i) \/ FinishRun(i)
=============================================================================
