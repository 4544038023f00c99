-------------------------- MODULE ControlPlaneProofs --------------------------
(***************************************************************************)
(* What the requests keep true of the tables, for any number of requests,  *)
(* servers, pods and tasks, any retention and any storage calls that fail. *)
(***************************************************************************)
EXTENDS ControlPlane, TLAPS

USE TablesAssumption, ControlAssumption

-----------------------------------------------------------------------------
(* Types.  What a request knows while it is under way: the row it decides about, reads or   *)
(* comments on exists, and the chunk it is about to write is one of its runbook.            *)

ReqSet == ReqType \cup {[pc |-> "new"]}

Sound(q) ==
    /\ req[q].pc = "decide" => req[q].kind \in {"approve", "reject"} /\ req[q].arg \in DOMAIN execs
    /\ req[q].pc = "insert" /\ req[q].kind = "feedback" => req[q].arg \in Rows
    /\ req[q].pc \in {"dedup", "query"} => req[q].kind = "alert"
    /\ req[q].pc = "lock" => req[q].kind \in {"alert", "diagnose", "retry"}
    /\ req[q].pc \in {"read", "load"} => req[q].kind = "stream" /\ req[q].arg \in Rows
    /\ req[q].pc \in {"write", "index"} => req[q].arg \in Chunks
    /\ req[q].pc = "index" => req[q].next \in 1..req[q].arg /\ req[q].task \in 1..runbook.version

TablesInv ==
    /\ TablesTypeOK
    /\ \A e \in DOMAIN execs : execs[e].task \in Rows
    /\ \A i \in Tasks : run[i] # "none" <=> i \in Rows
    /\ dead \subseteq Rows

RunbookInv == /\ runbook \in [version: Nat, chunks: 0..MaxChunks]
              /\ index \in [Chunks -> 0..runbook.version]
              /\ tangled \in BOOLEAN

TypeInv ==
    /\ TablesInv /\ RunbookInv
    /\ req \in [Requests -> ReqSet] /\ \A q \in Requests : Sound(q)
    /\ script \in Seq(KindsOf)
    /\ mutex \in [Servers -> {0} \cup Requests]
    /\ lease \in [LockMaps -> [Pods -> [token: {0} \cup Requests, end: Nat]]]
    /\ \A a \in audit : a.actor \in Requests

\* A step of request r leaves the other requests alone.
Moves(r) == /\ req' \in [Requests -> ReqSet] /\ req'[r] \in ReqType
            /\ \A q \in Requests \ {r} : req'[q] = req[q]

\* What never shrinks, and what every step leaves of it.
Grows == /\ Rows \subseteq Rows' /\ DOMAIN execs \subseteq DOMAIN execs'
         /\ runbook'.version \in Nat /\ runbook.version <= runbook'.version

LEMMA UnderWay == ASSUME req \in [Requests -> ReqSet], NEW r \in Requests, req[r].pc # "new"
                  PROVE  req[r] \in ReqType
BY DEF ReqSet

\* What a request is about never changes.
Same(r) == /\ req'[r].kind = req[r].kind /\ req'[r].srv = req[r].srv
           /\ req'[r].pod = req[r].pod /\ req'[r].arg = req[r].arg
Rest(r) == /\ req'[r].task = req[r].task /\ req'[r].seen = req[r].seen
           /\ req'[r].shown = req[r].shown /\ req'[r].next = req[r].next

LEMMA Steps ==
    ASSUME req \in [Requests -> ReqSet], NEW r \in Requests, req[r].pc # "new",
           NEW pc \in Places, Step(r, pc)
    PROVE  /\ Moves(r) /\ Same(r) /\ Rest(r)
           /\ req'[r].pc = pc /\ req'[r].out = req[r].out
<1>1. req[r] \in ReqType
  BY UnderWay
<1>2. req'[r] = [req[r] EXCEPT !.pc = pc]
  BY <1>1 DEF Step
<1>3. req'[r] \in ReqType /\ req'[r].pc = pc
  BY <1>1, <1>2 DEF ReqType
<1>4. \A q \in Requests \ {r} : req'[q] = req[q]
  BY DEF Step
<1>5. req' \in [Requests -> ReqSet]
  BY <1>3, <1>4 DEF Step, ReqSet
<1>6. Same(r) /\ Rest(r) /\ req'[r].out = req[r].out
  BY <1>1, <1>2 DEF ReqType, Same, Rest
<1> QED BY <1>3, <1>4, <1>5, <1>6 DEF Moves

LEMMA Answers ==
    ASSUME req \in [Requests -> ReqSet], NEW r \in Requests, req[r].pc # "new",
           NEW out \in {"ok", "deduped", "skipped", "error", "closed"}, Answer(r, out)
    PROVE  /\ Moves(r) /\ Same(r) /\ Rest(r)
           /\ req'[r].pc = "done" /\ req'[r].out = out
<1>1. req[r] \in ReqType
  BY UnderWay
<1>2. req'[r] = [req[r] EXCEPT !.pc = "done", !.out = out]
  BY <1>1 DEF Answer
<1>3. req'[r] \in ReqType /\ req'[r].pc = "done" /\ req'[r].out = out
  BY <1>1, <1>2 DEF ReqType, Places
<1>4. \A q \in Requests \ {r} : req'[q] = req[q]
  BY DEF Answer
<1>5. req' \in [Requests -> ReqSet]
  BY <1>3, <1>4 DEF Answer, ReqSet
<1>6. Same(r) /\ Rest(r)
  BY <1>1, <1>2 DEF ReqType, Same, Rest
<1> QED BY <1>3, <1>4, <1>5, <1>6 DEF Moves

\* A request that arrives.
LEMMA Arrived ==
    ASSUME req \in [Requests -> ReqSet], NEW r \in Requests, NEW kind \in KindsOf,
           NEW s \in Servers, NEW p \in Pods, NEW arg \in Nat, NEW pc \in Places,
           Arrive(r, kind, s, p, arg, pc)
    PROVE  /\ Moves(r) /\ req[r].pc = "new"
           /\ req'[r].kind = kind /\ req'[r].srv = s /\ req'[r].pod = p
           /\ req'[r].arg = arg /\ req'[r].pc = pc
           /\ req'[r].task = 0 /\ req'[r].out = "none" /\ req'[r].seen = "none"
<1> DEFINE rec == [kind |-> kind, pc |-> pc, srv |-> s, pod |-> p, arg |-> arg,
                   task |-> 0, out |-> "none", seen |-> "none", shown |-> "none", next |-> 0]
<1>1. req' = [req EXCEPT ![r] = rec] /\ req[r].pc = "new"
  BY DEF Arrive, At
<1>2. rec \in ReqType
  BY DEF ReqType
<1>3. req'[r] = rec /\ \A q \in Requests \ {r} : req'[q] = req[q]
  BY <1>1
<1>4. req' \in [Requests -> ReqSet]
  BY <1>1, <1>2 DEF ReqSet
<1> QED BY <1>1, <1>2, <1>3, <1>4 DEF Moves

\* What of it the later steps look at.
Came(r, kind, arg, pc) ==
    /\ Moves(r) /\ req[r].pc = "new"
    /\ req'[r].kind = kind /\ req'[r].arg = arg /\ req'[r].pc = pc
    /\ req'[r].task = 0 /\ req'[r].out = "none" /\ req'[r].seen = "none"

LEMMA CameIs ==
    ASSUME TypeInv, NEW r \in Requests, NEW kind \in KindsOf,
           NEW s \in Servers, NEW p \in Pods, NEW arg \in Nat, NEW pc \in Places,
           Arrive(r, kind, s, p, arg, pc)
    PROVE  Came(r, kind, arg, pc)
<1>1. req \in [Requests -> ReqSet]
  BY DEF TypeInv
<1> QED BY <1>1, Arrived DEF Came

\* The rows behind the ids a request arrives with are there.
LEMMA RowTypes ==
    ASSUME TablesInv
    PROVE  /\ Rows = 1..Len(tasks) /\ DOMAIN tasks = 1..Len(tasks) /\ Len(tasks) \in 0..MaxTasks
           /\ \A i \in Rows : tasks[i] \in TaskType /\ i \in Nat
           /\ \A e \in DOMAIN execs : e \in Nat /\ execs[e] \in ExecType
<1>1. tasks \in Seq(TaskType) /\ Len(tasks) <= MaxTasks /\ execs \in Seq(ExecType)
  BY DEF TablesInv, TablesTypeOK
<1>2. Rows = 1..Len(tasks) /\ Len(tasks) \in 0..MaxTasks
  BY <1>1 DEF Rows, Tasks
<1> QED BY <1>1, <1>2

Arrivals == {"dedup", "lock", "decide", "insert", "read", "write"}

LEMMA Arrival ==
    ASSUME TypeInv, NEW r \in Requests, RequestArrives(r)
    PROVE  /\ Moves(r) /\ req[r].pc = "new" /\ Sound(r)'
           /\ req'[r].pc \in Arrivals
           /\ req'[r].pc \in {"dedup"} <=> req'[r].kind = "alert"
           /\ req'[r].task = 0 /\ req'[r].out = "none" /\ req'[r].seen = "none"
           /\ UNCHANGED <<tableVars, script, mutex, lease, runbook, index, tangled>>
<1> DEFINE Goal == /\ Moves(r) /\ req[r].pc = "new" /\ Sound(r)'
                   /\ req'[r].pc \in Arrivals
                   /\ req'[r].pc \in {"dedup"} <=> req'[r].kind = "alert"
                   /\ req'[r].task = 0 /\ req'[r].out = "none" /\ req'[r].seen = "none"
                   /\ UNCHANGED <<tableVars, script, mutex, lease, runbook, index, tangled>>
<1> USE DEF Arrivals
<1>0. TablesInv
  BY DEF TypeInv
<1>1. CASE AlertArrives(r)
  <2>1. PICK s \in Servers, p \in Pods : Arrive(r, "alert", s, p, 0, "dedup")
    BY <1>1 DEF AlertArrives
  <2>2. Came(r, "alert", 0, "dedup")
    BY <2>1, CameIs DEF KindsOf, Places
  <2> QED BY <1>1, <2>2 DEF AlertArrives, Came, Sound
<1>2. CASE DiagnoseArrives(r)
  <2>1. PICK s \in Servers, p \in Pods, named \in 0..1 : Arrive(r, "diagnose", s, p, named, "lock")
    BY <1>2 DEF DiagnoseArrives
  <2>2. Came(r, "diagnose", named, "lock")
    BY <2>1, CameIs DEF KindsOf, Places
  <2> QED BY <1>2, <2>2 DEF DiagnoseArrives, Came, Sound
<1>3. CASE RetryArrives(r)
  <2>1. PICK s \in Servers, i \in dead : Arrive(r, "retry", s, tasks[i].pod, i, "lock")
    BY <1>3 DEF RetryArrives
  <2>2. i \in Nat /\ tasks[i].pod \in Pods
    BY <1>0, RowTypes DEF TablesInv, TaskType
  <2>3. Came(r, "retry", i, "lock")
    BY <2>1, <2>2, CameIs DEF KindsOf, Places
  <2> QED BY <1>3, <2>3 DEF RetryArrives, Came, Sound
<1>4. ASSUME NEW kind \in {"approve", "reject"}, DecideArrives(r, kind) PROVE Goal
  <2>1. PICK e \in DOMAIN execs : Arrive(r, kind, AnyServer, tasks[execs[e].task].pod, e, "decide")
    BY <1>4 DEF DecideArrives
  <2>2. e \in Nat /\ tasks[execs[e].task].pod \in Pods /\ AnyServer \in Servers
    BY <1>0, RowTypes DEF TablesInv, TaskType, AnyServer
  <2>3. UNCHANGED <<tableVars, script, mutex, lease, runbook, index, tangled>>
    BY <1>4 DEF DecideArrives
  <2>4. kind \in KindsOf /\ "decide" \in Places
    BY <1>4 DEF KindsOf, Places
  <2>5. Came(r, kind, e, "decide")
    BY <2>1, <2>2, <2>4, CameIs
  <2> QED BY <1>4, <2>1, <2>3, <2>5 DEF Came, Sound, tableVars
<1>5. CASE FeedbackArrives(r)
  <2>1. PICK i \in Rows : Arrive(r, "feedback", AnyServer, tasks[i].pod, i, "insert")
    BY <1>5 DEF FeedbackArrives
  <2>2. i \in Nat /\ tasks[i].pod \in Pods /\ AnyServer \in Servers
    BY <1>0, RowTypes DEF TaskType, AnyServer
  <2>3. UNCHANGED <<tableVars, script, mutex, lease, runbook, index, tangled>>
    BY <1>5 DEF FeedbackArrives
  <2>4. Rows' = Rows
    BY <2>3 DEF tableVars, Rows
  <2>5. Came(r, "feedback", i, "insert")
    BY <2>1, <2>2, CameIs DEF KindsOf, Places
  <2> QED BY <2>1, <2>3, <2>4, <2>5 DEF Came, Sound
<1>6. CASE StreamArrives(r)
  <2>1. PICK i \in Rows : Arrive(r, "stream", AnyServer, tasks[i].pod, i, "read")
    BY <1>6 DEF StreamArrives
  <2>2. i \in Nat /\ tasks[i].pod \in Pods /\ AnyServer \in Servers
    BY <1>0, RowTypes DEF TaskType, AnyServer
  <2>3. UNCHANGED <<tableVars, script, mutex, lease, runbook, index, tangled>>
    BY <1>6 DEF StreamArrives
  <2>4. Rows' = Rows
    BY <2>3 DEF tableVars, Rows
  <2>5. Came(r, "stream", i, "read")
    BY <2>1, <2>2, CameIs DEF KindsOf, Places
  <2> QED BY <2>1, <2>3, <2>4, <2>5 DEF Came, Sound
<1>7. ASSUME NEW kind \in {"create", "update"}, NEW n \in Chunks,
             Arrive(r, kind, AnyServer, AnyPod, n, "write"),
             UNCHANGED <<tableVars, script, mutex, lease, runbook, index, tangled>>
      PROVE  Goal
  <2>1. n \in Nat /\ AnyServer \in Servers /\ AnyPod \in Pods
    BY DEF Chunks, AnyServer, AnyPod
  <2>2. kind \in KindsOf /\ "write" \in Places
    BY <1>7 DEF KindsOf, Places
  <2>3. Came(r, kind, n, "write")
    BY <1>7, <2>1, <2>2, CameIs
  <2> QED BY <1>7, <2>3 DEF Came, Sound
<1>8. CASE CreateArrives(r)
  BY <1>7, <1>8 DEF CreateArrives
<1>9. CASE UpdateArrives(r)
  BY <1>7, <1>9 DEF UpdateArrives
<1> QED BY <1>1, <1>2, <1>3, <1>4, <1>5, <1>6, <1>8, <1>9 DEF RequestArrives

-----------------------------------------------------------------------------
(* The tables.                                                                               *)

\* A run's own steps.  They insert no task row and delete none.
LEMMA RunTypes ==
    ASSUME TablesInv, NEW i \in Tasks, RunStep(i)
    PROVE  /\ TablesInv' /\ Rows' = Rows /\ DOMAIN execs \subseteq DOMAIN execs'
           /\ audit' = audit
<1> USE DEF TablesInv
<1>1. i \in Rows /\ run' \in [Tasks -> {"none", "begin", "agent", "persist", "success", "failed", "ended"}]
                 /\ \A j \in Tasks : run'[j] # "none" <=> run[j] # "none"
  BY DEF TablesTypeOK, RunStep, Load, RunAgent, PersistReport, FinishRun
<1>2. CASE Load(i)
  <2>1. UNCHANGED <<now, tasks, report, execs, feedback, audit, dead, unsaved>>
    BY <1>2 DEF Load
  <2>2. lost' \in 0..MaxLost
    BY <1>2 DEF Load, Lose, TablesTypeOK
  <2> QED BY <1>1, <2>1, <2>2 DEF TablesTypeOK, Rows
<1>3. CASE RunAgent(i)
  <2>1. UNCHANGED <<now, tasks, report, feedback, audit, dead, unsaved>>
    BY <1>3 DEF RunAgent
  <2>2. lost' \in 0..MaxLost
    BY <1>3 DEF RunAgent, Lose, TablesTypeOK
  <2>3. /\ execs' \in Seq(ExecType) /\ DOMAIN execs \subseteq DOMAIN execs'
        /\ \A e \in DOMAIN execs' : execs'[e].task \in Rows
    <3>1. CASE execs' = execs
      BY <3>1 DEF TablesTypeOK
    <3> DEFINE new == [task |-> i, status |-> "pending_approval", by |-> 0, stored |-> TRUE]
    <3>2. CASE execs' = Append(execs, new)
      <4>1. new \in ExecType /\ execs \in Seq(ExecType)
        BY DEF ExecType, TablesTypeOK
      <4>2. /\ execs' \in Seq(ExecType) /\ Len(execs') = Len(execs) + 1
            /\ execs'[Len(execs) + 1] = new
            /\ \A e \in 1..Len(execs) : execs'[e] = execs[e]
        BY <3>2, <4>1
      <4>3. DOMAIN execs = 1..Len(execs) /\ DOMAIN execs' = 1..(Len(execs) + 1)
        BY <4>1, <4>2
      <4> QED BY <1>1, <4>1, <4>2, <4>3
    <3> QED BY <1>3, <3>1, <3>2 DEF RunAgent
  <2>4. Rows' = Rows
    BY <2>1 DEF Rows
  <2>5. TablesTypeOK'
    BY <1>1, <2>1, <2>2, <2>3 DEF TablesTypeOK
  <2> QED BY <1>1, <2>1, <2>3, <2>4, <2>5
<1>4. CASE PersistReport(i)
  <2>1. UNCHANGED <<now, tasks, execs, feedback, audit, dead, unsaved>>
    BY <1>4 DEF PersistReport
  <2>2. lost' \in 0..MaxLost /\ report' \subseteq Tasks
    BY <1>4 DEF PersistReport, Lose, TablesTypeOK
  <2> QED BY <1>1, <2>1, <2>2 DEF TablesTypeOK, Rows
<1>5. CASE FinishRun(i)
  <2>1. UNCHANGED <<now, report, execs, feedback, audit>>
    BY <1>5 DEF FinishRun
  <2>2. lost' \in 0..MaxLost /\ unsaved' \subseteq Tasks /\ dead' \subseteq Rows
    BY <1>1, <1>5 DEF FinishRun, Lose, TablesTypeOK
  <2>3. tasks' \in Seq(TaskType) /\ Len(tasks') = Len(tasks)
    <3>1. tasks \in Seq(TaskType) /\ i \in 1..Len(tasks)
      BY <1>1, RowTypes DEF TablesTypeOK
    <3>2. CASE tasks' = tasks
      BY <3>1, <3>2
    <3>3. CASE SaveRow(i, run[i])
      <4>1. run[i] \in {"success", "failed"}
        BY <1>5 DEF FinishRun
      <4>2. tasks' = [tasks EXCEPT ![i] = [tasks[i] EXCEPT !.status = run[i], !.stored = TRUE]]
        BY <3>3, <3>1 DEF SaveRow
      <4> DEFINE row == [tasks[i] EXCEPT !.status = run[i], !.stored = TRUE]
      <4>3. row \in TaskType
        <5>1. tasks[i] \in TaskType
          BY <3>1
        <5>2. row = [tasks[i] EXCEPT !.status = run[i], !.stored = TRUE]
          OBVIOUS
        <5> HIDE DEF row
        <5> QED BY <4>1, <5>1, <5>2 DEF TaskType
      <4> QED BY <3>1, <4>2, <4>3
    <3> QED BY <1>5, <3>2, <3>3 DEF FinishRun
  <2>4. Rows' = Rows
    BY <2>3 DEF Rows
  <2>5. dead' \subseteq Tasks
    BY <2>2 DEF Rows
  <2>6. TablesTypeOK'
    BY <1>1, <2>1, <2>2, <2>3, <2>5 DEF TablesTypeOK
  <2> QED BY <1>1, <2>1, <2>2, <2>4, <2>6
<1> QED BY <1>2, <1>3, <1>4, <1>5 DEF RunStep

LEMMA UnstoredExec ==
    ASSUME NEW x \in ExecType, NEW b \in BOOLEAN
    PROVE  /\ [x EXCEPT !.stored = b] \in ExecType
           /\ [x EXCEPT !.stored = b].status = x.status /\ [x EXCEPT !.stored = b].by = x.by
           /\ [x EXCEPT !.stored = b].task = x.task /\ [x EXCEPT !.stored = b].stored = b
BY DEF ExecType

LEMMA UnstoredTask ==
    ASSUME NEW x \in TaskType, NEW b \in BOOLEAN
    PROVE  /\ [x EXCEPT !.stored = b] \in TaskType
           /\ [x EXCEPT !.stored = b].created = x.created /\ [x EXCEPT !.stored = b].alert = x.alert
           /\ [x EXCEPT !.stored = b].by = x.by /\ [x EXCEPT !.stored = b].pod = x.pod
           /\ [x EXCEPT !.stored = b].status = x.status /\ [x EXCEPT !.stored = b].stored = b
BY DEF TaskType

\* What a row says of its origin never changes.
SameTask(i) == /\ tasks'[i].created = tasks[i].created /\ tasks'[i].alert = tasks[i].alert
               /\ tasks'[i].by = tasks[i].by /\ tasks'[i].pod = tasks[i].pod
               /\ tasks'[i].status = tasks[i].status

\* Retention keeps the ids: a row it deletes may come back with its own.
LEMMA CleanupTypes ==
    ASSUME TablesInv, Cleanup
    PROVE  /\ TablesInv' /\ Rows' = Rows /\ DOMAIN execs' = DOMAIN execs
           /\ \A e \in DOMAIN execs : /\ execs'[e].status = execs[e].status
                                      /\ execs'[e].by = execs[e].by
                                      /\ execs'[e].task = execs[e].task
           /\ UNCHANGED <<now, run, audit, dead, lost, unsaved>>
           /\ \A i \in Rows : /\ SameTask(i)
                              /\ tasks'[i] = tasks[i] \/ Expired(i)
<1> USE DEF TablesInv
<1> DEFINE ids == {i \in Rows : Expired(i)}
<1>1. /\ report' = report \ ids /\ execs' = SweptExecs(ids) /\ feedback' = feedback \ ids
      /\ tasks' = [i \in DOMAIN tasks |->
                      IF i \in ids THEN [tasks[i] EXCEPT !.stored = FALSE] ELSE tasks[i]]
      /\ UNCHANGED <<now, run, audit, dead, lost, unsaved>>
  BY DEF Cleanup
<1> HIDE DEF ids
<1>2. /\ execs \in Seq(ExecType) /\ DOMAIN execs = 1..Len(execs) /\ Len(execs) \in Nat
      /\ tasks \in Seq(TaskType) /\ DOMAIN tasks = 1..Len(tasks) /\ Len(tasks) \in Nat
  BY DEF TablesTypeOK
<1>3. ASSUME NEW e \in DOMAIN execs
      PROVE  /\ execs'[e] \in ExecType /\ execs'[e].status = execs[e].status
             /\ execs'[e].by = execs[e].by /\ execs'[e].task = execs[e].task
  <2> DEFINE b == execs[e].stored /\ execs[e].task \notin ids
  <2>1. execs'[e] = [execs[e] EXCEPT !.stored = b]
    BY <1>1, <1>2 DEF SweptExecs
  <2>2. b \in BOOLEAN /\ execs[e] \in ExecType
    BY <1>2
  <2> HIDE DEF b
  <2> QED BY <2>1, <2>2, UnstoredExec
<1>4. execs' \in Seq(ExecType) /\ DOMAIN execs' = DOMAIN execs
  <2>1. execs' = [e \in 1..Len(execs) |-> execs'[e]]
    BY <1>1, <1>2 DEF SweptExecs
  <2>2. \A e \in 1..Len(execs) : execs'[e] \in ExecType
    BY <1>2, <1>3
  <2> QED BY <1>2, <2>1, <2>2
<1>5. ASSUME NEW i \in DOMAIN tasks
      PROVE  /\ tasks'[i] \in TaskType /\ SameTask(i)
             /\ IF i \in ids THEN tasks'[i].stored = FALSE ELSE tasks'[i] = tasks[i]
  <2>1. tasks[i] \in TaskType
    BY <1>2
  <2>2. CASE i \in ids
    <3>1. tasks'[i] = [tasks[i] EXCEPT !.stored = FALSE]
      BY <1>1, <2>2
    <3> QED BY <2>1, <2>2, <3>1, UnstoredTask DEF SameTask
  <2>3. CASE i \notin ids
    <3>1. tasks'[i] = tasks[i]
      BY <1>1, <2>3
    <3> QED BY <2>1, <2>3, <3>1 DEF SameTask
  <2> QED BY <2>2, <2>3
<1>6. tasks' \in Seq(TaskType) /\ Len(tasks') = Len(tasks)
  <2>1. tasks' = [i \in 1..Len(tasks) |-> tasks'[i]]
    BY <1>1, <1>2
  <2>2. \A i \in 1..Len(tasks) : tasks'[i] \in TaskType
    BY <1>2, <1>5
  <2> QED BY <1>2, <2>1, <2>2
<1>7. Rows' = Rows
  BY <1>6 DEF Rows
<1>8. \A i \in Rows : SameTask(i) /\ (tasks'[i] = tasks[i] \/ Expired(i))
  <2>1. \A i \in Rows : i \in DOMAIN tasks
    BY <1>2 DEF Rows, Tasks
  <2> QED BY <1>5, <2>1 DEF ids
<1> QED BY <1>1, <1>3, <1>4, <1>6, <1>7, <1>8 DEF TablesTypeOK

-----------------------------------------------------------------------------
(* The handlers.                                                                             *)

\* A request keeps what it knows while others move.
LEMMA Frame ==
    ASSUME TypeInv, NEW r \in Requests, Moves(r), Grows, Sound(r)'
    PROVE  req' \in [Requests -> ReqSet] /\ \A q \in Requests : Sound(q)'
<1>1. req' \in [Requests -> ReqSet]
  BY DEF Moves
<1>2. ASSUME NEW q \in Requests, q # r PROVE Sound(q)'
  <2>1. req'[q] = req[q] /\ Sound(q)
    BY <1>2 DEF Moves, TypeInv
  <2>2. runbook.version \in Nat /\ runbook'.version >= runbook.version
    BY DEF Grows, TypeInv, RunbookInv
  <2>3. Chunks' = Chunks
    BY DEF Chunks
  <2>4. 1..runbook.version \subseteq 1..runbook'.version
    BY <2>2 DEF Grows
  <2> QED BY <2>1, <2>3, <2>4 DEF Grows, Sound
<1> QED BY <1>1, <1>2

\* A step of a request that leaves the tables and the runbook alone.
LEMMA QuietTypes ==
    ASSUME TypeInv, NEW r \in Requests, Moves(r), Sound(r)',
           UNCHANGED <<tableVars, script, runbook, index, tangled>>,
           mutex' \in [Servers -> {0} \cup Requests],
           lease' \in [LockMaps -> [Pods -> [token: {0} \cup Requests, end: Nat]]]
    PROVE  TypeInv' /\ Grows
<1>1. TablesInv' /\ Rows' = Rows
  BY DEF TypeInv, TablesInv, TablesTypeOK, tableVars, Rows
<1>2. RunbookInv'
  BY DEF TypeInv, RunbookInv
<1>3. Grows
  BY <1>1 DEF Grows, tableVars, TypeInv, RunbookInv
<1> QED BY <1>1, <1>2, <1>3, Frame DEF TypeInv, tableVars

LEMMA Unlocked ==
    ASSUME TypeInv, NEW r \in Requests, UnlockDedup(r)
    PROVE  mutex' \in [Servers -> {0} \cup Requests]
BY DEF UnlockDedup, TypeInv

LEMMA GivenBack ==
    ASSUME TypeInv, NEW r \in Requests, GiveBack(r)
    PROVE  lease' \in [LockMaps -> [Pods -> [token: {0} \cup Requests, end: Nat]]]
BY DEF GiveBack, TypeInv, NoLease

LeaseType == [LockMaps -> [Pods -> [token: {0} \cup Requests, end: Nat]]]
MutexType == [Servers -> {0} \cup Requests]

\* A step of a request that changes the tables, and keeps the runbook.
LEMMA TableTypes ==
    ASSUME TypeInv, NEW r \in Requests, Moves(r), Sound(r)', TablesInv',
           Rows \subseteq Rows', DOMAIN execs \subseteq DOMAIN execs',
           UNCHANGED <<script, runbook, index, tangled>>,
           mutex' \in MutexType, lease' \in LeaseType, \A a \in audit' : a.actor \in Requests
    PROVE  TypeInv' /\ Grows
<1>1. RunbookInv' /\ Grows
  BY DEF TypeInv, RunbookInv, Grows
<1> QED BY <1>1, Frame DEF TypeInv, MutexType, LeaseType

\* All of the tables but the count of failed calls.
Unwrote == UNCHANGED <<now, tasks, run, report, execs, feedback, audit, dead, unsaved>>

\* A step of a request that at most loses a storage call.
LEMMA LosingTypes ==
    ASSUME TypeInv, NEW r \in Requests, Moves(r), Sound(r)', Unwrote, Lose \/ UNCHANGED lost,
           UNCHANGED <<script, runbook, index, tangled>>,
           mutex' \in MutexType, lease' \in LeaseType
    PROVE  TypeInv'
<1>1. lost' \in 0..MaxLost
  BY DEF TypeInv, TablesInv, TablesTypeOK, Lose
<1>2. Rows' = Rows /\ TablesInv' /\ \A a \in audit' : a.actor \in Requests
  BY <1>1 DEF Unwrote, Rows, TypeInv, TablesInv, TablesTypeOK
<1> QED BY <1>2, TableTypes DEF Unwrote

LEMMA LockDedupTypes ==
    ASSUME TypeInv, NEW r \in Requests, LockDedup(r)
    PROVE  TypeInv' /\ Moves(r) /\ Same(r) /\ Rest(r) /\ req[r].pc = "dedup" /\ req'[r].pc = "query"
<1>1. req \in [Requests -> ReqSet] /\ req[r].pc = "dedup" /\ Step(r, "query")
  BY DEF LockDedup, At, TypeInv
<1>2. Moves(r) /\ Same(r) /\ Rest(r) /\ req'[r].pc = "query"
  BY <1>1, Steps DEF Places
<1>3. mutex' \in [Servers -> {0} \cup Requests]
  BY DEF LockDedup, TypeInv
<1>4. UNCHANGED <<tableVars, script, lease, runbook, index, tangled>>
  BY DEF LockDedup
<1>5. Sound(r)'
  BY <1>1, <1>2 DEF Sound, Same, TypeInv
<1> QED BY <1>1, <1>2, <1>3, <1>4, <1>5, QuietTypes DEF TypeInv

LEMMA QueryRecentTypes ==
    ASSUME TypeInv, NEW r \in Requests, QueryRecent(r)
    PROVE  TypeInv' /\ Moves(r) /\ Same(r) /\ req[r].pc = "query" /\ req'[r].pc \in {"lock", "done"}
           /\ Unwrote /\ UNCHANGED <<script, lease, runbook, index, tangled>>
<1>1. req \in [Requests -> ReqSet] /\ req[r].pc = "query"
  BY DEF QueryRecent, At, TypeInv
<1>2. /\ Unwrote /\ UNCHANGED <<script, lease, runbook, index, tangled>>
      /\ lease' \in LeaseType
  BY DEF QueryRecent, Unwrote, TypeInv, LeaseType
<1>3. CASE Step(r, "lock") /\ UNCHANGED <<mutex, lost>>
  <2>1. Moves(r) /\ Same(r) /\ req'[r].pc = "lock"
    BY <1>1, <1>3, Steps DEF Places
  <2>2. Sound(r)'
    BY <1>1, <2>1 DEF Sound, Same, TypeInv
  <2>3. mutex' \in MutexType
    BY <1>3 DEF TypeInv, MutexType
  <2> QED BY <1>1, <1>2, <1>3, <2>1, <2>2, <2>3, LosingTypes
<1>4. ASSUME NEW i \in Recent(req[r].pod), UnlockDedup(r), UNCHANGED lost,
             req' = [req EXCEPT ![r].pc = "done", ![r].out = "deduped", ![r].task = i]
      PROVE  TypeInv' /\ Moves(r) /\ Same(r) /\ req'[r].pc = "done"
  <2>1. req' = [req EXCEPT ![r].pc = "done", ![r].out = "deduped", ![r].task = i]
    BY <1>4
  <2>2. i \in Nat
    BY RowTypes DEF Recent, TypeInv
  <2>3. req[r] \in ReqType
    BY <1>1, UnderWay
  <2>4. req'[r] = [req[r] EXCEPT !.pc = "done", !.out = "deduped", !.task = i]
    BY <2>1, <1>1
  <2>5. req'[r] \in ReqType /\ req'[r].pc = "done"
    BY <2>2, <2>3, <2>4 DEF ReqType, Places
  <2>6. Same(r)
    BY <2>3, <2>4 DEF ReqType, Same
  <2>7. \A q \in Requests \ {r} : req'[q] = req[q]
    <3>1. req' = [req EXCEPT ![r] = req'[r]]
      BY <1>1, <2>1
    <3> QED BY <1>1, <3>1
  <2>8. req' \in [Requests -> ReqSet]
    BY <2>1, <2>5, <2>7, <1>1 DEF ReqSet
  <2>9. Moves(r) /\ Sound(r)'
    BY <2>5, <2>7, <2>8 DEF Moves, Sound
  <2>10. mutex' \in MutexType
    BY <1>4, Unlocked DEF MutexType
  <2> QED BY <1>2, <1>4, <2>5, <2>6, <2>9, <2>10, LosingTypes
<1>5. CASE Lose /\ Answer(r, "error") /\ UnlockDedup(r)
  <2>1. Moves(r) /\ Same(r) /\ req'[r].pc = "done"
    BY <1>1, <1>5, Answers
  <2>2. mutex' \in MutexType /\ Sound(r)'
    BY <1>5, <2>1, Unlocked DEF Sound, MutexType
  <2> QED BY <1>1, <1>2, <1>5, <2>1, <2>2, LosingTypes
<1> QED BY <1>1, <1>2, <1>3, <1>4, <1>5 DEF QueryRecent

LEMMA AcquirePodTypes ==
    ASSUME TypeInv, NEW r \in Requests, AcquirePod(r)
    PROVE  /\ TypeInv' /\ Moves(r) /\ Same(r) /\ Rest(r)
           /\ req[r].pc = "lock" /\ req'[r].pc \in {"insert", "done"}
           /\ Unwrote /\ UNCHANGED <<script, runbook, index, tangled>>
<1> DEFINE m == MapOf(req[r].srv)
<1>1. req \in [Requests -> ReqSet] /\ req[r].pc = "lock" /\ req[r] \in ReqType
  BY UnderWay DEF AcquirePod, At, TypeInv
<1>2. Unwrote /\ UNCHANGED <<script, runbook, index, tangled>>
  BY DEF AcquirePod, Unwrote
<1>3. req[r].pod \in Pods /\ req[r].srv \in Servers /\ m \in LockMaps
  BY <1>1 DEF ReqType, MapOf, LockMaps
<1>4. CASE /\ lease' = [lease EXCEPT ![m][req[r].pod] = [token |-> r, end |-> now + Window]]
           /\ Step(r, "insert") /\ UNCHANGED <<mutex, lost>>
  <2>1. Moves(r) /\ Same(r) /\ Rest(r) /\ req'[r].pc = "insert"
    BY <1>1, <1>4, Steps DEF Places
  <2>2. now + Window \in Nat
    BY DEF TypeInv, TablesInv, TablesTypeOK, Window
  <2>3. [token |-> r, end |-> now + Window] \in [token: {0} \cup Requests, end: Nat]
    BY <2>2
  <2>4. lease' \in LeaseType /\ mutex' \in MutexType
    BY <1>3, <1>4, <2>3 DEF TypeInv, LeaseType, MutexType
  <2>5. Sound(r)
    BY DEF TypeInv
  <2>6. Sound(r)'
    BY <1>1, <2>1, <2>5 DEF Sound, Same
  <2> QED BY <1>1, <1>2, <1>4, <2>1, <2>4, <2>6, LosingTypes
<1>5. ASSUME NEW out \in {"skipped", "error"}, Answer(r, out), UnlockDedup(r), UNCHANGED lease,
             Lose \/ UNCHANGED lost
      PROVE  TypeInv' /\ Moves(r) /\ Same(r) /\ Rest(r) /\ req'[r].pc = "done"
  <2>1. Moves(r) /\ Same(r) /\ Rest(r) /\ req'[r].pc = "done"
    BY <1>1, <1>5, Answers
  <2>2. mutex' \in MutexType /\ lease' \in LeaseType /\ Sound(r)'
    BY <1>5, <2>1, Unlocked DEF Sound, MutexType, LeaseType, TypeInv
  <2> QED BY <1>2, <1>5, <2>1, <2>2, LosingTypes
<1> QED BY <1>1, <1>2, <1>4, <1>5 DEF AcquirePod

\* The row a request inserts.
Inserted(r) ==
    LET n == Len(tasks) + 1 IN
    /\ n \in Tasks /\ Len(tasks') = n /\ \A i \in Rows : tasks'[i] = tasks[i]
    /\ tasks'[n].pod = req[r].pod /\ tasks'[n].created = now /\ tasks'[n].stored = TRUE
    /\ tasks'[n].status = "running"
    /\ tasks'[n].by = IF req[r].kind = "alert" THEN req[r].srv ELSE NoServer
    /\ run' = [run EXCEPT ![n] = "begin"]

LEMMA CreateTaskTypes ==
    ASSUME TypeInv, NEW r \in Requests, CreateTask(r)
    PROVE  /\ TypeInv' /\ Moves(r) /\ Same(r)
           /\ req[r].pc = "insert" /\ req'[r].pc \in {"done", "audit"}
           /\ UNCHANGED <<now, report, execs, feedback, audit, dead, unsaved, runbook, index, tangled>>
           /\ req[r].kind \in {"alert", "diagnose", "retry"}
           /\ UnlockDedup(r)
           /\ \/ UNCHANGED <<tasks, run>>
              \/ Inserted(r) /\ (req'[r].pc = "done" <=> req[r].kind = "alert")
<1> DEFINE i == Len(tasks) + 1
           row == [pod |-> req[r].pod, alert |-> NamesAlert(r),
                   by |-> IF req[r].kind = "alert" THEN req[r].srv ELSE NoServer,
                   created |-> now, status |-> "running", stored |-> TRUE]
<1>1. /\ req \in [Requests -> ReqSet] /\ req[r].pc = "insert" /\ req[r] \in ReqType
      /\ req[r].kind \in {"alert", "diagnose", "retry"}
  BY UnderWay DEF CreateTask, At, TypeInv
<1>2. UNCHANGED <<now, report, execs, feedback, audit, dead, unsaved, script, runbook, index, tangled>>
  BY DEF CreateTask
<1>3. mutex' \in MutexType /\ UnlockDedup(r)
  BY Unlocked DEF CreateTask, MutexType
<1>4. CASE /\ i <= MaxTasks /\ tasks' = Append(tasks, row) /\ run' = [run EXCEPT ![i] = "begin"]
           /\ req' = [req EXCEPT ![r].task = i, ![r].out = "ok",
                                 ![r].pc = IF req[r].kind = "alert" THEN "done" ELSE "audit"]
           /\ UNCHANGED <<lease, lost>>
  <2>1. tasks \in Seq(TaskType) /\ Len(tasks) \in Nat /\ Rows = 1..Len(tasks)
    BY RowTypes DEF TypeInv, TablesInv, TablesTypeOK
  <2>2. row \in TaskType
    <3>1. req[r].pod \in Pods /\ req[r].srv \in Servers /\ now \in 0..MaxTime
      BY <1>1 DEF ReqType, TypeInv, TablesInv, TablesTypeOK
    <3>2. NamesAlert(r) \in BOOLEAN
      BY DEF NamesAlert
    <3> QED BY <3>1, <3>2 DEF TaskType
  <2>3. tasks' \in Seq(TaskType) /\ Len(tasks') = i /\ i \in Tasks
    BY <1>4, <2>1, <2>2 DEF Tasks
  <2>4. Rows' = Rows \cup {i}
    BY <2>1, <2>3 DEF Rows, Tasks
  <2>5. run' \in [Tasks -> {"none", "begin", "agent", "persist", "success", "failed", "ended"}]
    BY <1>4, <2>3 DEF TypeInv, TablesInv, TablesTypeOK
  <2>6. \A j \in Tasks : run'[j] # "none" <=> j \in Rows'
    BY <1>4, <2>3, <2>4 DEF TypeInv, TablesInv, TablesTypeOK
  <2>7. TablesTypeOK'
    BY <1>2, <1>4, <2>3, <2>5 DEF TypeInv, TablesInv, TablesTypeOK
  <2>8. TablesInv'
    BY <1>2, <2>4, <2>6, <2>7 DEF TypeInv, TablesInv
  <2> DEFINE pc == IF req[r].kind = "alert" THEN "done" ELSE "audit"
  <2>9. req'[r] = [req[r] EXCEPT !.task = i, !.out = "ok", !.pc = pc]
    BY <1>1, <1>4
  <2>10. req'[r] \in ReqType /\ req'[r].pc \in {"done", "audit"}
    <3>1. pc \in {"done", "audit"} /\ i \in Nat
      BY <2>1
    <3> HIDE DEF pc, i
    <3> QED BY <1>1, <2>9, <3>1 DEF ReqType, Places
  <2>11. Same(r)
    BY <1>1, <2>9 DEF ReqType, Same
  <2>12. req' = [req EXCEPT ![r] = req'[r]]
    BY <1>1, <1>4
  <2>13. req' \in [Requests -> ReqSet] /\ \A q \in Requests \ {r} : req'[q] = req[q]
    BY <1>1, <2>10, <2>12 DEF ReqSet
  <2>14. Moves(r) /\ Sound(r)'
    BY <2>10, <2>13 DEF Moves, Sound
  <2>15. lease' \in LeaseType /\ \A a \in audit' : a.actor \in Requests
    BY <1>2, <1>4 DEF TypeInv, LeaseType
  <2>16. TypeInv'
    BY <1>2, <1>3, <2>4, <2>8, <2>14, <2>15, TableTypes
  <2>17. tasks'[i] = row /\ \A j \in Rows : tasks'[j] = tasks[j]
    <3> HIDE DEF row
    <3> QED BY <1>4, <2>1, <2>2
  <2>18. Inserted(r)
    <3>1. /\ row.pod = req[r].pod /\ row.created = now /\ row.stored = TRUE
          /\ row.status = "running" /\ row.by = IF req[r].kind = "alert" THEN req[r].srv ELSE NoServer
      OBVIOUS
    <3> HIDE DEF row
    <3> QED BY <1>4, <2>3, <2>17, <3>1 DEF Inserted
  <2>19. req'[r].pc = "done" <=> req[r].kind = "alert"
    BY <1>1, <2>9 DEF ReqType
  <2> QED BY <1>1, <1>2, <1>3, <2>10, <2>11, <2>14, <2>16, <2>18, <2>19
<1>5. CASE Lose /\ GiveBack(r) /\ Answer(r, "error") /\ UNCHANGED <<tasks, run>>
  <2>1. Moves(r) /\ Same(r) /\ req'[r].pc = "done"
    BY <1>1, <1>5, Answers
  <2>2. Sound(r)' /\ lease' \in LeaseType /\ \A a \in audit' : a.actor \in Requests
    BY <1>2, <1>5, <2>1, GivenBack DEF TypeInv, LeaseType, Sound
  <2>3. Rows' = Rows /\ TablesInv'
    BY <1>2, <1>5 DEF Rows, TypeInv, TablesInv, TablesTypeOK, Lose
  <2>4. TypeInv'
    BY <1>2, <1>3, <2>1, <2>2, <2>3, TableTypes
  <2> QED BY <1>1, <1>2, <1>3, <1>5, <2>1, <2>4
<1> HIDE DEF row
<1> QED BY <1>4, <1>5 DEF CreateTask, row

LEMMA DecideTypes ==
    ASSUME TypeInv, NEW r \in Requests, Decide(r)
    PROVE  /\ TypeInv' /\ Moves(r) /\ Same(r)
           /\ req[r].pc = "decide" /\ req'[r].pc \in {"done", "audit"}
           /\ UNCHANGED <<now, tasks, run, report, feedback, audit, dead, unsaved, runbook, index, tangled>>
           /\ UNCHANGED <<mutex, lease>>
           /\ Len(execs') = Len(execs)
           /\ \A e \in DOMAIN execs : /\ execs'[e].task = execs[e].task
                                      /\ execs'[e].stored <=> execs[e].stored
<1> DEFINE e == req[r].arg
<1>1. /\ req \in [Requests -> ReqSet] /\ req[r].pc = "decide" /\ req[r] \in ReqType /\ Sound(r)
  BY UnderWay DEF Decide, At, TypeInv
<1>2. /\ UNCHANGED <<now, tasks, run, report, feedback, audit, dead, unsaved>>
      /\ UNCHANGED <<script, mutex, lease, runbook, index, tangled>>
  BY DEF Decide
<1>3. /\ execs \in Seq(ExecType) /\ e \in DOMAIN execs /\ execs[e] \in ExecType
      /\ req[r].kind \in {"approve", "reject"}
  BY <1>1, RowTypes DEF Sound, TypeInv, TablesInv, TablesTypeOK
<1>4. Rows' = Rows
  BY <1>2 DEF Rows
<1>5. CASE Step(r, "audit") /\ UNCHANGED lost
           /\ execs' = IF Undecided(e)
                       THEN [execs EXCEPT ![e].status = Verdict(req[r].kind), ![e].by = r] ELSE execs
  <2>1. Moves(r) /\ Same(r) /\ req'[r].pc = "audit"
    BY <1>1, <1>5, Steps DEF Places
  <2>2. \/ execs' = execs
        \/ execs' = [execs EXCEPT ![e] = [execs[e] EXCEPT !.status = Verdict(req[r].kind), !.by = r]]
    BY <1>3, <1>5
  <2> DEFINE x == [execs[e] EXCEPT !.status = Verdict(req[r].kind), !.by = r]
  <2>3. x \in ExecType /\ x.task = execs[e].task /\ x.stored = execs[e].stored
    <3>1. Verdict(req[r].kind) \in {"manual_acknowledged", "blocked"} /\ r \in Nat
      BY DEF Verdict, Requests
    <3> QED BY <1>3, <3>1 DEF ExecType
  <2> HIDE DEF x
  <2>4. /\ execs' \in Seq(ExecType) /\ Len(execs') = Len(execs) /\ DOMAIN execs' = DOMAIN execs
        /\ \A f \in DOMAIN execs : /\ execs'[f].task = execs[f].task
                                   /\ execs'[f].stored <=> execs[f].stored
    <3>1. CASE execs' = execs
      BY <1>3, <3>1
    <3>2. CASE execs' = [execs EXCEPT ![e] = x]
      BY <1>3, <2>3, <3>2
    <3> QED BY <2>2, <3>1, <3>2 DEF x
  <2>5. TablesTypeOK'
    BY <1>2, <1>5, <2>4 DEF TypeInv, TablesInv, TablesTypeOK
  <2>6. TablesInv'
    BY <1>2, <1>4, <2>4, <2>5 DEF TypeInv, TablesInv
  <2>7. TypeInv'
    BY <1>2, <1>4, <2>1, <2>4, <2>6, TableTypes DEF TypeInv, MutexType, LeaseType, Sound
  <2> QED BY <1>1, <1>2, <2>1, <2>4, <2>7
<1>6. CASE Lose /\ Answer(r, "error") /\ UNCHANGED execs
  <2>1. Moves(r) /\ Same(r) /\ req'[r].pc = "done" /\ Sound(r)'
    BY <1>1, <1>6, Answers DEF Sound
  <2>2. TablesInv'
    BY <1>2, <1>4, <1>6 DEF TypeInv, TablesInv, TablesTypeOK, Lose
  <2>3. TypeInv'
    BY <1>2, <1>4, <1>6, <2>1, <2>2, TableTypes DEF TypeInv, MutexType, LeaseType
  <2> QED BY <1>1, <1>2, <1>6, <2>1, <2>3
<1> QED BY <1>5, <1>6 DEF Decide

LEMMA InsertFeedbackTypes ==
    ASSUME TypeInv, NEW r \in Requests, InsertFeedback(r)
    PROVE  /\ TypeInv' /\ Moves(r) /\ Same(r)
           /\ req[r].pc = "insert" /\ req'[r].pc \in {"done", "audit"} /\ req[r].kind = "feedback"
           /\ UNCHANGED <<now, tasks, run, report, execs, audit, dead, unsaved, mutex, lease>>
           /\ UNCHANGED <<runbook, index, tangled>>
<1>1. /\ req \in [Requests -> ReqSet] /\ req[r].pc = "insert" /\ req[r].kind = "feedback" /\ Sound(r)
  BY DEF InsertFeedback, At, TypeInv
<1>2. /\ UNCHANGED <<now, tasks, run, report, execs, audit, dead, unsaved>>
      /\ UNCHANGED <<script, mutex, lease, runbook, index, tangled>>
  BY DEF InsertFeedback
<1>3. Rows' = Rows /\ req[r].arg \in Tasks
  BY <1>1, <1>2 DEF Rows, Sound
<1>4. feedback' \subseteq Tasks /\ lost' \in 0..MaxLost
  BY <1>3 DEF InsertFeedback, Lose, TypeInv, TablesInv, TablesTypeOK
<1>5. TablesInv'
  BY <1>2, <1>3, <1>4 DEF TypeInv, TablesInv, TablesTypeOK
<1>6. Moves(r) /\ Same(r) /\ req'[r].pc \in {"done", "audit"} /\ Sound(r)'
  <2>1. CASE Step(r, "audit")
    BY <1>1, <2>1, Steps DEF Places, Sound
  <2>2. CASE Answer(r, "error")
    BY <1>1, <2>2, Answers DEF Sound
  <2> QED BY <2>1, <2>2 DEF InsertFeedback
<1>7. TypeInv'
  BY <1>2, <1>3, <1>5, <1>6, TableTypes DEF TypeInv, MutexType, LeaseType
<1> QED BY <1>1, <1>2, <1>6, <1>7

LEMMA RecordAuditTypes ==
    ASSUME TypeInv, NEW r \in Requests, RecordAudit(r)
    PROVE  /\ TypeInv' /\ Moves(r) /\ Same(r) /\ Rest(r)
           /\ req[r].pc = "audit" /\ req'[r].pc = "done"
           /\ UNCHANGED <<now, tasks, run, report, execs, feedback, dead, unsaved, mutex, lease>>
           /\ UNCHANGED <<runbook, index, tangled>>
           /\ audit \subseteq audit'
           /\ lost' = 0 => lost = 0 /\ AuditEntry(r) \in audit'
<1>1. req \in [Requests -> ReqSet] /\ req[r].pc = "audit" /\ Answer(r, "ok")
  BY DEF RecordAudit, At, TypeInv
<1>2. /\ UNCHANGED <<now, tasks, run, report, execs, feedback, dead, unsaved>>
      /\ UNCHANGED <<script, mutex, lease, runbook, index, tangled>>
  BY DEF RecordAudit
<1>3. Moves(r) /\ Same(r) /\ Rest(r) /\ req'[r].pc = "done" /\ Sound(r)'
  BY <1>1, Answers DEF Sound
<1>4. /\ audit \subseteq audit' /\ lost' \in 0..MaxLost
      /\ lost' = 0 => lost = 0 /\ AuditEntry(r) \in audit'
      /\ \A a \in audit' : a.actor \in Requests
  <2>1. CASE audit' = audit \cup {AuditEntry(r)} /\ UNCHANGED lost
    BY <2>1 DEF TypeInv, TablesInv, TablesTypeOK, AuditEntry
  <2>2. CASE Lose /\ UNCHANGED audit
    BY <2>2 DEF TypeInv, TablesInv, TablesTypeOK, Lose
  <2> QED BY <2>1, <2>2 DEF RecordAudit
<1>5. Rows' = Rows
  BY <1>2 DEF Rows
<1>6. TablesInv'
  BY <1>2, <1>4, <1>5 DEF TypeInv, TablesInv, TablesTypeOK
<1>7. TypeInv'
  BY <1>2, <1>3, <1>4, <1>5, <1>6, TableTypes DEF TypeInv, MutexType, LeaseType
<1> QED BY <1>1, <1>2, <1>3, <1>4, <1>7

LEMMA ReadTaskTypes ==
    ASSUME TypeInv, NEW r \in Requests, ReadTask(r)
    PROVE  /\ TypeInv' /\ Moves(r) /\ Same(r)
           /\ req[r].pc = "read" /\ req'[r].pc \in {"load", "done"}
           /\ req'[r].pc = "load" => req'[r].seen = tasks[req[r].arg].status /\ InTable(req[r].arg)
           /\ req'[r].pc = "done" => req'[r].out = "error"
           /\ UNCHANGED <<tableVars, mutex, lease, runbook, index, tangled>>
<1> DEFINE i == req[r].arg
<1>1. /\ req \in [Requests -> ReqSet] /\ req[r].pc = "read" /\ req[r] \in ReqType /\ Sound(r)
  BY UnderWay DEF ReadTask, At, TypeInv
<1>2. UNCHANGED <<tableVars, script, mutex, lease, runbook, index, tangled>>
  BY DEF ReadTask
<1>3. tasks[i].status \in {"running", "success", "failed"} /\ req[r].kind = "stream"
  BY <1>1, RowTypes DEF Sound, TypeInv, TaskType
<1>4. CASE InTable(i) /\ req' = [req EXCEPT ![r].pc = "load", ![r].seen = tasks[i].status]
  <2>1. req'[r] = [req[r] EXCEPT !.pc = "load", !.seen = tasks[i].status]
    BY <1>1, <1>4
  <2> DEFINE st == tasks[i].status
  <2>2. req'[r] \in ReqType /\ req'[r].pc = "load" /\ Same(r) /\ req'[r].seen = st
    <3>1. st \in {"running", "success", "failed"}
      BY <1>3
    <3> HIDE DEF st
    <3> QED BY <1>1, <2>1, <3>1 DEF ReqType, Places, Same, st
  <2>3. req' = [req EXCEPT ![r] = req'[r]]
    BY <1>1, <1>4
  <2>4. req' \in [Requests -> ReqSet] /\ \A q \in Requests \ {r} : req'[q] = req[q]
    BY <1>1, <2>2, <2>3 DEF ReqSet
  <2>5. Moves(r)
    BY <2>2, <2>4 DEF Moves
  <2>6. Rows' = Rows
    BY <1>2 DEF Rows, tableVars
  <2>7. Sound(r)'
    BY <1>1, <2>2, <2>6 DEF Sound, Same
  <2>8. TypeInv'
    BY <1>2, <2>5, <2>7, QuietTypes DEF TypeInv
  <2> QED BY <1>1, <1>2, <1>4, <2>2, <2>5, <2>8
<1>5. CASE Answer(r, "error")
  <2>1. Moves(r) /\ Same(r) /\ req'[r].pc = "done" /\ req'[r].out = "error" /\ Sound(r)'
    BY <1>1, <1>5, Answers DEF Sound
  <2>2. TypeInv'
    BY <1>2, <2>1, QuietTypes DEF TypeInv
  <2> QED BY <1>1, <1>2, <2>1, <2>2
<1> QED BY <1>4, <1>5 DEF ReadTask

LEMMA LoadReportTypes ==
    ASSUME TypeInv, NEW r \in Requests, LoadReport(r)
    PROVE  /\ TypeInv' /\ Moves(r) /\ Same(r)
           /\ req[r].pc = "load" /\ req'[r].pc \in {"read", "done"}
           /\ req'[r].shown = Shown(req[r].arg) /\ req'[r].seen = req[r].seen
           /\ UNCHANGED <<tableVars, mutex, lease, runbook, index, tangled>>
<1> DEFINE sh == Shown(req[r].arg)
           pc == IF req[r].seen = "running" THEN "read" ELSE "done"
           out == IF req[r].seen = "running" THEN "none" ELSE "closed"
<1>1. /\ req \in [Requests -> ReqSet] /\ req[r].pc = "load" /\ req[r] \in ReqType /\ Sound(r)
  BY UnderWay DEF LoadReport, At, TypeInv
<1>2. UNCHANGED <<tableVars, script, mutex, lease, runbook, index, tangled>>
  BY DEF LoadReport
<1>3. sh \in {"none", "partial", "full"} /\ pc \in {"read", "done"} /\ out \in {"none", "closed"}
  BY DEF Shown
<1>4. req' = [req EXCEPT ![r].shown = sh, ![r].pc = pc, ![r].out = out]
  BY DEF LoadReport
<1> HIDE DEF sh, pc, out
<1>5. req'[r] = [req[r] EXCEPT !.shown = sh, !.pc = pc, !.out = out]
  BY <1>1, <1>4
<1>6. req'[r] \in ReqType /\ req'[r].pc = pc /\ Same(r) /\ req'[r].shown = sh /\ req'[r].seen = req[r].seen
  BY <1>1, <1>3, <1>5 DEF ReqType, Places, Same
<1>7. req' = [req EXCEPT ![r] = req'[r]]
  BY <1>1, <1>4
<1>8. req' \in [Requests -> ReqSet] /\ \A q \in Requests \ {r} : req'[q] = req[q]
  BY <1>1, <1>6, <1>7 DEF ReqSet
<1>9. Moves(r)
  BY <1>6, <1>8 DEF Moves
<1>10. Rows' = Rows
  BY <1>2 DEF Rows, tableVars
<1>11. Sound(r)'
  BY <1>1, <1>3, <1>6, <1>10 DEF Sound, Same
<1>12. TypeInv'
  BY <1>2, <1>9, <1>11, QuietTypes DEF TypeInv
<1> QED BY <1>1, <1>2, <1>3, <1>6, <1>9, <1>12 DEF sh

LEMMA WriteRunbookTypes ==
    ASSUME TypeInv, NEW r \in Requests, WriteRunbook(r)
    PROVE  /\ TypeInv' /\ Moves(r) /\ Same(r)
           /\ req[r].pc = "write" /\ req'[r].pc \in {"index", "done"}
           /\ UNCHANGED <<now, tasks, run, report, execs, feedback, audit, dead, unsaved>>
           /\ UNCHANGED <<mutex, lease, index>>
           /\ req'[r].pc = "index" =>
                 /\ req'[r].next = 1 /\ req'[r].task = runbook'.version
                 /\ runbook'.chunks = req[r].arg
                 /\ tangled' <=> tangled \/ \E q \in Requests : Indexing(q)
           /\ req'[r].pc = "done" => UNCHANGED <<runbook, tangled>> /\ req'[r].out = "error"
<1> DEFINE v == runbook.version + 1
<1>1. /\ req \in [Requests -> ReqSet] /\ req[r].pc = "write" /\ req[r] \in ReqType /\ Sound(r)
  BY UnderWay DEF WriteRunbook, At, TypeInv
<1>2. /\ UNCHANGED <<now, tasks, run, report, execs, feedback, audit, dead, unsaved>>
      /\ UNCHANGED <<script, mutex, lease, index>>
  BY DEF WriteRunbook
<1>3. v \in Nat /\ v > runbook.version /\ req[r].arg \in Chunks /\ runbook.version \in Nat
  BY <1>1 DEF Sound, TypeInv, RunbookInv
<1>4. Rows' = Rows
  BY <1>2 DEF Rows
<1>5. CASE /\ runbook' = [version |-> v, chunks |-> req[r].arg]
           /\ req' = [req EXCEPT ![r].pc = "index", ![r].task = v, ![r].next = 1]
           /\ tangled' = (tangled \/ \E q \in Requests : Indexing(q))
           /\ UNCHANGED lost
  <2>1. req'[r] = [req[r] EXCEPT !.pc = "index", !.task = v, !.next = 1]
    BY <1>1, <1>5
  <2>2. 1 \in 0..MaxChunks + 1 /\ req[r].arg \in 0..MaxChunks
    BY <1>3 DEF Chunks
  <2>3. /\ req'[r] \in ReqType /\ req'[r].pc = "index" /\ Same(r)
        /\ req'[r].task = v /\ req'[r].next = 1
    <3> HIDE DEF v
    <3> QED BY <1>1, <1>3, <2>1, <2>2 DEF ReqType, Places, Same
  <2>4. req' = [req EXCEPT ![r] = req'[r]]
    BY <1>1, <1>5
  <2>5. req' \in [Requests -> ReqSet] /\ \A q \in Requests \ {r} : req'[q] = req[q]
    BY <1>1, <2>3, <2>4 DEF ReqSet
  <2>6. Moves(r)
    BY <2>3, <2>5 DEF Moves
  <2>7. runbook'.version = v /\ runbook'.chunks = req[r].arg
    BY <1>5
  <2>8. Sound(r)'
    BY <1>3, <2>3, <2>7 DEF Sound, Same, Chunks
  <2>9. TablesInv'
    BY <1>2, <1>4, <1>5 DEF TypeInv, TablesInv, TablesTypeOK
  <2>10. RunbookInv'
    <3>1. runbook' \in [version: Nat, chunks: 0..MaxChunks] /\ tangled' \in BOOLEAN
      BY <1>3, <1>5, <2>2 DEF TypeInv, RunbookInv
    <3>2. index' \in [Chunks -> 0..v]
      BY <1>2, <1>3 DEF TypeInv, RunbookInv
    <3> QED BY <2>7, <3>1, <3>2 DEF RunbookInv
  <2>11. Grows
    BY <1>2, <1>3, <1>4, <2>7 DEF Grows
  <2>12. TypeInv'
    BY <1>2, <2>6, <2>8, <2>9, <2>10, <2>11, Frame DEF TypeInv
  <2>13. tangled' <=> tangled \/ \E q \in Requests : Indexing(q)
    BY <1>5 DEF TypeInv, RunbookInv
  <2> QED BY <1>1, <1>2, <2>3, <2>6, <2>7, <2>12, <2>13
<1>6. CASE Lose /\ Answer(r, "error") /\ UNCHANGED <<runbook, tangled>>
  <2>1. Moves(r) /\ Same(r) /\ req'[r].pc = "done" /\ req'[r].out = "error" /\ Sound(r)'
    BY <1>1, <1>6, Answers DEF Sound
  <2>2. TablesInv'
    BY <1>2, <1>4, <1>6 DEF TypeInv, TablesInv, TablesTypeOK, Lose
  <2>3. TypeInv'
    BY <1>2, <1>4, <1>6, <2>1, <2>2, TableTypes DEF TypeInv, MutexType, LeaseType
  <2> QED BY <1>1, <1>2, <1>6, <2>1, <2>3
<1> QED BY <1>5, <1>6 DEF WriteRunbook

LEMMA IndexChunkTypes ==
    ASSUME TypeInv, NEW r \in Requests, IndexChunk(r)
    PROVE  /\ TypeInv' /\ Moves(r) /\ Same(r)
           /\ req[r].pc = "index" /\ req'[r].pc \in {"index", "audit"}
           /\ UNCHANGED <<now, tasks, run, report, execs, feedback, audit, dead, unsaved>>
           /\ UNCHANGED <<mutex, lease, runbook>>
           /\ \/ /\ index' = [index EXCEPT ![req[r].next] = req[r].task]
                 /\ req'[r].task = req[r].task /\ req'[r].next = req[r].next + 1
                 /\ req'[r].pc = "index" <=> req[r].next < req[r].arg
                 /\ UNCHANGED tangled
              \/ tangled' = TRUE /\ UNCHANGED index /\ req'[r].pc = "audit"
<1> DEFINE c == req[r].next
           pc == IF MoreChunks(r, c) THEN "index" ELSE "audit"
<1>1. /\ req \in [Requests -> ReqSet] /\ req[r].pc = "index" /\ req[r] \in ReqType /\ Sound(r)
  BY UnderWay DEF IndexChunk, Indexing, At, TypeInv
<1>2. /\ UNCHANGED <<now, tasks, run, report, execs, feedback, audit, dead, unsaved>>
      /\ UNCHANGED <<script, mutex, lease, runbook>>
  BY DEF IndexChunk
<1>3. /\ c \in 1..req[r].arg /\ req[r].arg \in 1..MaxChunks /\ req[r].task \in 1..runbook.version
      /\ req[r].arg \in Nat
  BY <1>1 DEF Sound, Chunks
<1>4. Rows' = Rows
  BY <1>2 DEF Rows
<1>5. CASE /\ index' = [index EXCEPT ![c] = req[r].task]
           /\ req' = [req EXCEPT ![r].next = c + 1, ![r].pc = pc]
           /\ UNCHANGED <<lost, tangled>>
  <2>1. req'[r] = [req[r] EXCEPT !.next = c + 1, !.pc = pc]
    BY <1>1, <1>5
  <2> DEFINE d == c + 1
  <2>2. d \in 0..MaxChunks + 1 /\ d \in Nat
    BY <1>3
  <2>3. pc \in {"index", "audit"} /\ (pc = "index" <=> c < req[r].arg)
    BY DEF MoreChunks
  <2>4. /\ req'[r] \in ReqType /\ req'[r].pc = pc /\ Same(r)
        /\ req'[r].task = req[r].task /\ req'[r].next = d
    <3> HIDE DEF d, pc, c
    <3>1. req'[r] = [req[r] EXCEPT !.next = d, !.pc = pc]
      BY <2>1 DEF d
    <3> QED BY <1>1, <2>2, <2>3, <3>1 DEF ReqType, Places, Same
  <2>5. req' = [req EXCEPT ![r] = req'[r]]
    BY <1>1, <1>5
  <2>6. req' \in [Requests -> ReqSet] /\ \A q \in Requests \ {r} : req'[q] = req[q]
    BY <1>1, <2>4, <2>5 DEF ReqSet
  <2>7. Moves(r)
    BY <2>4, <2>6 DEF Moves
  <2>8. Sound(r)'
    BY <1>1, <1>2, <1>3, <2>3, <2>4 DEF Sound, Same
  <2>9. TablesInv'
    BY <1>2, <1>4, <1>5 DEF TypeInv, TablesInv, TablesTypeOK
  <2>10. RunbookInv'
    <3>1. index' \in [Chunks -> 0..runbook.version]
      BY <1>3, <1>5 DEF TypeInv, RunbookInv, Chunks
    <3> QED BY <1>2, <1>5, <3>1 DEF TypeInv, RunbookInv
  <2>11. Grows
    BY <1>2, <1>4 DEF Grows, TypeInv, RunbookInv
  <2>12. TypeInv'
    BY <1>2, <2>7, <2>8, <2>9, <2>10, <2>11, Frame DEF TypeInv
  <2> QED BY <1>1, <1>2, <1>5, <2>3, <2>4, <2>7, <2>12
<1>6. CASE Lose /\ tangled' = TRUE /\ Step(r, "audit") /\ UNCHANGED index
  <2>1. Moves(r) /\ Same(r) /\ req'[r].pc = "audit" /\ Sound(r)'
    BY <1>1, <1>6, Steps DEF Sound, Places
  <2>2. TablesInv'
    BY <1>2, <1>4, <1>6 DEF TypeInv, TablesInv, TablesTypeOK, Lose
  <2>3. RunbookInv' /\ Grows
    BY <1>2, <1>4, <1>6 DEF TypeInv, RunbookInv, Grows
  <2>4. TypeInv'
    BY <1>2, <2>1, <2>2, <2>3, Frame DEF TypeInv
  <2> QED BY <1>1, <1>2, <1>6, <2>1, <2>4
<1> QED BY <1>5, <1>6 DEF IndexChunk

LEMMA DiagnoseTypes ==
    ASSUME TypeInv, NEW i \in Tasks, Diagnose(i)
    PROVE  /\ TypeInv' /\ RunStep(i)
           /\ UNCHANGED <<script, req, mutex, runbook, index, tangled, audit>>
<1>1. RunStep(i) /\ UNCHANGED <<script, req, mutex, runbook, index, tangled>>
  BY DEF Diagnose
<1>2. TablesInv' /\ Rows' = Rows /\ DOMAIN execs \subseteq DOMAIN execs' /\ audit' = audit
  BY <1>1, RunTypes DEF TypeInv
<1>3. lease' \in LeaseType
  <2>1. CASE UNCHANGED lease
    BY <2>1 DEF TypeInv, LeaseType
  <2>2. ASSUME NEW r \in Requests, GiveBack(r) PROVE lease' \in LeaseType
    BY <2>2, GivenBack DEF LeaseType
  <2> QED BY <2>1, <2>2 DEF Diagnose
<1>4. \A q \in Requests : Sound(q)'
  BY <1>1, <1>2 DEF TypeInv, Sound
<1>5. TypeInv'
  BY <1>1, <1>2, <1>3, <1>4 DEF TypeInv, RunbookInv, LeaseType
<1> QED BY <1>1, <1>2, <1>5

LEMMA RetentionTypes ==
    ASSUME TypeInv, RetentionLoop
    PROVE  TypeInv' /\ UNCHANGED controlVars
<1>1. Cleanup /\ UNCHANGED controlVars
  BY DEF RetentionLoop
<1>2. TablesInv' /\ Rows' = Rows /\ DOMAIN execs' = DOMAIN execs /\ audit' = audit
  BY <1>1, CleanupTypes DEF TypeInv
<1>3. UNCHANGED <<script, req, mutex, lease, runbook, index, tangled>>
  BY <1>1 DEF controlVars
<1>4. \A q \in Requests : Sound(q)'
  BY <1>2, <1>3 DEF TypeInv, Sound
<1> QED BY <1>1, <1>2, <1>3, <1>4 DEF TypeInv, RunbookInv

LEMMA TickTypes ==
    ASSUME TypeInv, TimePasses
    PROVE  /\ TypeInv' /\ UNCHANGED controlVars /\ now' = now + 1
           /\ UNCHANGED <<tasks, run, report, execs, feedback, audit, dead, lost, unsaved>>
<1>1. /\ now < MaxTime /\ now' = now + 1 /\ UNCHANGED controlVars
      /\ UNCHANGED <<tasks, run, report, execs, feedback, audit, dead, lost, unsaved>>
  BY DEF TimePasses, Tick
<1>2. Rows' = Rows /\ UNCHANGED <<script, req, mutex, lease, runbook, index, tangled>>
  BY <1>1 DEF Rows, controlVars
<1>3. TablesInv'
  BY <1>1, <1>2 DEF TypeInv, TablesInv, TablesTypeOK
<1>4. \A q \in Requests : Sound(q)'
  BY <1>1, <1>2 DEF TypeInv, Sound
<1> QED BY <1>1, <1>2, <1>3, <1>4 DEF TypeInv, RunbookInv

LEMMA InitTypes == Init => TypeInv
<1> SUFFICES ASSUME Init PROVE TypeInv
  OBVIOUS
<1> USE DEF Init, TablesInit
<1>1. TablesInv
  BY DEF TablesInv, TablesTypeOK, Rows, Tasks
<1>2. RunbookInv
  <2>1. runbook \in [version: Nat, chunks: 0..MaxChunks] /\ runbook.version = 0
    BY DEF RunbookInv
  <2>2. index = [c \in Chunks |-> 0] /\ 0 \in 0..runbook.version
    BY <2>1
  <2>3. index \in [Chunks -> 0..runbook.version]
    BY <2>2
  <2>4. tangled \in BOOLEAN
    OBVIOUS
  <2> QED BY <2>1, <2>3, <2>4 DEF RunbookInv
<1>3. req \in [Requests -> ReqSet] /\ \A q \in Requests : Sound(q)
  BY DEF ReqSet, Sound
<1>4. lease \in LeaseType /\ mutex \in MutexType
  BY DEF LeaseType, MutexType, NoLease
<1> QED BY <1>1, <1>2, <1>3, <1>4 DEF TypeInv, LeaseType, MutexType

LEMMA ArrivalTypes ==
    ASSUME TypeInv, NEW r \in Requests, RequestArrives(r)
    PROVE  TypeInv'
<1>1. /\ Moves(r) /\ Sound(r)'
      /\ UNCHANGED <<tableVars, script, mutex, lease, runbook, index, tangled>>
  BY Arrival
<1> QED BY <1>1, QuietTypes DEF TypeInv

LEMMA HandleTypes ==
    ASSUME TypeInv, NEW r \in Requests, Handle(r)
    PROVE  TypeInv' /\ Moves(r) /\ Same(r) /\ req[r].pc \notin {"new", "done"} /\ req'[r].pc # "new"
<1> DEFINE Goal == TypeInv' /\ Moves(r) /\ Same(r) /\ req[r].pc \notin {"new", "done"} /\ req'[r].pc # "new"
<1>1. CASE LockDedup(r)
  BY <1>1, LockDedupTypes
<1>2. CASE QueryRecent(r)
  BY <1>2, QueryRecentTypes
<1>3. CASE AcquirePod(r)
  BY <1>3, AcquirePodTypes
<1>4. CASE CreateTask(r)
  BY <1>4, CreateTaskTypes
<1>5. CASE Decide(r)
  BY <1>5, DecideTypes
<1>6. CASE InsertFeedback(r)
  BY <1>6, InsertFeedbackTypes
<1>7. CASE RecordAudit(r)
  BY <1>7, RecordAuditTypes
<1>8. CASE ReadTask(r)
  BY <1>8, ReadTaskTypes
<1>9. CASE LoadReport(r)
  BY <1>9, LoadReportTypes
<1>10. CASE WriteRunbook(r)
  BY <1>10, WriteRunbookTypes
<1>11. CASE IndexChunk(r)
  BY <1>11, IndexChunkTypes
<1> QED BY <1>1, <1>2, <1>3, <1>4, <1>5, <1>6, <1>7, <1>8, <1>9, <1>10, <1>11 DEF Handle

LEMMA NextTypes == TypeInv /\ [Next]_vars => TypeInv'
<1> SUFFICES ASSUME TypeInv, [Next]_vars PROVE TypeInv'
  OBVIOUS
<1>1. CASE UNCHANGED vars
  <2>1. UNCHANGED <<now, tasks, run, report, execs, feedback, audit, dead, lost, unsaved>>
    BY <1>1 DEF vars, tableVars
  <2>2. UNCHANGED <<script, req, mutex, lease, runbook, index, tangled>>
    BY <1>1 DEF vars, controlVars
  <2>3. TablesInv' /\ Rows' = Rows
    BY <2>1 DEF TypeInv, TablesInv, TablesTypeOK, Rows
  <2>4. \A q \in Requests : Sound(q)'
    BY <2>1, <2>2, <2>3 DEF TypeInv, Sound
  <2> QED BY <2>1, <2>2, <2>3, <2>4 DEF TypeInv, RunbookInv
<1>2. CASE \E r \in Requests : RequestArrives(r) \/ Handle(r)
  BY <1>2, ArrivalTypes, HandleTypes
<1>3. CASE \E i \in Tasks : Diagnose(i)
  BY <1>3, DiagnoseTypes
<1>4. CASE RetentionLoop
  BY <1>4, RetentionTypes
<1>5. CASE TimePasses
  BY <1>5, TickTypes
<1> QED BY <1>1, <1>2, <1>3, <1>4, <1>5 DEF Next

LEMMA AlwaysTyped == Spec => []TypeInv
BY InitTypes, NextTypes, PTL DEF Spec

\* The types of the tables and of the requests, for any number of either.
THEOREM TypeCorrect == Spec => []ControlTypeOK
<1>1. TypeInv => ControlTypeOK
  BY UnderWay DEF TypeInv, TablesInv, RunbookInv, ControlTypeOK
<1> QED BY <1>1, AlwaysTyped, PTL

-----------------------------------------------------------------------------
(* One verdict for each remediation: an update of a row that is not pending changes nothing, *)
(* and deleting it keeps what it says.                                                       *)
DecidedStep ==
    \A e \in DOMAIN execs :
        execs[e].status # "pending_approval"
            => execs'[e].status = execs[e].status /\ execs'[e].by = execs[e].by

LEMMA ExecsStep == TypeInv /\ [Next]_vars => DecidedStep
<1> SUFFICES ASSUME TypeInv, [Next]_vars PROVE DecidedStep
  OBVIOUS
<1>1. CASE UNCHANGED execs
  BY <1>1 DEF DecidedStep
<1>2. execs \in Seq(ExecType)
  BY DEF TypeInv, TablesInv, TablesTypeOK
<1>3. ASSUME NEW r \in Requests, Decide(r) PROVE DecidedStep
  <2>1. CASE UNCHANGED execs
    BY <2>1, <1>1
  <2>2. CASE /\ Undecided(req[r].arg)
             /\ execs' = [execs EXCEPT ![req[r].arg].status = Verdict(req[r].kind), ![req[r].arg].by = r]
    BY <1>2, <2>2 DEF DecidedStep, Undecided
  <2> QED BY <1>3, <2>1, <2>2 DEF Decide
<1>4. ASSUME NEW i \in Tasks, RunStep(i) PROVE DecidedStep
  <2>1. CASE RunAgent(i)
    BY <1>1, <1>2, <2>1 DEF RunAgent, DecidedStep
  <2> QED BY <1>1, <1>4, <2>1 DEF RunStep, Load, PersistReport, FinishRun
<1>5. CASE RetentionLoop
  BY <1>5, CleanupTypes DEF RetentionLoop, DecidedStep, TypeInv
<1>6. ASSUME NEW r \in Requests, RequestArrives(r) PROVE DecidedStep
  BY <1>1, <1>6, Arrival DEF tableVars
<1>7. ASSUME NEW r \in Requests, Handle(r), ~Decide(r) PROVE DecidedStep
  BY <1>1, <1>7 DEF Handle, LockDedup, QueryRecent, AcquirePod, CreateTask, InsertFeedback,
                    RecordAudit, ReadTask, LoadReport, WriteRunbook, IndexChunk, tableVars
<1>8. CASE TimePasses
  BY <1>1, <1>8 DEF TimePasses, Tick
<1>9. CASE UNCHANGED vars
  BY <1>1, <1>9 DEF vars, tableVars
<1>10. ASSUME NEW i \in Tasks, Diagnose(i) PROVE DecidedStep
  BY <1>4, <1>10 DEF Diagnose
<1> QED BY <1>3, <1>5, <1>6, <1>7, <1>8, <1>9, <1>10 DEF Next

\* However many operators decide about a remediation, in whatever order their updates reach
\* the table and whatever retention deletes meanwhile, the first verdict stays.
THEOREM DecidesOnce == Spec => DecidedOnce
<1>1. TypeInv /\ [Next]_vars => [DecidedStep]_vars
  BY ExecsStep
<1>2. DecidedOnce <=> [][DecidedStep]_vars
  BY PTL DEF DecidedOnce, DecidedStep
<1> QED BY <1>1, <1>2, AlwaysTyped, PTL DEF Spec

-----------------------------------------------------------------------------
(* Orphans.  A run that has not begun to write has left nothing behind; from then on it is   *)
(* active until it has saved the row, or failed to.                                          *)
Childless(i) == i \notin report /\ \A e \in DOMAIN execs : execs[e].task # i
Children(i)  == i \in report \/ \E e \in DOMAIN execs : execs[e].stored /\ execs[e].task = i
Unwritten    == {"none", "begin", "agent"}

OrphanInv ==
    /\ \A i \in Tasks : run[i] \in Unwritten => Childless(i)
    /\ \A i \in Rows : Children(i) => InTable(i) \/ Active(i) \/ i \in unsaved

\* What a step of one run does to the others.
LEMMA RunOrphans ==
    ASSUME TypeInv, OrphanInv, NEW j \in Tasks, RunStep(j)
    PROVE  OrphanInv'
<1>1. /\ execs \in Seq(ExecType) /\ tasks \in Seq(TaskType)
      /\ run \in [Tasks -> {"none", "begin", "agent", "persist", "success", "failed", "ended"}]
      /\ j \in Rows /\ Rows = 1..Len(tasks)
  <2>1. run[j] # "none"
    BY DEF RunStep, Load, RunAgent, PersistReport, FinishRun
  <2> QED BY <2>1, RowTypes DEF TypeInv, TablesInv, TablesTypeOK
<1>2. Rows' = Rows
  BY RunTypes DEF TypeInv
<1>3. CASE Load(j)
  <2>1. /\ run[j] = "begin" /\ run' = [run EXCEPT ![j] = run'[j]] /\ run'[j] \in {"agent", "ended"}
        /\ UNCHANGED <<tasks, report, execs, unsaved>>
    BY <1>1, <1>3 DEF Load
  <2>2. Childless(j)
    BY <2>1 DEF OrphanInv, Unwritten
  <2>3. \A i \in Tasks : run'[i] \in Unwritten => run[i] \in Unwritten
    BY <1>1, <2>1 DEF Unwritten
  <2>4. \A i \in Tasks : Childless(i)' <=> Childless(i)
    BY <2>1 DEF Childless
  <2>5. ASSUME NEW i \in Rows', Children(i)' PROVE (InTable(i) \/ Active(i) \/ i \in unsaved)'
    <3>1. Children(i) /\ i # j /\ i \in Rows
      BY <1>2, <2>1, <2>2, <2>5 DEF Children, Childless
    <3>2. i \in Tasks
      BY <3>1 DEF Rows
    <3>3. run'[i] = run[i]
      BY <1>1, <2>1, <3>1, <3>2
    <3>4. InTable(i)' <=> InTable(i)
      BY <1>2, <2>1 DEF InTable
    <3> QED BY <2>1, <3>1, <3>3, <3>4 DEF OrphanInv, Active
  <2> QED BY <2>3, <2>4, <2>5 DEF OrphanInv
<1>4. CASE RunAgent(j)
  <2>1. /\ run[j] = "agent" /\ run' = [run EXCEPT ![j] = run'[j]] /\ run'[j] \in {"persist", "failed"}
        /\ UNCHANGED <<tasks, report, unsaved>>
    BY <1>1, <1>4 DEF RunAgent
  <2>2. ASSUME NEW e \in DOMAIN execs', NEW i \in Tasks, i # j, execs'[e].task = i
        PROVE  e \in DOMAIN execs /\ execs'[e] = execs[e]
    <3>1. CASE execs' = execs
      BY <2>2, <3>1
    <3>2. CASE execs' = Append(execs, [task |-> j, status |-> "pending_approval", by |-> 0, stored |-> TRUE])
      BY <1>1, <2>2, <3>2
    <3> QED BY <1>4, <3>1, <3>2 DEF RunAgent
  <2>3. ASSUME NEW i \in Tasks, i # j PROVE /\ run'[i] = run[i] /\ (Childless(i) => Childless(i)')
                                            /\ (Children(i)' => Children(i))
    BY <1>1, <2>1, <2>2, <2>3 DEF Childless, Children
  <2>4. \A i \in Tasks : InTable(i)' <=> InTable(i)
    BY <1>2, <2>1 DEF InTable
  <2>5. Active(j)' /\ run'[j] \notin Unwritten
    BY <2>1 DEF Active, Unwritten
  <2>6. \A i \in Rows' : i \in Tasks /\ i \in Rows
    BY <1>2 DEF Rows
  <2> QED BY <2>1, <2>3, <2>4, <2>5, <2>6 DEF OrphanInv, Active
<1>5. CASE PersistReport(j)
  <2>1. /\ run[j] = "persist" /\ run' = [run EXCEPT ![j] = run'[j]] /\ run'[j] \in {"success", "failed"}
        /\ UNCHANGED <<tasks, execs, unsaved>> /\ \A i \in Tasks : i # j => (i \in report' <=> i \in report)
    BY <1>1, <1>5 DEF PersistReport
  <2>3. ASSUME NEW i \in Tasks, i # j PROVE /\ run'[i] = run[i] /\ (Childless(i) => Childless(i)')
                                            /\ (Children(i)' => Children(i))
    BY <1>1, <2>1, <2>3 DEF Childless, Children
  <2>4. \A i \in Tasks : InTable(i)' <=> InTable(i)
    BY <1>2, <2>1 DEF InTable
  <2>5. Active(j)' /\ run'[j] \notin Unwritten
    BY <2>1 DEF Active, Unwritten
  <2>6. \A i \in Rows' : i \in Tasks /\ i \in Rows
    BY <1>2 DEF Rows
  <2> QED BY <2>1, <2>3, <2>4, <2>5, <2>6 DEF OrphanInv, Active
<1>6. CASE FinishRun(j)
  <2>1. /\ run' = [run EXCEPT ![j] = "ended"] /\ UNCHANGED <<report, execs>> /\ unsaved \subseteq unsaved'
    BY <1>6 DEF FinishRun
  <2>2. InTable(j)' \/ j \in unsaved'
    <3>1. CASE SaveRow(j, run[j])
      BY <1>1, <1>2, <3>1 DEF SaveRow, InTable
    <3> QED BY <1>6, <3>1 DEF FinishRun
  <2>3. \A i \in Rows : i # j => (InTable(i)' <=> InTable(i))
    <3>1. CASE SaveRow(j, run[j])
      BY <1>1, <1>2, <3>1 DEF SaveRow, InTable
    <3>2. CASE UNCHANGED tasks
      BY <1>2, <3>2 DEF InTable
    <3> QED BY <1>6, <3>1, <3>2 DEF FinishRun
  <2>4. \A i \in Tasks : i # j => run'[i] = run[i]
    BY <1>1, <2>1
  <2>5. \A i \in Tasks : (Childless(i)' <=> Childless(i)) /\ (Children(i)' <=> Children(i))
    BY <2>1 DEF Childless, Children
  <2>6. run'[j] \notin Unwritten
    BY <1>1, <2>1 DEF Unwritten
  <2>7. \A i \in Rows' : i \in Tasks /\ i \in Rows
    BY <1>2 DEF Rows
  <2> QED BY <1>2, <2>1, <2>2, <2>3, <2>4, <2>5, <2>6, <2>7 DEF OrphanInv, Active
<1> QED BY <1>3, <1>4, <1>5, <1>6 DEF RunStep

\* A step that adds no report, no execution and no row, and ends no run.
LEMMA QuietOrphans ==
    ASSUME OrphanInv, UNCHANGED <<tasks, run, report, unsaved>>, Len(execs') = Len(execs),
           DOMAIN execs' = DOMAIN execs,
           \A e \in DOMAIN execs : /\ execs'[e].task = execs[e].task
                                   /\ execs'[e].stored <=> execs[e].stored
    PROVE  OrphanInv'
<1>1. Rows' = Rows
  BY DEF Rows
<1>2. \A i \in Tasks : (InTable(i)' <=> InTable(i)) /\ (Active(i)' <=> Active(i))
  BY <1>1 DEF InTable, Active
<1>3. \A i \in Tasks : (Childless(i)' <=> Childless(i)) /\ (Children(i)' <=> Children(i))
  BY DEF Childless, Children
<1>4. \A i \in Rows : i \in Tasks
  BY DEF Rows
<1> QED BY <1>1, <1>2, <1>3, <1>4 DEF OrphanInv

LEMMA CleanupOrphans == ASSUME TypeInv, OrphanInv, Cleanup PROVE OrphanInv'
<1> DEFINE ids == {i \in Rows : Expired(i)}
<1>1. /\ report' = report \ ids /\ execs' = SweptExecs(ids)
      /\ tasks' = [i \in DOMAIN tasks |->
                      IF i \in ids THEN [tasks[i] EXCEPT !.stored = FALSE] ELSE tasks[i]]
      /\ UNCHANGED <<run, unsaved>>
  BY DEF Cleanup
<1>2. /\ Rows' = Rows /\ DOMAIN execs' = DOMAIN execs
      /\ \A e \in DOMAIN execs : execs'[e].task = execs[e].task
  BY CleanupTypes DEF TypeInv
<1>3. \A e \in DOMAIN execs : execs[e] \in ExecType /\ execs[e].stored \in BOOLEAN
  BY RowTypes DEF TypeInv, ExecType
<1> HIDE DEF ids
<1>4. \A e \in DOMAIN execs : execs'[e].stored <=> execs[e].stored /\ execs[e].task \notin ids
  <2> SUFFICES ASSUME NEW e \in DOMAIN execs
               PROVE  execs'[e].stored <=> execs[e].stored /\ execs[e].task \notin ids
    OBVIOUS
  <2> DEFINE b == execs[e].stored /\ execs[e].task \notin ids
  <2>1. execs'[e] = [execs[e] EXCEPT !.stored = b]
    BY <1>1 DEF SweptExecs
  <2>2. b \in BOOLEAN
    OBVIOUS
  <2>3. execs'[e].stored = b
    <3> HIDE DEF b
    <3> QED BY <1>3, <2>1, <2>2, UnstoredExec
  <2> QED BY <2>3
<1>5. ASSUME NEW i \in Rows', Children(i)' PROVE (InTable(i) \/ Active(i) \/ i \in unsaved)'
  <2>1. i \in Rows /\ i \notin ids /\ Children(i)
    BY <1>1, <1>2, <1>4, <1>5 DEF Children
  <2>2. tasks'[i] = tasks[i]
    <3>1. i \in DOMAIN tasks
      BY <2>1, RowTypes DEF TypeInv
    <3> QED BY <1>1, <2>1, <3>1
  <2> QED BY <1>1, <1>2, <2>1, <2>2 DEF OrphanInv, InTable, Active
<1>6. \A i \in Tasks : Childless(i) => Childless(i)'
  BY <1>1, <1>2 DEF Childless
<1> QED BY <1>1, <1>5, <1>6 DEF OrphanInv

LEMMA CreateOrphans == ASSUME TypeInv, OrphanInv, NEW r \in Requests, CreateTask(r) PROVE OrphanInv'
<1>1. UNCHANGED <<report, execs, unsaved>>
  BY DEF CreateTask
<1>2. /\ tasks \in Seq(TaskType) /\ Rows = 1..Len(tasks) /\ Len(tasks) \in Nat
      /\ run \in [Tasks -> {"none", "begin", "agent", "persist", "success", "failed", "ended"}]
  BY RowTypes DEF TypeInv, TablesInv, TablesTypeOK
<1>3. CASE UNCHANGED <<tasks, run>>
  BY <1>1, <1>3, QuietOrphans
<1>4. CASE Inserted(r)
  <2> DEFINE m == Len(tasks) + 1
  <2>0. PICK n \in Tasks : n = m
    BY <1>4 DEF Inserted
  <2>1. n \in Tasks /\ n \notin Rows /\ Len(tasks') = n
    BY <1>2, <1>4, <2>0 DEF Inserted
  <2>2. Rows' = Rows \cup {n}
    BY <1>2, <2>0, <2>1 DEF Rows, Tasks
  <2>3. InTable(n)' /\ \A i \in Rows : InTable(i)' <=> InTable(i)
    <3>1. tasks'[n].stored = TRUE /\ \A i \in Rows : tasks'[i] = tasks[i]
      BY <1>4, <2>0 DEF Inserted
    <3>2. InTable(n)'
      BY <2>2, <3>1 DEF InTable
    <3>3. ASSUME NEW i \in Rows PROVE InTable(i)' <=> InTable(i)
      <4>1. i \in Rows' /\ tasks'[i] = tasks[i]
        BY <2>2, <3>1
      <4> QED BY <4>1, Zenon DEF InTable
    <3> QED BY <3>2, <3>3
  <2>4. run[n] = "none"
    BY <2>1 DEF TypeInv, TablesInv
  <2>5. \A i \in Tasks : (run'[i] \in Unwritten <=> run[i] \in Unwritten)
    BY <1>2, <1>4, <2>0, <2>4 DEF Unwritten, Inserted
  <2>6. \A i \in Tasks : (Childless(i)' <=> Childless(i)) /\ (Children(i)' <=> Children(i))
    BY <1>1 DEF Childless, Children
  <2>7. \A i \in Rows : i \in Tasks /\ i # n /\ (Active(i)' <=> Active(i))
    BY <1>2, <1>4, <2>0, <2>1 DEF Active, Rows, Inserted
  <2>8. \A i \in Tasks : run'[i] \in Unwritten => Childless(i)'
    BY <2>5, <2>6 DEF OrphanInv
  <2>9. ASSUME NEW i \in Rows', Children(i)' PROVE (InTable(i) \/ Active(i) \/ i \in unsaved)'
    <3>1. CASE i = n
      BY <2>3, <3>1
    <3>2. CASE i \in Rows
      BY <1>1, <2>3, <2>6, <2>7, <2>9, <3>2 DEF OrphanInv
    <3> QED BY <2>2, <3>1, <3>2
  <2> QED BY <2>8, <2>9 DEF OrphanInv
<1> QED BY <1>3, <1>4, CreateTaskTypes

LEMMA OrphansInit == Init => OrphanInv
BY DEF Init, TablesInit, OrphanInv, Childless, Children, Rows, Tasks

LEMMA OrphansNext == TypeInv /\ OrphanInv /\ [Next]_vars => OrphanInv'
<1> SUFFICES ASSUME TypeInv, OrphanInv, [Next]_vars PROVE OrphanInv'
  OBVIOUS
<1>1. CASE UNCHANGED <<tasks, run, report, execs, unsaved>>
  BY <1>1, QuietOrphans
<1>2. CASE UNCHANGED vars
  BY <1>1, <1>2 DEF vars, tableVars
<1>3. ASSUME NEW r \in Requests, RequestArrives(r) PROVE OrphanInv'
  BY <1>1, <1>3, Arrival DEF tableVars
<1>4. ASSUME NEW r \in Requests, Decide(r) PROVE OrphanInv'
  <2>1. DOMAIN execs' = DOMAIN execs /\ Len(execs') = Len(execs)
    <3>1. execs \in Seq(ExecType) /\ execs' \in Seq(ExecType) /\ Len(execs') = Len(execs)
      BY <1>4, DecideTypes DEF TypeInv, TablesInv, TablesTypeOK
    <3> QED BY <3>1
  <2> QED BY <1>4, <2>1, DecideTypes, QuietOrphans
<1>5. ASSUME NEW r \in Requests, CreateTask(r) PROVE OrphanInv'
  BY <1>5, CreateOrphans
<1>6. ASSUME NEW r \in Requests, Handle(r), ~Decide(r), ~CreateTask(r) PROVE OrphanInv'
  BY <1>1, <1>6 DEF Handle, LockDedup, QueryRecent, AcquirePod, InsertFeedback,
                    RecordAudit, ReadTask, LoadReport, WriteRunbook, IndexChunk, tableVars
<1>7. ASSUME NEW i \in Tasks, Diagnose(i) PROVE OrphanInv'
  BY <1>7, RunOrphans DEF Diagnose
<1>8. CASE RetentionLoop
  BY <1>8, CleanupOrphans DEF RetentionLoop
<1>9. CASE TimePasses
  BY <1>1, <1>9 DEF TimePasses, Tick
<1> QED BY <1>2, <1>3, <1>4, <1>5, <1>6, <1>7, <1>8, <1>9 DEF Next

\* Whatever retention deletes while diagnoses run, and whichever storage calls fail: a report
\* or a remediation without a task row is of a run that goes on, or whose last save failed.
THEOREM OrphansAreExplained == Spec => []OrphansExplained
<1>1. OrphanInv => OrphansExplained
  BY DEF OrphanInv, OrphansExplained, Children
<1> QED BY <1>1, AlwaysTyped, OrphansInit, OrphansNext, PTL DEF Spec

-----------------------------------------------------------------------------
(* Deduplication.  From its query to its insert a request for an alert holds the mutex of    *)
(* its server, and what the query found stays true: the rows of the server for that pod are  *)
(* older than the window, because none is inserted, and a row that comes back comes back     *)
(* with the age it had.                                                                      *)
Critical(q) == /\ req[q].pc \in {"query", "lock", "insert"} /\ req[q].kind = "alert"

Aged(i) == /\ tasks[i].created <= now
           /\ tasks[i].stored \/ tasks[i].created < now - Retention

Clear(q) ==
    \A i \in Rows : tasks[i].alert /\ tasks[i].by = req[q].srv /\ tasks[i].pod = req[q].pod
                        => tasks[i].created + Window < now

Held   == \A q \in Requests : Critical(q) => mutex[req[q].srv] = q
Looked == \A q \in Requests : Critical(q) /\ req[q].pc # "query" => Clear(q)

DedupInv == (\A i \in Rows : Aged(i)) /\ Held /\ Looked /\ DedupPerServer

Origin(i) == /\ tasks'[i].created = tasks[i].created /\ (tasks'[i].alert <=> tasks[i].alert)
             /\ tasks'[i].by = tasks[i].by /\ tasks'[i].pod = tasks[i].pod
             /\ tasks'[i].stored \/ tasks'[i].created < now' - Retention

\* Steps that insert no row.
LEMMA RowsKept ==
    ASSUME TypeInv, TypeInv', DedupInv, Rows' = Rows, now <= now', \A i \in Rows : Origin(i)
    PROVE  /\ \A i \in Rows' : Aged(i)'
           /\ DedupPerServer'
           /\ \A q \in Requests : Clear(q) /\ req'[q].srv = req[q].srv /\ req'[q].pod = req[q].pod
                                    => Clear(q)'
<1>1. now \in Nat /\ now' \in Nat /\ \A i \in Rows : tasks[i].created \in Nat /\ tasks'[i].created \in Nat
  <2>1. \A i \in Rows : tasks[i] \in TaskType
    BY RowTypes DEF TypeInv
  <2>2. \A i \in Rows' : tasks'[i] \in TaskType
    <3>1. TablesInv'
      BY DEF TypeInv
    <3>2. tasks' \in Seq(TaskType) /\ \A i \in Rows' : i \in 1..Len(tasks')
      BY <3>1 DEF TablesInv, TablesTypeOK, Rows, Tasks
    <3> QED BY <3>2
  <2>3. now \in Nat /\ now' \in Nat
    BY DEF TypeInv, TablesInv, TablesTypeOK
  <2> QED BY <2>1, <2>2, <2>3 DEF TaskType
<1>2. \A i \in Rows' : Aged(i)'
  BY <1>1 DEF DedupInv, Aged, Origin
<1>3. DedupPerServer'
  BY DEF DedupInv, DedupPerServer, Origin, Window
<1>4. \A q \in Requests : Clear(q) /\ req'[q].srv = req[q].srv /\ req'[q].pod = req[q].pod => Clear(q)'
  BY <1>1 DEF Clear, Origin, Window
<1> QED BY <1>2, <1>3, <1>4

LEMMA Unmoved ==
    ASSUME DedupInv, UNCHANGED <<tasks, now>>
    PROVE  Rows' = Rows /\ \A i \in Rows : Origin(i)
BY DEF DedupInv, Rows, Origin, Aged

\* A request that gives the mutex up, or enters no critical section, leaves the others theirs.
LEMMA HeldOn ==
    ASSUME TypeInv, DedupInv, NEW r \in Requests, Moves(r),
           \/ UnlockDedup(r) /\ ~Critical(r)'
           \/ UNCHANGED mutex /\ (Critical(r)' => Critical(r) /\ Same(r))
    PROVE  Held'
<1> SUFFICES ASSUME NEW q \in Requests, Critical(q)' PROVE mutex'[req'[q].srv] = q
  BY DEF Held
<1>1. CASE q = r
  BY <1>1 DEF DedupInv, Held, Same
<1>2. CASE q # r
  <2>1. req'[q] = req[q] /\ Critical(q)
    BY <1>2 DEF Moves, Critical
  <2>2. mutex[req[q].srv] = q
    BY <2>1 DEF DedupInv, Held
  <2>3. req[q].srv \in Servers
    BY <2>1, UnderWay DEF Critical, TypeInv, ReqType
  <2> QED BY <1>2, <2>1, <2>2, <2>3 DEF UnlockDedup
<1> QED BY <1>1, <1>2

\* A request that inserts no row.
LEMMA DedupQuiet ==
    ASSUME TypeInv, TypeInv', DedupInv, NEW r \in Requests, Moves(r), Held', UNCHANGED <<tasks, now>>,
           Critical(r)' /\ req'[r].pc # "query" => Clear(r)'
    PROVE  DedupInv'
<1>1. now \in Nat
  BY DEF TypeInv, TablesInv, TablesTypeOK
<1>2. /\ Rows' = Rows /\ \A i \in Rows' : Aged(i)'
      /\ DedupPerServer'
      /\ \A q \in Requests : Clear(q) /\ req'[q].srv = req[q].srv /\ req'[q].pod = req[q].pod => Clear(q)'
  BY <1>1, Unmoved, RowsKept
<1>3. ASSUME NEW q \in Requests, Critical(q)', req'[q].pc # "query" PROVE Clear(q)'
  <2>1. CASE q = r
    BY <1>3, <2>1
  <2>2. CASE q # r
    <3>1. req'[q] = req[q] /\ Critical(q) /\ req[q].pc # "query"
      BY <1>3, <2>2 DEF Moves, Critical
    <3> QED BY <1>2, <3>1 DEF DedupInv, Looked
  <2> QED BY <2>1, <2>2
<1> QED BY <1>2, <1>3 DEF DedupInv, Looked

LEMMA LockDedupDedup == ASSUME TypeInv, DedupInv, NEW r \in Requests, LockDedup(r) PROVE DedupInv'
<1>1. TypeInv' /\ Moves(r) /\ Same(r) /\ req[r].pc = "dedup" /\ req'[r].pc = "query"
  BY LockDedupTypes
<1>2. /\ mutex[req[r].srv] = 0 /\ mutex' = [mutex EXCEPT ![req[r].srv] = r] /\ UNCHANGED <<tasks, now>>
  BY DEF LockDedup, tableVars
<1>3. req[r].srv \in Servers /\ mutex \in [Servers -> {0} \cup Requests]
  BY <1>1, UnderWay DEF TypeInv, ReqType
<1>4. ASSUME NEW q \in Requests, Critical(q)' PROVE mutex'[req'[q].srv] = q
  <2>1. CASE q = r
    BY <1>1, <1>2, <1>3, <2>1 DEF Same
  <2>2. CASE q # r
    <3>1. req'[q] = req[q] /\ Critical(q)
      BY <1>1, <1>4, <2>2 DEF Moves, Critical
    <3>2. mutex[req[q].srv] = q /\ q # 0
      BY <3>1 DEF DedupInv, Held, Requests
    <3> QED BY <1>2, <1>3, <3>1, <3>2
  <2> QED BY <2>1, <2>2
<1>5. Held'
  BY <1>4 DEF Held
<1> QED BY <1>1, <1>2, <1>5, DedupQuiet

LEMMA QueryRecentDedup == ASSUME TypeInv, DedupInv, NEW r \in Requests, QueryRecent(r) PROVE DedupInv'
<1>1. /\ TypeInv' /\ Moves(r) /\ Same(r) /\ req[r].pc = "query" /\ req'[r].pc \in {"lock", "done"}
      /\ UNCHANGED <<tasks, now>> /\ req[r].kind = "alert"
  BY QueryRecentTypes DEF Unwrote, TypeInv, Sound
<1>2. Critical(r)
  BY <1>1 DEF Critical
<1>3. CASE Recent(req[r].pod) = {} /\ Step(r, "lock") /\ UNCHANGED mutex
  <2>1. Held'
    BY <1>1, <1>2, <1>3, HeldOn
  <2>2. Clear(r)'
    <3>1. Rows' = Rows
      BY <1>1 DEF Rows
    <3>2. now \in Nat /\ \A i \in Rows : tasks[i].created \in Nat
      BY RowTypes DEF TypeInv, TablesInv, TablesTypeOK, TaskType
    <3>3. ASSUME NEW i \in Rows, tasks[i].alert, tasks[i].pod = req[r].pod
          PROVE  tasks[i].created + Window < now
      <4>1. ~tasks[i].stored \/ tasks[i].created < now - Window
        BY <1>3, <3>2, <3>3 DEF Recent, InTable, Window
      <4>2. Aged(i)
        BY DEF DedupInv
      <4> QED BY <3>2, <4>1, <4>2 DEF Aged, Window
    <3> QED BY <1>1, <3>1, <3>3 DEF Clear, Same, Window
  <2> QED BY <1>1, <2>1, <2>2, DedupQuiet
<1>4. CASE UnlockDedup(r) /\ req'[r].pc = "done"
  <2>1. ~Critical(r)'
    BY <1>4 DEF Critical
  <2>2. Held'
    BY <1>1, <1>4, <2>1, HeldOn
  <2> QED BY <1>1, <2>1, <2>2, DedupQuiet
<1>5. ASSUME NEW i, req' = [req EXCEPT ![r].pc = "done", ![r].out = "deduped", ![r].task = i]
      PROVE  req'[r].pc = "done"
  <2>1. req \in [Requests -> ReqSet] /\ req[r] \in ReqType
    BY <1>1, UnderWay DEF TypeInv
  <2>2. req'[r] = [req[r] EXCEPT !.pc = "done", !.out = "deduped", !.task = i]
    BY <1>5, <2>1
  <2> QED BY <2>1, <2>2 DEF ReqType
<1>6. Answer(r, "error") => req'[r].pc = "done"
  BY <1>1, Answers DEF TypeInv
<1> QED BY <1>3, <1>4, <1>5, <1>6 DEF QueryRecent

LEMMA AcquirePodDedup == ASSUME TypeInv, DedupInv, NEW r \in Requests, AcquirePod(r) PROVE DedupInv'
<1>1. /\ TypeInv' /\ Moves(r) /\ Same(r) /\ req[r].pc = "lock" /\ UNCHANGED <<tasks, now>>
  BY AcquirePodTypes DEF Unwrote
<1>2. /\ Rows' = Rows
  BY <1>1 DEF Rows
<1>3. CASE Step(r, "insert") /\ UNCHANGED mutex
  <2>1. req'[r].pc = "insert"
    BY <1>1, <1>3, Steps DEF TypeInv, Places
  <2>2. Critical(r)' => Critical(r) /\ Clear(r)
    BY <1>1, <2>1 DEF Critical, Same, DedupInv, Looked
  <2>3. Held'
    BY <1>1, <1>3, <2>2, HeldOn
  <2>4. Critical(r)' => Clear(r)'
    BY <1>1, <1>2, <2>2 DEF Clear, Same
  <2> QED BY <1>1, <2>3, <2>4, DedupQuiet
<1>4. ASSUME NEW out \in {"skipped", "error"}, Answer(r, out), UnlockDedup(r) PROVE DedupInv'
  <2>1. ~Critical(r)'
    BY <1>1, <1>4, Answers DEF TypeInv, Critical
  <2>2. Held'
    BY <1>1, <1>4, <2>1, HeldOn
  <2> QED BY <1>1, <2>1, <2>2, DedupQuiet
<1> QED BY <1>3, <1>4 DEF AcquirePod

LEMMA CreateTaskDedup == ASSUME TypeInv, DedupInv, NEW r \in Requests, CreateTask(r) PROVE DedupInv'
<1>1. /\ TypeInv' /\ Moves(r) /\ Same(r) /\ req[r].pc = "insert" /\ req'[r].pc \in {"done", "audit"}
      /\ UNCHANGED now /\ UnlockDedup(r)
  BY CreateTaskTypes
<1>2. ~Critical(r)'
  BY <1>1 DEF Critical
<1>3. Held'
  BY <1>1, <1>2, HeldOn
<1>4. CASE UNCHANGED tasks
  BY <1>1, <1>2, <1>3, <1>4, DedupQuiet
<1>5. CASE Inserted(r)
  <2> DEFINE m == Len(tasks) + 1
  <2>1. PICK n \in Tasks : n = m
    BY <1>5 DEF Inserted
  <2>2. Rows = 1..Len(tasks) /\ Len(tasks) \in Nat /\ Len(tasks') = n /\ Rows' = Rows \cup {n}
    <3>1. Rows = 1..Len(tasks) /\ Len(tasks) \in Nat /\ Len(tasks') = n
      BY <1>5, <2>1, RowTypes DEF Inserted, TypeInv
    <3> QED BY <2>1, <3>1 DEF Rows, Tasks
  <2>3. /\ \A i \in Rows : tasks'[i] = tasks[i]
        /\ tasks'[n].pod = req[r].pod /\ tasks'[n].created = now /\ tasks'[n].stored
        /\ tasks'[n].by = IF req[r].kind = "alert" THEN req[r].srv ELSE NoServer
    BY <1>5, <2>1 DEF Inserted
  <2>4. tasks'[n].by # NoServer => Critical(r) /\ Clear(r) /\ tasks'[n].by = req[r].srv
    BY <1>1, <2>3 DEF Critical, DedupInv, Looked
  <2>5. now \in Nat /\ \A i \in Rows : tasks[i].created \in Nat
    BY RowTypes DEF TypeInv, TablesInv, TablesTypeOK, TaskType
  <2>6. \A i \in Rows' : Aged(i)'
    BY <1>1, <2>2, <2>3, <2>5 DEF DedupInv, Aged
  <2>7. DedupPerServer'
    <3> SUFFICES ASSUME NEW i \in Rows', NEW j \in Rows', i < j, tasks'[i].alert, tasks'[j].alert,
                        tasks'[i].by = tasks'[j].by, tasks'[i].by # NoServer, tasks'[i].pod = tasks'[j].pod
                 PROVE  tasks'[j].created > tasks'[i].created + Window
      BY DEF DedupPerServer, Window
    <3>1. i \in Rows
      BY <2>1, <2>2
    <3>2. CASE j \in Rows
      BY <2>3, <3>1, <3>2 DEF DedupInv, DedupPerServer
    <3>3. CASE j = n
      <4>1. tasks[i].created + Window < now
        BY <2>3, <2>4, <3>1, <3>3 DEF Clear
      <4> QED BY <2>3, <2>5, <3>1, <3>3, <4>1 DEF Window
    <3> QED BY <2>2, <3>2, <3>3
  <2>8. ASSUME NEW q \in Requests, Critical(q)', req'[q].pc # "query" PROVE Clear(q)'
    <3>1. q # r /\ req'[q] = req[q] /\ Critical(q) /\ req[q].pc # "query"
      BY <1>1, <1>2, <2>8 DEF Moves, Critical
    <3>2. Clear(q) /\ mutex[req[q].srv] = q
      BY <3>1 DEF DedupInv, Looked, Held
    <3>3. tasks'[n].by # req[q].srv
      <4>1. req[q].srv \in Servers
        BY <3>1, UnderWay DEF Critical, TypeInv, ReqType
      <4> QED BY <2>4, <3>1, <3>2, <4>1 DEF DedupInv, Held
    <3>4. ASSUME NEW i \in Rows', tasks'[i].alert, tasks'[i].by = req'[q].srv, tasks'[i].pod = req'[q].pod
          PROVE  tasks'[i].created + Window < now'
      <4>1. i \in Rows
        BY <2>2, <3>1, <3>3, <3>4
      <4> QED BY <1>1, <2>3, <3>1, <3>2, <3>4, <4>1 DEF Clear, Window
    <3> QED BY <3>4 DEF Clear, Window
  <2> QED BY <1>3, <2>6, <2>7, <2>8 DEF DedupInv, Looked
<1> QED BY <1>4, <1>5, CreateTaskTypes

\* The other requests neither insert a row nor touch the mutex.
LEMMA HandleDedup == ASSUME TypeInv, DedupInv, NEW r \in Requests, Handle(r) PROVE DedupInv'
<1>1. ASSUME TypeInv', Moves(r), ~Critical(r)', UNCHANGED <<tasks, now, mutex>> PROVE DedupInv'
  <2>1. Held'
    BY <1>1, HeldOn
  <2> QED BY <1>1, <2>1, DedupQuiet
<1>2. CASE LockDedup(r) \/ QueryRecent(r) \/ AcquirePod(r) \/ CreateTask(r)
  BY <1>2, LockDedupDedup, QueryRecentDedup, AcquirePodDedup, CreateTaskDedup
<1>3. CASE Decide(r)
  BY <1>1, <1>3, DecideTypes DEF Critical
<1>4. CASE InsertFeedback(r)
  BY <1>1, <1>4, InsertFeedbackTypes DEF Critical
<1>5. CASE RecordAudit(r)
  BY <1>1, <1>5, RecordAuditTypes DEF Critical
<1>6. CASE ReadTask(r)
  BY <1>1, <1>6, ReadTaskTypes DEF Critical, tableVars
<1>7. CASE LoadReport(r)
  BY <1>1, <1>7, LoadReportTypes DEF Critical, tableVars
<1>8. CASE WriteRunbook(r)
  BY <1>1, <1>8, WriteRunbookTypes DEF Critical
<1>9. CASE IndexChunk(r)
  BY <1>1, <1>9, IndexChunkTypes DEF Critical
<1> QED BY <1>2, <1>3, <1>4, <1>5, <1>6, <1>7, <1>8, <1>9 DEF Handle

\* A step that is no request's.
LEMMA DedupUnasked ==
    ASSUME TypeInv, TypeInv', DedupInv, UNCHANGED <<req, mutex>>,
           Rows' = Rows, now <= now', \A i \in Rows : Origin(i)
    PROVE  DedupInv'
<1>1. Held'
  BY DEF DedupInv, Held, Critical
<1>2. Looked'
  BY RowsKept DEF DedupInv, Looked, Critical
<1> QED BY <1>1, <1>2, RowsKept DEF DedupInv

LEMMA RunDedup == ASSUME TypeInv, DedupInv, NEW j \in Tasks, Diagnose(j) PROVE DedupInv'
<1>1. TypeInv' /\ RunStep(j) /\ UNCHANGED <<req, mutex>>
  BY DiagnoseTypes
<1>2. Rows' = Rows /\ Rows = 1..Len(tasks) /\ tasks \in Seq(TaskType)
  BY <1>1, RunTypes, RowTypes DEF TypeInv, TablesInv, TablesTypeOK
<1>3. now' = now /\ now \in Nat
  BY <1>1 DEF RunStep, Load, RunAgent, PersistReport, FinishRun, TypeInv, TablesInv, TablesTypeOK
<1>4. \A i \in Rows : Origin(i)
  <2>1. CASE UNCHANGED tasks
    BY <1>3, <2>1, Unmoved
  <2>2. CASE SaveRow(j, run[j])
    <3> SUFFICES ASSUME NEW i \in Rows PROVE Origin(i)
      OBVIOUS
    <3>1. Aged(i) /\ tasks[i] \in TaskType
      BY <1>2 DEF DedupInv
    <3>2. CASE i = j
      <4> DEFINE st == run[j]
                 row == [tasks[j] EXCEPT !.status = st, !.stored = TRUE]
      <4>1. tasks'[j] = row
        <5>1. tasks' = [tasks EXCEPT ![j] = row]
          BY <1>2, <2>2, <3>2 DEF SaveRow
        <5> HIDE DEF row
        <5> QED BY <1>2, <3>2, <5>1
      <4>2. /\ row.created = tasks[j].created /\ (row.alert <=> tasks[j].alert)
            /\ row.by = tasks[j].by /\ row.pod = tasks[j].pod /\ row.stored
        <5> HIDE DEF st
        <5> QED BY <3>1, <3>2 DEF TaskType
      <4> QED BY <3>2, <4>1, <4>2 DEF Origin
    <3>3. CASE i # j
      <4>1. tasks'[i] = tasks[i]
        BY <1>2, <2>2, <3>3 DEF SaveRow
      <4> QED BY <1>3, <3>1, <4>1 DEF Origin, Aged
    <3> QED BY <3>2, <3>3
  <2> QED BY <1>1, <2>1, <2>2 DEF RunStep, Load, RunAgent, PersistReport, FinishRun
<1> QED BY <1>1, <1>2, <1>3, <1>4, DedupUnasked

LEMMA CleanupDedup == ASSUME TypeInv, DedupInv, RetentionLoop PROVE DedupInv'
<1>1. TypeInv' /\ Cleanup /\ UNCHANGED <<req, mutex>>
  BY RetentionTypes DEF RetentionLoop, controlVars
<1>2. /\ Rows' = Rows /\ now' = now
      /\ \A i \in Rows : SameTask(i) /\ (tasks'[i] = tasks[i] \/ Expired(i))
  BY <1>1, CleanupTypes DEF TypeInv
<1>3. \A i \in Rows : Origin(i)
  BY <1>2 DEF Origin, SameTask, Expired, DedupInv, Aged
<1>4. now \in Nat
  BY DEF TypeInv, TablesInv, TablesTypeOK
<1> QED BY <1>1, <1>2, <1>3, <1>4, DedupUnasked

LEMMA TickDedup == ASSUME TypeInv, DedupInv, TimePasses PROVE DedupInv'
<1>1. TypeInv' /\ UNCHANGED <<req, mutex, tasks>> /\ now' = now + 1
  BY TickTypes DEF controlVars
<1>2. now \in Nat /\ \A i \in Rows : tasks[i].created \in Nat
  BY RowTypes DEF TypeInv, TablesInv, TablesTypeOK, TaskType
<1>3. Rows' = Rows /\ \A i \in Rows : Origin(i)
  BY <1>1, <1>2 DEF DedupInv, Rows, Origin, Aged
<1> QED BY <1>1, <1>2, <1>3, DedupUnasked

LEMMA DedupInit == Init => DedupInv
BY DEF Init, TablesInit, DedupInv, Held, Looked, Critical, DedupPerServer, Rows, Tasks

LEMMA DedupNext == TypeInv /\ DedupInv /\ [Next]_vars => DedupInv'
<1> SUFFICES ASSUME TypeInv, DedupInv, [Next]_vars PROVE DedupInv'
  OBVIOUS
<1>1. TypeInv'
  BY NextTypes
<1>2. CASE UNCHANGED vars
  <2>1. UNCHANGED <<tasks, now, req, mutex>> /\ now \in Nat
    BY <1>2 DEF vars, tableVars, controlVars, TypeInv, TablesInv, TablesTypeOK
  <2> QED BY <1>1, <2>1, Unmoved, DedupUnasked
<1>3. ASSUME NEW r \in Requests, RequestArrives(r) PROVE DedupInv'
  <2>1. /\ Moves(r) /\ req'[r].pc \in Arrivals /\ (req'[r].pc \in {"dedup"} <=> req'[r].kind = "alert")
        /\ UNCHANGED <<tasks, now, mutex>>
    BY <1>3, Arrival DEF tableVars
  <2>2. ~Critical(r)'
    BY <2>1 DEF Critical
  <2>3. Held'
    BY <2>1, <2>2, HeldOn
  <2> QED BY <1>1, <2>1, <2>2, <2>3, DedupQuiet
<1> QED BY <1>2, <1>3, HandleDedup, RunDedup, CleanupDedup, TickDedup DEF Next

\* However the alerts of one server interleave, whatever its diagnoses, the retention loop and
\* failing storage calls do meanwhile: one diagnosis per alert and window.
THEOREM Deduplicated == Spec => []DedupPerServer
<1>1. DedupInv => DedupPerServer
  BY DEF DedupInv
<1> QED BY <1>1, AlwaysTyped, DedupInit, DedupNext, PTL DEF Spec

-----------------------------------------------------------------------------
(* The audit of verdicts.  Whoever decided about a remediation is past its update and has    *)
(* its audit entry yet to write, or has written it, unless a storage call failed.            *)
Decider(e) ==
    LET r == execs[e].by IN
    /\ r \in Requests /\ req[r].pc \in {"audit", "done"} /\ req[r].arg = e
    /\ req[r].kind \in {"approve", "reject"} /\ execs[e].status = Verdict(req[r].kind)
    /\ req[r].pc = "done" /\ lost = 0 => AuditEntry(r) \in audit

VerdictInv == \A e \in DOMAIN execs : execs[e].status # "pending_approval" => Decider(e)

LEMMA LostGrows == TypeInv /\ [Next]_vars => (lost' = 0 => lost = 0)
<1> SUFFICES ASSUME TypeInv, [Next]_vars, lost' = 0 PROVE lost = 0
  OBVIOUS
<1>1. lost \in Nat
  BY DEF TypeInv, TablesInv, TablesTypeOK
<1>2. ~Lose
  BY <1>1 DEF Lose
<1>3. ASSUME NEW r \in Requests, Handle(r) PROVE lost' = lost
  <2>1. CASE CreateTask(r)
    BY <1>2, <2>1 DEF CreateTask
  <2>2. CASE Decide(r) \/ InsertFeedback(r) \/ RecordAudit(r)
    BY <1>2, <2>2 DEF Decide, InsertFeedback, RecordAudit
  <2>3. CASE WriteRunbook(r) \/ IndexChunk(r)
    BY <1>2, <2>3 DEF WriteRunbook, IndexChunk
  <2>4. CASE QueryRecent(r) \/ AcquirePod(r)
    BY <1>2, <2>4 DEF QueryRecent, AcquirePod
  <2>5. CASE LockDedup(r) \/ ReadTask(r) \/ LoadReport(r)
    BY <2>5 DEF LockDedup, ReadTask, LoadReport, tableVars
  <2> QED BY <1>3, <2>1, <2>2, <2>3, <2>4, <2>5 DEF Handle
<1>4. ASSUME NEW i \in Tasks, RunStep(i) PROVE lost' = lost
  BY <1>2, <1>4 DEF RunStep, Load, RunAgent, PersistReport, FinishRun
<1>5. ASSUME NEW r \in Requests, RequestArrives(r) PROVE lost' = lost
  BY <1>5, Arrival DEF tableVars
<1>6. CASE RetentionLoop \/ TimePasses
  BY <1>6 DEF RetentionLoop, Cleanup, TimePasses, Tick
<1>7. CASE UNCHANGED vars
  BY <1>7 DEF vars, tableVars
<1> QED BY <1>3, <1>4, <1>5, <1>6, <1>7 DEF Next, Diagnose

\* A step of a request that has decided nothing yet.
LEMMA VerdictFrame ==
    ASSUME TypeInv, VerdictInv, NEW r \in Requests, Moves(r), req[r].pc \notin {"audit", "done"},
           audit \subseteq audit', lost' = 0 => lost = 0, UNCHANGED execs
    PROVE  VerdictInv'
<1> SUFFICES ASSUME NEW e \in DOMAIN execs, execs[e].status # "pending_approval"
             PROVE  Decider(e)'
  BY DEF VerdictInv
<1>1. Decider(e) /\ execs[e].by # r
  BY DEF VerdictInv, Decider
<1>2. req'[execs[e].by] = req[execs[e].by]
  BY <1>1 DEF Moves, Decider
<1> QED BY <1>1, <1>2 DEF Decider, AuditEntry

\* A step that is no request's.
LEMMA VerdictKept ==
    ASSUME VerdictInv, UNCHANGED <<req, audit>>, lost' = 0 => lost = 0,
           \A e \in DOMAIN execs' : execs'[e].status # "pending_approval" =>
               /\ e \in DOMAIN execs /\ execs'[e].status = execs[e].status /\ execs'[e].by = execs[e].by
    PROVE  VerdictInv'
<1> SUFFICES ASSUME NEW e \in DOMAIN execs', execs'[e].status # "pending_approval"
             PROVE  Decider(e)'
  BY DEF VerdictInv
<1>1. Decider(e)
  BY DEF VerdictInv
<1> QED BY <1>1 DEF Decider, AuditEntry

LEMMA VerdictDecide ==
    ASSUME TypeInv, VerdictInv, NEW r \in Requests, Decide(r), lost' = 0 => lost = 0
    PROVE  VerdictInv'
<1> DEFINE e == req[r].arg
<1>1. Moves(r) /\ Same(r) /\ req[r].pc = "decide" /\ audit' = audit
  BY DecideTypes
<1>2. /\ execs \in Seq(ExecType) /\ req[r].kind \in {"approve", "reject"} /\ e \in DOMAIN execs
      /\ execs[e] \in ExecType
  BY <1>1, RowTypes DEF TypeInv, Sound, TablesInv, TablesTypeOK
<1>3. CASE UNCHANGED execs
  BY <1>1, <1>3, VerdictFrame
<1>4. CASE /\ execs' = [execs EXCEPT ![e].status = Verdict(req[r].kind), ![e].by = r]
           /\ Step(r, "audit")
  <2>1. req'[r].pc = "audit"
    BY <1>1, <1>4, Steps DEF TypeInv, Places
  <2>2. PICK d \in DOMAIN execs : d = e
    BY <1>2
  <2>3. /\ DOMAIN execs' = DOMAIN execs /\ \A f \in DOMAIN execs \ {d} : execs'[f] = execs[f]
        /\ execs'[d].by = r /\ execs'[d].status = Verdict(req[r].kind)
    <3> DEFINE x == [execs[d] EXCEPT !.status = Verdict(req[r].kind), !.by = r]
    <3>1. execs' = [execs EXCEPT ![d] = x]
      BY <1>2, <1>4, <2>2
    <3>2. x.by = r /\ x.status = Verdict(req[r].kind)
      <4> DEFINE v == Verdict(req[r].kind)
      <4>1. execs[d] \in ExecType
        BY <1>2, <2>2
      <4> HIDE DEF v
      <4> QED BY <4>1 DEF ExecType, v
    <3> HIDE DEF x
    <3> QED BY <1>2, <3>1, <3>2
  <2>4. Decider(d)'
    BY <1>1, <1>2, <2>1, <2>2, <2>3 DEF Decider, Same
  <2>5. ASSUME NEW f \in DOMAIN execs \ {d}, execs'[f].status # "pending_approval" PROVE Decider(f)'
    <3>1. Decider(f) /\ execs[f].by # r
      BY <1>1, <2>3, <2>5 DEF VerdictInv, Decider
    <3>2. req'[execs[f].by] = req[execs[f].by] /\ execs'[f] = execs[f]
      BY <1>1, <2>3, <3>1 DEF Moves, Decider
    <3> QED BY <1>1, <3>1, <3>2 DEF Decider, AuditEntry
  <2> QED BY <2>3, <2>4, <2>5 DEF VerdictInv
<1> QED BY <1>3, <1>4 DEF Decide

LEMMA VerdictAudit ==
    ASSUME TypeInv, VerdictInv, NEW r \in Requests, RecordAudit(r)
    PROVE  VerdictInv'
<1>1. /\ Moves(r) /\ Same(r) /\ req[r].pc = "audit" /\ req'[r].pc = "done" /\ UNCHANGED execs
      /\ audit \subseteq audit' /\ (lost' = 0 => lost = 0 /\ AuditEntry(r) \in audit')
  BY RecordAuditTypes
<1> SUFFICES ASSUME NEW e \in DOMAIN execs, execs[e].status # "pending_approval"
             PROVE  Decider(e)'
  BY <1>1 DEF VerdictInv
<1>2. Decider(e)
  BY DEF VerdictInv
<1>3. CASE execs[e].by = r
  <2>1. AuditEntry(r)' = AuditEntry(r)
    BY <1>1 DEF AuditEntry, Same
  <2> QED BY <1>1, <1>2, <1>3, <2>1 DEF Decider, Same
<1>4. CASE execs[e].by # r
  <2>1. req'[execs[e].by] = req[execs[e].by]
    BY <1>1, <1>2, <1>4 DEF Moves, Decider
  <2> QED BY <1>1, <1>2, <2>1 DEF Decider, AuditEntry
<1> QED BY <1>3, <1>4

LEMMA VerdictInit == Init => VerdictInv
BY DEF Init, TablesInit, VerdictInv

LEMMA VerdictNext == TypeInv /\ VerdictInv /\ [Next]_vars => VerdictInv'
<1> SUFFICES ASSUME TypeInv, VerdictInv, [Next]_vars PROVE VerdictInv'
  OBVIOUS
<1>1. lost' = 0 => lost = 0
  BY LostGrows
<1>2. ASSUME NEW r \in Requests, Handle(r) PROVE VerdictInv'
  <2>1. Moves(r) /\ req[r].pc \notin {"new", "done"}
    BY <1>2, HandleTypes
  <2>2. CASE Decide(r) \/ RecordAudit(r)
    BY <1>1, <2>2, VerdictDecide, VerdictAudit
  <2>3. CASE ~Decide(r) /\ ~RecordAudit(r)
    <3>1. /\ UNCHANGED <<execs, audit>> /\ req[r].pc # "audit"
      BY <1>2, <2>3 DEF Handle, LockDedup, QueryRecent, AcquirePod, CreateTask, InsertFeedback,
                        ReadTask, LoadReport, WriteRunbook, IndexChunk, At, Indexing, tableVars
    <3> QED BY <1>1, <2>1, <3>1, VerdictFrame
  <2> QED BY <2>2, <2>3
<1>3. ASSUME NEW r \in Requests, RequestArrives(r) PROVE VerdictInv'
  BY <1>1, <1>3, Arrival, VerdictFrame DEF tableVars
<1>4. CASE UNCHANGED <<execs, req, audit>>
  BY <1>1, <1>4, VerdictKept
<1>5. ASSUME NEW i \in Tasks, Diagnose(i) PROVE VerdictInv'
  <2>1. UNCHANGED <<req, audit>> /\ RunStep(i)
    BY <1>5, DiagnoseTypes
  <2>2. CASE UNCHANGED execs
    BY <1>4, <2>1, <2>2
  <2>3. CASE execs' = Append(execs, [task |-> i, status |-> "pending_approval", by |-> 0, stored |-> TRUE])
    <3>1. execs \in Seq(ExecType)
      BY DEF TypeInv, TablesInv, TablesTypeOK
    <3>2. \A e \in DOMAIN execs' : execs'[e].status # "pending_approval" =>
             e \in DOMAIN execs /\ execs'[e] = execs[e]
      BY <2>3, <3>1
    <3> QED BY <1>1, <2>1, <3>2, VerdictKept
  <2> QED BY <2>1, <2>2, <2>3 DEF RunStep, Load, RunAgent, PersistReport, FinishRun
<1>6. CASE RetentionLoop
  BY <1>1, <1>6, CleanupTypes, VerdictKept DEF RetentionLoop, controlVars, TypeInv
<1>7. CASE TimePasses
  BY <1>4, <1>7 DEF TimePasses, Tick, controlVars
<1>8. CASE UNCHANGED vars
  BY <1>4, <1>8 DEF vars, tableVars, controlVars
<1> QED BY <1>2, <1>3, <1>5, <1>6, <1>7, <1>8 DEF Next

\* Of operators who decide about one remediation at once, the one whose verdict the row has is
\* the one whose audit entry agrees with it.
THEOREM VerdictsAudited == Spec => []VerdictIsAudited
<1>1. VerdictInv => VerdictIsAudited
  BY DEF VerdictInv, VerdictIsAudited, Decider, AuditEntry, At
<1> QED BY <1>1, AlwaysTyped, VerdictInit, VerdictNext, PTL DEF Spec

-----------------------------------------------------------------------------
(* The vector index.  As long as no update of it was lost or overtaken, one request at most  *)
(* writes to it, that request writes the newest version, and the chunks before its next one  *)
(* are of that version.                                                                      *)
Current(c) == index[c] = runbook.version

IndexInv ==
    ~tangled =>
        /\ \A q \in Requests : Indexing(q) =>
              /\ \A p \in Requests : Indexing(p) => p = q
              /\ req[q].task = runbook.version /\ req[q].arg = runbook.chunks
              /\ \A c \in Chunks : c < req[q].next => Current(c)
        /\ (\A q \in Requests : ~Indexing(q)) => \A c \in Chunks : c <= runbook.chunks => Current(c)

LEMMA IndexFrame ==
    ASSUME IndexInv, UNCHANGED <<runbook, index, tangled>>,
           \A q \in Requests : IF Indexing(q) THEN req'[q] = req[q] ELSE ~Indexing(q)'
    PROVE  IndexInv'
BY DEF IndexInv, Indexing, At, Current

LEMMA IndexWrite == ASSUME TypeInv, IndexInv, NEW r \in Requests, WriteRunbook(r) PROVE IndexInv'
<1>1. /\ Moves(r) /\ Same(r) /\ req[r].pc = "write" /\ req'[r].pc \in {"index", "done"} /\ UNCHANGED index
      /\ req'[r].pc = "index" =>
            /\ req'[r].next = 1 /\ req'[r].task = runbook'.version
            /\ runbook'.chunks = req[r].arg
            /\ tangled' <=> tangled \/ \E q \in Requests : Indexing(q)
      /\ req'[r].pc = "done" => UNCHANGED <<runbook, tangled>>
  BY WriteRunbookTypes
<1>2. CASE req'[r].pc = "done"
  BY <1>1, <1>2, IndexFrame DEF Moves, Indexing, At
<1>3. CASE req'[r].pc = "index" /\ ~tangled'
  <2>1. \A q \in Requests : Indexing(q)' => q = r
    BY <1>1, <1>3 DEF Moves, Indexing, At
  <2>2. \A c \in Chunks : ~(c < 1)
    BY DEF Chunks
  <2> QED BY <1>1, <1>3, <2>1, <2>2 DEF IndexInv, Indexing, At, Same
<1>4. CASE tangled'
  BY <1>4 DEF IndexInv
<1> QED BY <1>1, <1>2, <1>3, <1>4

LEMMA IndexStep == ASSUME TypeInv, IndexInv, NEW r \in Requests, IndexChunk(r) PROVE IndexInv'
<1>1. /\ Moves(r) /\ Same(r) /\ req[r].pc = "index" /\ req'[r].pc \in {"index", "audit"} /\ UNCHANGED runbook
      /\ \/ /\ index' = [index EXCEPT ![req[r].next] = req[r].task]
            /\ req'[r].task = req[r].task /\ req'[r].next = req[r].next + 1
            /\ req'[r].pc = "index" <=> req[r].next < req[r].arg
            /\ UNCHANGED tangled
         \/ tangled' = TRUE /\ UNCHANGED index /\ req'[r].pc = "audit"
  BY IndexChunkTypes
<1>2. CASE tangled'
  BY <1>2 DEF IndexInv
<1>3. CASE ~tangled'
  <2>1. /\ index' = [index EXCEPT ![req[r].next] = req[r].task] /\ ~tangled
        /\ req'[r].task = req[r].task /\ req'[r].next = req[r].next + 1
        /\ req'[r].pc = "index" <=> req[r].next < req[r].arg
    BY <1>1, <1>3
  <2>2. Indexing(r) /\ req[r].next \in 1..req[r].arg /\ req[r].arg \in Chunks
    BY <1>1 DEF Indexing, At, TypeInv, Sound
  <2>3. req[r].task = runbook.version /\ req[r].arg = runbook.chunks
        /\ \A c \in Chunks : c < req[r].next => Current(c)
    BY <2>1, <2>2 DEF IndexInv
  <2>4. \A c \in Chunks : c < req[r].next + 1 => Current(c)'
    <3>1. \A c \in Chunks : c < req[r].next + 1 => c < req[r].next \/ c = req[r].next
      BY <2>2 DEF Chunks
    <3>2. index \in [Chunks -> 0..runbook.version]
      BY DEF TypeInv, RunbookInv
    <3> QED BY <1>1, <2>1, <2>3, <3>1, <3>2 DEF Current
  <2>5. \A q \in Requests : Indexing(q)' => q = r
    BY <1>1, <2>1, <2>2 DEF IndexInv, Moves, Indexing, At
  <2>6. CASE req'[r].pc = "index"
    BY <1>1, <2>1, <2>3, <2>4, <2>5, <2>6 DEF IndexInv, Indexing, At, Same
  <2>7. CASE req'[r].pc = "audit"
    <3>1. req[r].next = runbook.chunks
      BY <2>1, <2>2, <2>3, <2>7 DEF Chunks
    <3>2. \A q \in Requests : ~Indexing(q)'
      BY <2>5, <2>7 DEF Indexing, At
    <3>3. \A c \in Chunks : c <= runbook.chunks => c < req[r].next + 1
      BY <2>2, <3>1 DEF Chunks
    <3> QED BY <1>1, <2>4, <3>2, <3>3 DEF IndexInv
  <2> QED BY <1>1, <2>6, <2>7
<1> QED BY <1>2, <1>3

LEMMA IndexInit == Init => IndexInv
BY DEF Init, IndexInv, Indexing, At, Current, Chunks

LEMMA IndexNext == TypeInv /\ IndexInv /\ [Next]_vars => IndexInv'
<1> SUFFICES ASSUME TypeInv, IndexInv, [Next]_vars PROVE IndexInv'
  OBVIOUS
<1>1. ASSUME NEW r \in Requests, Moves(r), req[r].pc # "index", req'[r].pc # "index",
             UNCHANGED <<runbook, index, tangled>>
      PROVE  IndexInv'
  BY <1>1, IndexFrame DEF Moves, Indexing, At
<1>2. ASSUME NEW r \in Requests, Handle(r) PROVE IndexInv'
  <2>1. CASE WriteRunbook(r) \/ IndexChunk(r)
    BY <2>1, IndexWrite, IndexStep
  <2>2. CASE LockDedup(r)
    BY <1>1, <2>2, LockDedupTypes DEF LockDedup
  <2>3. CASE QueryRecent(r)
    BY <1>1, <2>3, QueryRecentTypes DEF QueryRecent
  <2>4. CASE AcquirePod(r)
    BY <1>1, <2>4, AcquirePodTypes
  <2>5. CASE CreateTask(r)
    BY <1>1, <2>5, CreateTaskTypes
  <2>6. CASE Decide(r)
    BY <1>1, <2>6, DecideTypes
  <2>7. CASE InsertFeedback(r)
    BY <1>1, <2>7, InsertFeedbackTypes
  <2>8. CASE RecordAudit(r)
    BY <1>1, <2>8, RecordAuditTypes
  <2>9. CASE ReadTask(r)
    BY <1>1, <2>9, ReadTaskTypes
  <2>10. CASE LoadReport(r)
    BY <1>1, <2>10, LoadReportTypes
  <2> QED BY <1>2, <2>1, <2>2, <2>3, <2>4, <2>5, <2>6, <2>7, <2>8, <2>9, <2>10 DEF Handle
<1>3. ASSUME NEW r \in Requests, RequestArrives(r) PROVE IndexInv'
  BY <1>1, <1>3, Arrival DEF Arrivals
<1>4. CASE UNCHANGED <<req, runbook, index, tangled>>
  BY <1>4, IndexFrame DEF Indexing, At
<1>5. CASE \E i \in Tasks : Diagnose(i)
  BY <1>4, <1>5, DiagnoseTypes
<1>6. CASE RetentionLoop \/ TimePasses
  BY <1>4, <1>6 DEF RetentionLoop, TimePasses, controlVars
<1>7. CASE UNCHANGED vars
  BY <1>4, <1>7 DEF vars, controlVars
<1> QED BY <1>2, <1>3, <1>5, <1>6, <1>7 DEF Next

\* After any number of undisturbed updates, of any lengths, the index holds the chunks of the
\* newest version of the runbook.
THEOREM IndexFollows == Spec => []IndexFollowsRunbook
<1>1. IndexInv => IndexFollowsRunbook
  BY DEF IndexInv, IndexFollowsRunbook, Current
<1> QED BY <1>1, AlwaysTyped, IndexInit, IndexNext, PTL DEF Spec

-----------------------------------------------------------------------------
(* Event streams.  A row says success only after its report was stored, and only retention   *)
(* takes a report away.                                                                      *)
Reported(i) == i \in report \/ tasks[i].created < now - Retention

StreamInv ==
    /\ \A i \in Rows : run[i] = "success" \/ tasks[i].status = "success" => Reported(i)
    /\ \A q \in Requests : req[q].pc = "load" /\ req[q].seen = "success" => Reported(req[q].arg)

\* What a step of a diagnosis or of the retention loop does to the reports and the rows.
Reporting == \A i \in Rows :
    /\ Reported(i) => Reported(i)'
    /\ run'[i] = "success" \/ tasks'[i].status = "success" =>
           run[i] = "success" \/ tasks[i].status = "success" \/ Reported(i)'

\* A request that does not go to "load" by the step.
LEMMA StreamKept ==
    ASSUME TypeInv, StreamInv, Reporting, Rows' = Rows,
           \A q \in Requests : req'[q] = req[q] \/ req'[q].pc # "load"
    PROVE  StreamInv'
<1>1. \A i \in Rows' : run'[i] = "success" \/ tasks'[i].status = "success" => Reported(i)'
  BY DEF StreamInv, Reporting
<1>2. ASSUME NEW q \in Requests, req'[q].pc = "load", req'[q].seen = "success" PROVE Reported(req[q].arg)'
  <2>1. req'[q] = req[q] /\ Reported(req[q].arg) /\ req[q].arg \in Rows
    BY <1>2 DEF StreamInv, TypeInv, Sound
  <2>2. PICK i \in Rows : i = req[q].arg
    BY <2>1
  <2>3. Reported(i)'
    BY <2>1, <2>2 DEF Reporting
  <2> QED BY <2>1, <2>2, <2>3 DEF Reported
<1> QED BY <1>1, <1>2 DEF StreamInv, Reported

LEMMA QuietReporting ==
    ASSUME UNCHANGED <<tasks, run, report, now>>
    PROVE  Reporting /\ Rows' = Rows
BY DEF Reporting, Reported, Rows

LEMMA RunReporting == ASSUME TypeInv, StreamInv, NEW j \in Tasks, RunStep(j) PROVE Reporting
<1>1. /\ run \in [Tasks -> {"none", "begin", "agent", "persist", "success", "failed", "ended"}]
      /\ Rows = 1..Len(tasks) /\ tasks \in Seq(TaskType) /\ \A i \in Rows : i \in Tasks
  BY RowTypes DEF TypeInv, TablesInv, TablesTypeOK, Rows
<1>2. CASE Load(j) \/ RunAgent(j)
  <2>1. UNCHANGED <<tasks, report, now>> /\ run' = [run EXCEPT ![j] = run'[j]] /\ run'[j] # "success"
    BY <1>1, <1>2 DEF Load, RunAgent
  <2> QED BY <1>1, <2>1 DEF Reporting, Reported
<1>3. CASE PersistReport(j)
  <2>1. /\ UNCHANGED <<tasks, now>> /\ run' = [run EXCEPT ![j] = run'[j]] /\ report \subseteq report'
        /\ run'[j] = "success" => j \in report'
    BY <1>1, <1>3 DEF PersistReport
  <2> QED BY <1>1, <2>1 DEF Reporting, Reported
<1>4. CASE FinishRun(j)
  <2>1. UNCHANGED <<report, now>> /\ run' = [run EXCEPT ![j] = "ended"]
    BY <1>4 DEF FinishRun
  <2>2. CASE UNCHANGED tasks
    BY <1>1, <2>1, <2>2 DEF Reporting, Reported
  <2>3. CASE SaveRow(j, run[j])
    <3> SUFFICES ASSUME NEW i \in Rows
                 PROVE  /\ tasks'[i].created = tasks[i].created
                        /\ tasks'[i].status = "success" => run[i] = "success" \/ tasks[i].status = "success"
      BY <1>1, <2>1 DEF Reporting, Reported
    <3>1. tasks[i] \in TaskType
      BY <1>1
    <3> DEFINE st == run[j]
               row == [tasks[j] EXCEPT !.status = st, !.stored = TRUE]
    <3>2. CASE i = j
      <4>1. tasks'[j] = row
        <5>1. tasks' = [tasks EXCEPT ![j] = row]
          BY <1>1, <2>3, <3>2 DEF SaveRow
        <5> HIDE DEF row
        <5> QED BY <1>1, <3>2, <5>1
      <4>2. row.created = tasks[j].created /\ row.status = st
        <5> HIDE DEF st
        <5> QED BY <3>1, <3>2 DEF TaskType
      <4> QED BY <3>2, <4>1, <4>2
    <3>3. CASE i # j
      BY <1>1, <2>3, <3>3 DEF SaveRow
    <3> QED BY <3>2, <3>3
  <2> QED BY <1>4, <2>2, <2>3 DEF FinishRun
<1> QED BY <1>2, <1>3, <1>4 DEF RunStep

LEMMA CleanupReporting == ASSUME TypeInv, Cleanup PROVE Reporting
<1>1. /\ \A i \in Rows : SameTask(i) /\ (tasks'[i] = tasks[i] \/ Expired(i))
      /\ UNCHANGED <<now, run>> /\ report' = report \ {i \in Rows : Expired(i)}
  BY CleanupTypes DEF TypeInv, Cleanup
<1> QED BY <1>1 DEF Reporting, Reported, SameTask, Expired

LEMMA TickReporting == ASSUME TypeInv, TimePasses PROVE Reporting
<1>1. now' = now + 1 /\ UNCHANGED <<tasks, run, report>>
  BY TickTypes
<1>2. now \in Nat /\ \A i \in Rows : tasks[i].created \in Nat
  BY RowTypes DEF TypeInv, TablesInv, TablesTypeOK, TaskType
<1> QED BY <1>1, <1>2 DEF Reporting, Reported

LEMMA StreamCreate == ASSUME TypeInv, StreamInv, NEW r \in Requests, CreateTask(r) PROVE StreamInv'
<1>1. /\ TypeInv' /\ Moves(r) /\ req'[r].pc \in {"done", "audit"} /\ UNCHANGED <<now, report>>
      /\ UNCHANGED <<tasks, run>> \/ Inserted(r)
  BY CreateTaskTypes
<1>2. \A q \in Requests : req'[q] = req[q] \/ req'[q].pc # "load"
  BY <1>1 DEF Moves
<1>3. CASE UNCHANGED <<tasks, run>>
  BY <1>1, <1>2, <1>3, QuietReporting, StreamKept
<1>4. CASE Inserted(r)
  <2> DEFINE m == Len(tasks) + 1
  <2>1. PICK n \in Tasks : n = m
    BY <1>4 DEF Inserted
  <2>2. /\ Rows = 1..Len(tasks) /\ Rows' = Rows \cup {n} /\ \A i \in Rows : tasks'[i] = tasks[i] /\ i # n
    <3>1. Rows = 1..Len(tasks) /\ Len(tasks) \in Nat /\ Len(tasks') = n
      BY <1>4, <2>1, RowTypes DEF Inserted, TypeInv
    <3> QED BY <1>4, <2>1, <3>1 DEF Rows, Tasks, Inserted
  <2>3. /\ run' = [run EXCEPT ![n] = "begin"] /\ tasks'[n].status = "running"
        /\ run \in [Tasks -> {"none", "begin", "agent", "persist", "success", "failed", "ended"}]
    BY <1>4, <2>1 DEF Inserted, TypeInv, TablesInv, TablesTypeOK
  <2>4. \A i \in Rows : Reported(i)' <=> Reported(i)
    BY <1>1, <2>2 DEF Reported
  <2>5. \A i \in Rows' : run'[i] = "success" \/ tasks'[i].status = "success" => Reported(i)'
    BY <2>2, <2>3, <2>4 DEF StreamInv, Rows
  <2>6. ASSUME NEW q \in Requests, req'[q].pc = "load", req'[q].seen = "success" PROVE Reported(req[q].arg)'
    <3>1. req'[q] = req[q] /\ Reported(req[q].arg) /\ req[q].arg \in Rows
      BY <1>2, <2>6 DEF StreamInv, TypeInv, Sound
    <3> QED BY <1>1, <2>2, <3>1 DEF Reported
  <2> QED BY <2>5, <2>6 DEF StreamInv, Reported
<1> QED BY <1>1, <1>3, <1>4

LEMMA StreamRead == ASSUME TypeInv, StreamInv, NEW r \in Requests, ReadTask(r) PROVE StreamInv'
<1>1. /\ Moves(r) /\ Same(r) /\ req[r].pc = "read" /\ req'[r].pc \in {"load", "done"}
      /\ req'[r].pc = "load" => req'[r].seen = tasks[req[r].arg].status /\ InTable(req[r].arg)
      /\ UNCHANGED <<now, tasks, run, report>>
  BY ReadTaskTypes DEF tableVars
<1>2. Rows' = Rows
  BY <1>1 DEF Rows
<1>3. ASSUME NEW q \in Requests, req'[q].pc = "load", req'[q].seen = "success" PROVE Reported(req'[q].arg)
  <2>1. CASE q = r
    BY <1>1, <1>3, <2>1 DEF StreamInv, InTable, Same
  <2>2. CASE q # r
    BY <1>1, <1>3, <2>2 DEF StreamInv, Moves
  <2> QED BY <2>1, <2>2
<1> QED BY <1>1, <1>2, <1>3 DEF StreamInv, Reported

LEMMA StreamInit == Init => StreamInv
BY DEF Init, TablesInit, StreamInv, Rows, Tasks

LEMMA StreamNext == TypeInv /\ StreamInv /\ [Next]_vars => StreamInv'
<1> SUFFICES ASSUME TypeInv, StreamInv, [Next]_vars PROVE StreamInv'
  OBVIOUS
<1>1. ASSUME NEW r \in Requests, Moves(r), req'[r].pc # "load", UNCHANGED <<tasks, run, report, now>>
      PROVE  StreamInv'
  BY <1>1, QuietReporting, StreamKept DEF Moves
<1>2. ASSUME NEW r \in Requests, Handle(r) PROVE StreamInv'
  <2>1. CASE CreateTask(r) \/ ReadTask(r)
    BY <2>1, StreamCreate, StreamRead
  <2>2. CASE LockDedup(r)
    BY <1>1, <2>2, LockDedupTypes DEF LockDedup, tableVars
  <2>3. CASE QueryRecent(r)
    BY <1>1, <2>3, QueryRecentTypes DEF Unwrote
  <2>4. CASE AcquirePod(r)
    BY <1>1, <2>4, AcquirePodTypes DEF Unwrote
  <2>5. CASE Decide(r)
    BY <1>1, <2>5, DecideTypes
  <2>6. CASE InsertFeedback(r)
    BY <1>1, <2>6, InsertFeedbackTypes
  <2>7. CASE RecordAudit(r)
    BY <1>1, <2>7, RecordAuditTypes
  <2>8. CASE WriteRunbook(r)
    BY <1>1, <2>8, WriteRunbookTypes
  <2>9. CASE IndexChunk(r)
    BY <1>1, <2>9, IndexChunkTypes
  <2>10. CASE LoadReport(r)
    BY <1>1, <2>10, LoadReportTypes DEF tableVars
  <2> QED BY <1>2, <2>1, <2>2, <2>3, <2>4, <2>5, <2>6, <2>7, <2>8, <2>9, <2>10 DEF Handle
<1>3. ASSUME NEW r \in Requests, RequestArrives(r) PROVE StreamInv'
  BY <1>1, <1>3, Arrival DEF Arrivals, tableVars
<1>4. ASSUME NEW i \in Tasks, Diagnose(i) PROVE StreamInv'
  <2>1. Reporting /\ Rows' = Rows /\ UNCHANGED req
    BY <1>4, DiagnoseTypes, RunReporting, RunTypes DEF TypeInv
  <2> QED BY <2>1, StreamKept
<1>5. CASE RetentionLoop
  <2>1. Reporting /\ Rows' = Rows /\ UNCHANGED req
    BY <1>5, CleanupTypes, CleanupReporting DEF RetentionLoop, controlVars, TypeInv
  <2> QED BY <2>1, StreamKept
<1>6. CASE TimePasses
  <2>1. Reporting /\ Rows' = Rows /\ UNCHANGED req
    BY <1>6, TickTypes, TickReporting DEF controlVars, Rows
  <2> QED BY <2>1, StreamKept
<1>7. CASE UNCHANGED vars
  <2>1. Reporting /\ Rows' = Rows /\ UNCHANGED req
    BY <1>7, QuietReporting DEF vars, tableVars, controlVars
  <2> QED BY <2>1, StreamKept
<1> QED BY <1>2, <1>3, <1>4, <1>5, <1>6, <1>7 DEF Next

ClosedWell ==
    \A r \in Requests :
        req'[r].pc = "done" /\ ~At(r, "done") /\ req'[r].kind = "stream" /\ req'[r].out = "closed"
            => (req'[r].seen = "success" =>
                    req'[r].shown = "full" \/ tasks[req[r].arg].created < now - Retention)

\* Only the end of a stream answers "closed".
LEMMA StreamEnds == TypeInv /\ StreamInv /\ [Next]_vars => ClosedWell
<1> SUFFICES ASSUME TypeInv, StreamInv, [Next]_vars, NEW r \in Requests,
                    req'[r].pc = "done", req[r].pc # "done", req'[r].kind = "stream",
                    req'[r].out = "closed", req'[r].seen = "success"
             PROVE  req'[r].shown = "full" \/ tasks[req[r].arg].created < now - Retention
  BY DEF ClosedWell, At
<1>1. req \in [Requests -> ReqSet]
  BY DEF TypeInv
<1>2. CASE LoadReport(r)
  <2>1. req[r].pc = "load" /\ req'[r].shown = Shown(req[r].arg) /\ req[r].seen = "success"
    BY <1>2, LoadReportTypes
  <2>2. Reported(req[r].arg)
    BY <2>1 DEF StreamInv
  <2> QED BY <2>1, <2>2 DEF Reported, Shown
<1>3. ASSUME NEW q \in Requests, q # r, Moves(q) PROVE FALSE
  BY <1>3 DEF Moves
<1>4. CASE Handle(r) /\ ~LoadReport(r)
  <2>1. Same(r) /\ req[r].kind = "stream"
    BY <1>4, HandleTypes DEF Same
  <2>2. Sound(r)
    BY DEF TypeInv
  <2>3. CASE CreateTask(r)
    BY <2>1, <2>3 DEF CreateTask
  <2>4. CASE Decide(r)
    BY <2>1, <2>2, <2>4 DEF Decide, Sound, At
  <2>5. CASE InsertFeedback(r)
    BY <2>1, <2>5 DEF InsertFeedback
  <2>6. CASE RecordAudit(r)
    BY <1>1, <2>6, RecordAuditTypes, Answers DEF RecordAudit
  <2>7. CASE ReadTask(r)
    BY <2>7, ReadTaskTypes
  <2>8. CASE WriteRunbook(r)
    BY <2>8, WriteRunbookTypes
  <2>9. CASE IndexChunk(r)
    BY <2>9, IndexChunkTypes
  <2>10. CASE LockDedup(r)
    BY <2>10, LockDedupTypes
  <2>11. CASE QueryRecent(r)
    BY <2>1, <2>2, <2>11, QueryRecentTypes DEF Sound
  <2>12. CASE AcquirePod(r)
    BY <2>1, <2>2, <2>12, AcquirePodTypes DEF Sound
  <2> QED BY <1>4, <2>3, <2>4, <2>5, <2>6, <2>7, <2>8, <2>9, <2>10, <2>11, <2>12 DEF Handle
<1>5. ASSUME NEW q \in Requests, RequestArrives(q) PROVE FALSE
  BY <1>3, <1>5, Arrival DEF Arrivals
<1>6. ASSUME NEW q \in Requests, Handle(q), q # r PROVE FALSE
  BY <1>3, <1>6, HandleTypes
<1>7. CASE UNCHANGED req
  BY <1>7
<1>8. CASE \E i \in Tasks : Diagnose(i)
  BY <1>7, <1>8, DiagnoseTypes
<1>9. CASE RetentionLoop \/ TimePasses \/ UNCHANGED vars
  BY <1>7, <1>9 DEF RetentionLoop, TimePasses, vars, controlVars
<1> QED BY <1>2, <1>4, <1>5, <1>6, <1>8, <1>9 DEF Next

\* However a stream's two reads fall between the steps of the diagnosis and of retention: the
\* stream of a successful diagnosis has shown its report.
THEOREM StreamsShowReports == Spec => StreamShowsReport
<1>1. TypeInv /\ StreamInv /\ [Next]_vars => [ClosedWell]_vars
  BY StreamEnds
<1>2. StreamShowsReport <=> [][ClosedWell]_vars
  BY PTL DEF StreamShowsReport, ClosedWell
<1> QED BY <1>1, <1>2, AlwaysTyped, StreamInit, StreamNext, PTL DEF Spec
=============================================================================
