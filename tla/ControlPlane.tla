---------------------------- MODULE ControlPlane ----------------------------
(***************************************************************************)
(* The requests that act on the tables of a diagnosis: the Alertmanager    *)
(* webhook, StartPodDiagnosis over HTTP, the retry of a dead letter, the   *)
(* approval and rejection of a remediation, the event stream of a task,    *)
(* and the runbooks with the vector index that follows them.  A request is *)
(* handled in one step per storage call, so requests interleave with each  *)
(* other, with the diagnoses they start and with the retention loop.       *)
(***************************************************************************)
EXTENDS DiagnosisTables, FiniteSets

CONSTANTS
    SharedLock,     \* TRUE: pod locks in Redis; FALSE: one map per server
    MaxRequests,    \* bound: requests of a behaviour
    Scripts,        \* the sequences of requests a behaviour may consist of
    MaxChunks       \* bound: chunks of one version of the runbook

KindsOf == {"alert", "diagnose", "retry", "approve", "reject", "stream", "feedback",
            "create", "update"}

ASSUME ControlAssumption ==
    /\ SharedLock \in BOOLEAN /\ Scripts \subseteq Seq(KindsOf)
    /\ MaxRequests \in Nat /\ MaxChunks \in Nat
    /\ Servers # {} /\ Pods # {}

VARIABLES
    script,     \* the kinds of requests of this behaviour, in the order of their arrival
    req,        \* [1..MaxRequests -> a request in progress]
    mutex,      \* [Servers -> the request that holds alertDedupMu, or 0]
    lease,      \* [lock maps -> [Pods -> the lease: the request it was taken for, and its end]]
    runbook,    \* the runbook: its version and chunks (version 0: no row)
    index,      \* [chunk numbers -> version of the content in the vector index, 0: none]
    tangled     \* history: an index update was lost, or overtaken by another update

controlVars == <<script, req, mutex, lease, runbook, index, tangled>>
vars == <<tableVars, controlVars>>

Requests == 1..MaxRequests
Chunks   == 1..MaxChunks
LockMaps == IF SharedLock THEN {"redis"} ELSE Servers
MapOf(s) == IF SharedLock THEN "redis" ELSE s

NoLease == [token |-> 0, end |-> 0]     \* tokens are the numbers of requests
Free(m, p) == lease[m][p].token = 0 \/ now >= lease[m][p].end

Places == {"new", "dedup", "query", "lock", "insert", "audit", "decide", "read", "load",
           "write", "index", "done"}

ReqType == [kind: KindsOf, pc: Places, srv: Servers, pod: Pods, arg: Nat, task: Nat,
            out: {"none", "ok", "deduped", "skipped", "error", "closed"},
            seen: {"none", "running", "success", "failed"}, shown: {"none", "partial", "full"},
            next: 0..MaxChunks + 1]

ControlTypeOK ==
    /\ TablesTypeOK
    /\ \A r \in Requests : req[r].pc # "new" => req[r] \in ReqType
    /\ mutex \in [Servers -> {0} \cup Requests]
    /\ lease \in [LockMaps -> [Pods -> [token: {0} \cup Requests, end: Nat]]]
    /\ runbook \in [version: Nat, chunks: 0..MaxChunks]
    /\ index \in [Chunks -> 0..runbook.version]
    /\ tangled \in BOOLEAN
    /\ \A a \in audit : a.actor \in Requests

Init ==
    /\ TablesInit
    /\ script \in Scripts
    /\ req = [r \in Requests |-> [pc |-> "new"]]
    /\ mutex = [s \in Servers |-> 0]
    /\ lease = [m \in LockMaps |-> [p \in Pods |-> NoLease]]
    /\ runbook = [version |-> 0, chunks |-> 0]
    /\ index = [c \in Chunks |-> 0]
    /\ tangled = FALSE

Step(r, pc) == req' = [req EXCEPT ![r].pc = pc]
Answer(r, out) == req' = [req EXCEPT ![r].pc = "done", ![r].out = out]
At(r, pc) == req[r].pc = pc

\* The servers differ in their mutex and lock map only.
AnyServer == CHOOSE s \in Servers : TRUE
AnyPod    == CHOOSE p \in Pods : TRUE

Arrive(r, kind, s, p, arg, pc) ==
    /\ r \in DOMAIN script /\ kind = script[r]
    /\ At(r, "new") /\ \A q \in 1..(r - 1) : ~At(q, "new")
    /\ req' = [req EXCEPT ![r] = [kind |-> kind, pc |-> pc, srv |-> s, pod |-> p, arg |-> arg,
                                  task |-> 0, out |-> "none", seen |-> "none", shown |-> "none",
                                  next |-> 0]]

-----------------------------------------------------------------------------
(* Starting a diagnosis: by an alert, over HTTP, from a dead letter.       *)

\* handleAlert drops a resolved alert and one without namespace, pod or name
\* before it calls anything; the others go to TriggerFromAlert.
AlertArrives(r) ==
    /\ \E s \in Servers, p \in Pods : Arrive(r, "alert", s, p, 0, "dedup")
    /\ UNCHANGED <<tableVars, script, mutex, lease, runbook, index, tangled>>

LockDedup(r) ==
    /\ At(r, "dedup") /\ mutex[req[r].srv] = 0
    /\ mutex' = [mutex EXCEPT ![req[r].srv] = r]
    /\ Step(r, "query")
    /\ UNCHANGED <<tableVars, script, lease, runbook, index, tangled>>

\* Whatever ends the handler of an alert, the deferred Unlock runs.
UnlockDedupMutant(r) == UNCHANGED mutex
UnlockDedup(r) == mutex' = [s \in Servers |-> IF mutex[s] = r THEN 0 ELSE mutex[s]]

\* FindRecentAlertTask: any status counts, success and failure included.
RecentMutant(p) == {i \in Rows : InTable(i) /\ tasks[i].alert /\ tasks[i].pod = p
                             /\ tasks[i].status = "running" /\ tasks[i].created >= now - Window}
Recent(p) == {i \in Rows : InTable(i) /\ tasks[i].alert /\ tasks[i].pod = p
                             /\ tasks[i].created >= now - Window}

QueryRecent(r) ==
    /\ At(r, "query")
    /\ \/ /\ Recent(req[r].pod) = {}
          /\ Step(r, "lock") /\ UNCHANGED <<mutex, lost>>
       \/ /\ \E i \in Recent(req[r].pod) :
                /\ \A j \in Recent(req[r].pod) : j <= i
                /\ req' = [req EXCEPT ![r].pc = "done", ![r].out = "deduped", ![r].task = i]
          /\ UnlockDedup(r) /\ UNCHANGED lost
       \/ Lose /\ Answer(r, "error") /\ UnlockDedup(r)
    /\ UNCHANGED <<now, tasks, run, report, execs, feedback, audit, dead, unsaved>>
    /\ UNCHANGED <<script, lease, runbook, index, tangled>>

\* A request over HTTP may name an alert (1) or not (0); nothing is looked up for it.
DiagnoseArrives(r) ==
    /\ \E s \in Servers, p \in Pods, named \in 0..1 : Arrive(r, "diagnose", s, p, named, "lock")
    /\ UNCHANGED <<tableVars, script, mutex, lease, runbook, index, tangled>>

\* RetryDeadLetter reads the entry and leaves it where it is.
RetryArrives(r) ==
    /\ \E s \in Servers, i \in dead : Arrive(r, "retry", s, tasks[i].pod, i, "lock")
    /\ UNCHANGED <<tableVars, script, mutex, lease, runbook, index, tangled>>

\* StartPodDiagnosis: a pod whose lock is held is refused; the webhook answers
\* "skipped" with status 200 then, and the alert is not sent again soon.  The
\* call to Redis may fail.
AcquirePod(r) ==
    LET m == MapOf(req[r].srv) IN
    /\ At(r, "lock")
    /\ \/ /\ Free(m, req[r].pod)
          /\ lease' = [lease EXCEPT ![m][req[r].pod] = [token |-> r, end |-> now + Window]]
          /\ Step(r, "insert") /\ UNCHANGED <<mutex, lost>>
       \/ /\ ~Free(m, req[r].pod)
          /\ Answer(r, "skipped") /\ UnlockDedup(r) /\ UNCHANGED <<lease, lost>>
       \/ SharedLock /\ Lose /\ Answer(r, "error") /\ UnlockDedup(r) /\ UNCHANGED lease
    /\ UNCHANGED <<now, tasks, run, report, execs, feedback, audit, dead, unsaved>>
    /\ UNCHANGED <<script, runbook, index, tangled>>

\* redisPodLock.Release compares the token, localPodLock.Release does not.
GiveBack(r) ==
    LET m == MapOf(req[r].srv) IN
    lease' = IF SharedLock => lease[m][req[r].pod].token = r
             THEN [lease EXCEPT ![m][req[r].pod] = NoLease] ELSE lease

\* The row keeps the alert's name, whoever sent it; so does the one a dead letter
\* is tried again with.
NamesAlert(r) ==
    \/ req[r].kind = "alert"
    \/ req[r].kind = "diagnose" /\ req[r].arg = 1
    \/ req[r].kind = "retry" /\ tasks[req[r].arg].alert

CreateTask(r) ==
    LET i == Len(tasks) + 1 IN
    /\ At(r, "insert") /\ req[r].kind \in {"alert", "diagnose", "retry"}
    /\ \/ /\ i <= MaxTasks
          /\ tasks' = Append(tasks, [pod |-> req[r].pod, alert |-> NamesAlert(r),
                                     by |-> IF req[r].kind = "alert" THEN req[r].srv ELSE NoServer,
                                     created |-> now, status |-> "running", stored |-> TRUE])
          /\ run' = [run EXCEPT ![i] = "begin"]
          /\ req' = [req EXCEPT ![r].task = i, ![r].out = "ok",
                                ![r].pc = IF req[r].kind = "alert" THEN "done" ELSE "audit"]
          /\ UNCHANGED <<lease, lost>>
       \/ /\ Lose
          /\ GiveBack(r)
          /\ Answer(r, "error")
          /\ UNCHANGED <<tasks, run>>
    /\ UnlockDedup(r)
    /\ UNCHANGED <<now, report, execs, feedback, audit, dead, unsaved, script, runbook, index, tangled>>

\* The request whose StartPodDiagnosis started task i.
StartedBy(r, i) == ~At(r, "new") /\ req[r].task = i /\ req[r].out # "deduped"

\* A step of a diagnosis; its end gives the lease of its request back.
Diagnose(i) ==
    /\ RunStep(i)
    /\ IF run'[i] = "ended"
       THEN \E r \in Requests : StartedBy(r, i) /\ GiveBack(r)
       ELSE UNCHANGED lease
    /\ UNCHANGED <<script, req, mutex, runbook, index, tangled>>

-----------------------------------------------------------------------------
(* Operators decide about remediations.                                    *)

\* A handler of the pending list knows the id of an execution, which other
\* operators may have decided, and retention deleted, since.
DecideArrives(r, kind) ==
    /\ \E e \in DOMAIN execs : Arrive(r, kind, AnyServer, tasks[execs[e].task].pod, e, "decide")
    /\ UNCHANGED <<tableVars, script, mutex, lease, runbook, index, tangled>>

\* UPDATE ... WHERE id = ? AND status = 'pending_approval'.
UndecidedMutant(e) == execs[e].stored
Undecided(e) == execs[e].stored /\ execs[e].status = "pending_approval"
Verdict(kind) == IF kind = "approve" THEN "manual_acknowledged" ELSE "blocked"

\* No row matched is no error: the request goes on to its audit entry.
Decide(r) ==
    LET e == req[r].arg IN
    /\ At(r, "decide")
    /\ \/ /\ execs' = IF Undecided(e)
                      THEN [execs EXCEPT ![e].status = Verdict(req[r].kind), ![e].by = r]
                      ELSE execs
          /\ Step(r, "audit") /\ UNCHANGED lost
       \/ Lose /\ Answer(r, "error") /\ UNCHANGED execs
    /\ UNCHANGED <<now, tasks, run, report, feedback, audit, dead, unsaved>>
    /\ UNCHANGED <<script, mutex, lease, runbook, index, tangled>>

AuditEntryMutant(r) == [actor |-> r, action |-> req[r].kind, on |-> req[r].task]
AuditEntry(r) == [actor |-> r, action |-> req[r].kind, on |-> req[r].arg]

\* The audit entry of a request that succeeded; an error is ignored.
RecordAudit(r) ==
    /\ At(r, "audit")
    /\ \/ /\ audit' = audit \cup {AuditEntry(r)}
          /\ UNCHANGED lost
       \/ Lose /\ UNCHANGED audit
    /\ Answer(r, "ok")
    /\ UNCHANGED <<now, tasks, run, report, execs, feedback, dead, unsaved>>
    /\ UNCHANGED <<script, mutex, lease, runbook, index, tangled>>

\* SubmitFeedback inserts a row for whatever task id the request names.
FeedbackArrives(r) ==
    /\ \E i \in Rows : Arrive(r, "feedback", AnyServer, tasks[i].pod, i, "insert")
    /\ UNCHANGED <<tableVars, script, mutex, lease, runbook, index, tangled>>

InsertFeedback(r) ==
    /\ At(r, "insert") /\ req[r].kind = "feedback"
    /\ \/ feedback' = feedback \cup {req[r].arg} /\ Step(r, "audit") /\ UNCHANGED lost
       \/ Lose /\ Answer(r, "error") /\ UNCHANGED feedback
    /\ UNCHANGED <<now, tasks, run, report, execs, audit, dead, unsaved>>
    /\ UNCHANGED <<script, mutex, lease, runbook, index, tangled>>

-----------------------------------------------------------------------------
(* The event stream of one task (StreamTask).                              *)

StreamArrives(r) ==
    /\ \E i \in Rows : Arrive(r, "stream", AnyServer, tasks[i].pod, i, "read")
    /\ UNCHANGED <<tableVars, script, mutex, lease, runbook, index, tangled>>

\* Each poll reads the task row; when it is gone the stream ends with an error.
ReadTask(r) ==
    LET i == req[r].arg IN
    /\ At(r, "read")
    /\ IF InTable(i)
       THEN req' = [req EXCEPT ![r].pc = "load", ![r].seen = tasks[i].status]
       ELSE Answer(r, "error")
    /\ UNCHANGED <<tableVars, script, mutex, lease, runbook, index, tangled>>

\* ... and in queries of their own the report, and the rows of the agent, which
\* make up a report where there is none (hydrateAgentReport).
Shown(i) ==
    CASE i \in report -> "full"
      [] i \notin report /\ \E e \in DOMAIN execs : execs[e].task = i /\ execs[e].stored -> "partial"
      [] OTHER -> "none"

\* What was read is sent when its version is new; a terminal status closes the stream.
LoadReport(r) ==
    LET i == req[r].arg IN
    /\ At(r, "load")
    /\ req' = [req EXCEPT ![r].shown = Shown(i),
                          ![r].pc = IF req[r].seen = "running" THEN "read" ELSE "done",
                          ![r].out = IF req[r].seen = "running" THEN "none" ELSE "closed"]
    /\ UNCHANGED <<tableVars, script, mutex, lease, runbook, index, tangled>>

-----------------------------------------------------------------------------
(* Runbooks: the rows in the database, the chunks in the vector index.     *)

\* A second runbook would have rows and index entries of its own.
CreateArrives(r) ==
    /\ \A q \in Requests : ~At(q, "new") => req[q].kind # "create"
    /\ \E n \in Chunks : Arrive(r, "create", AnyServer, AnyPod, n, "write")
    /\ UNCHANGED <<tableVars, script, mutex, lease, runbook, index, tangled>>

UpdateArrives(r) ==
    /\ runbook.version # 0
    /\ \E n \in Chunks : Arrive(r, "update", AnyServer, AnyPod, n, "write")
    /\ UNCHANGED <<tableVars, script, mutex, lease, runbook, index, tangled>>

Indexing(q) == At(q, "index")

\* One transaction writes the row, deletes the old chunk rows and inserts the new.
WriteRunbook(r) ==
    /\ At(r, "write")
    /\ \/ /\ runbook' = [version |-> runbook.version + 1, chunks |-> req[r].arg]
          /\ req' = [req EXCEPT ![r].pc = "index", ![r].task = runbook.version + 1, ![r].next = 1]
          /\ tangled' = (tangled \/ \E q \in Requests : Indexing(q))
          /\ UNCHANGED lost
       \/ Lose /\ Answer(r, "error") /\ UNCHANGED <<runbook, tangled>>
    /\ UNCHANGED <<now, tasks, run, report, execs, feedback, audit, dead, unsaved, script, mutex, lease, index>>

MoreChunksMutant(r, c) == c + 1 < req[r].arg
MoreChunks(r, c) == c < req[r].arg

\* indexRunbook upserts chunk after chunk under the id runbook-<id>-<number>.  It
\* deletes nothing, and its error is ignored.
IndexChunk(r) ==
    LET c == req[r].next IN
    /\ Indexing(r)
    /\ \/ /\ index' = [index EXCEPT ![c] = req[r].task]
          /\ req' = [req EXCEPT ![r].next = c + 1,
                                ![r].pc = IF MoreChunks(r, c) THEN "index" ELSE "audit"]
          /\ UNCHANGED <<lost, tangled>>
       \/ Lose /\ tangled' = TRUE /\ Step(r, "audit") /\ UNCHANGED index
    /\ UNCHANGED <<now, tasks, run, report, execs, feedback, audit, dead, unsaved, script, mutex, lease, runbook>>

-----------------------------------------------------------------------------
Handle(r) ==
    \/ LockDedup(r) \/ QueryRecent(r) \/ AcquirePod(r) \/ CreateTask(r)
    \/ Decide(r) \/ InsertFeedback(r) \/ RecordAudit(r)
    \/ ReadTask(r) \/ LoadReport(r)
    \/ WriteRunbook(r) \/ IndexChunk(r)

RequestArrives(r) ==
    \/ AlertArrives(r) \/ DiagnoseArrives(r) \/ RetryArrives(r)
    \/ DecideArrives(r, "approve") \/ DecideArrives(r, "reject")
    \/ FeedbackArrives(r) \/ StreamArrives(r) \/ CreateArrives(r) \/ UpdateArrives(r)

\* The retention loop of a server; a deletion that fails is tried at the next tick.
RetentionLoop == Cleanup /\ UNCHANGED controlVars

TimePasses == Tick /\ UNCHANGED controlVars

Next ==
    \/ \E r \in Requests : RequestArrives(r) \/ Handle(r)
    \/ \E i \in Tasks : Diagnose(i)
    \/ RetentionLoop \/ TimePasses

Spec == Init /\ [][Next]_vars

\* A request, a diagnosis and the retention loop go on; time passes.
FairSpec ==
    /\ Spec
    /\ \A r \in Requests : WF_vars(Handle(r))
    /\ \A i \in Tasks : WF_vars(Diagnose(i))
    /\ WF_vars(RetentionLoop) /\ WF_vars(TimePasses)

-----------------------------------------------------------------------------
\* One server starts one diagnosis per alert and window, however its requests
\* interleave and whatever has become of the first: the query and the insert of
\* an alert are one critical section of the process.  Two servers may start two,
\* and a request over HTTP or a dead letter that names the alert is not held back.
DedupPerServer ==
    \A i, j \in Rows :
        i < j /\ tasks[i].alert /\ tasks[j].alert /\ tasks[i].pod = tasks[j].pod
              /\ tasks[i].by = tasks[j].by /\ tasks[i].by # NoServer
            => tasks[j].created > tasks[i].created + Window

\* Of several operators who decide about one remediation, one decides: what the
\* row says never changes again, and neither does who said it.
DecidedOnce ==
    [][\A e \in DOMAIN execs :
        execs[e].status # "pending_approval"
            => execs'[e].status = execs[e].status /\ execs'[e].by = execs[e].by]_vars

\* Once the requests are answered and no storage call failed, the verdict in the
\* row is in the audit log, by the operator the row names.  (The converse fails:
\* the log also has verdicts that came too late and changed nothing.)
VerdictIsAudited ==
    \A e \in DOMAIN execs :
        execs[e].status # "pending_approval" =>
            LET r == execs[e].by IN
            /\ execs[e].status = Verdict(req[r].kind)
            /\ At(r, "done") /\ lost = 0
                => \E a \in audit : a.actor = r /\ a.on = e /\ Verdict(a.action) = execs[e].status

\* A report or a remediation without its task row is of a diagnosis that goes on,
\* or of one whose final save failed: retention deletes the children it finds,
\* and the save of a run it has cut off brings the row back.
OrphansExplained ==
    \A i \in Rows :
        (i \in report \/ \E e \in DOMAIN execs : execs[e].stored /\ execs[e].task = i)
            => InTable(i) \/ Active(i) \/ i \in unsaved

\* The last chunks an undisturbed series of updates wrote are the ones the vector
\* index holds; an index entry of an older version is beyond the runbook's chunks.
IndexFollowsRunbook ==
    ~tangled /\ (\A r \in Requests : ~Indexing(r))
        => \A c \in Chunks : c <= runbook.chunks => index[c] = runbook.version

\* A stream that closes with success has shown the report, unless retention has
\* deleted the task before the report was read.
StreamShowsReport ==
    [][\A r \in Requests :
        req'[r].pc = "done" /\ ~At(r, "done") /\ req'[r].kind = "stream" /\ req'[r].out = "closed"
            => (req'[r].seen = "success" =>
                    req'[r].shown = "full" \/ tasks[req[r].arg].created < now - Retention)]_vars

\* Every expired row is gone for good in the end, the ones that runs and their
\* saves bring back included.
ExpiredIsForgotten ==
    \A i \in Tasks : <>[](InTable(i) => tasks[i].created >= now - Retention)

\* Every request is answered: no handler keeps alertDedupMu.
RequestsAnswered ==
    \A r \in Requests : ~At(r, "new") /\ req[r].kind # "stream" ~> At(r, "done")
=============================================================================
