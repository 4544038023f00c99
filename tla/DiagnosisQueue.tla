--------------------------- MODULE DiagnosisQueue ---------------------------
(***************************************************************************)
(* Diagnoses through the Redis stream (queue.type = "redis_stream"):       *)
(* StartPodDiagnosis, the worker loop of redisDiagnosisQueue with its      *)
(* retries and dead letters, CancelTask, and server processes that crash,  *)
(* drain and restart.  The run of a task is DiagnosisRun's.                *)
(*                                                                         *)
(* Redis (the consumer group, its pending list, the lock keys) and MySQL   *)
(* survive a crash; timers, handlers in flight and runs do not.            *)
(***************************************************************************)
EXTENDS DiagnosisRun

CONSTANTS
    MaxRetry,     \* queue.max_retry
    MessageIds    \* bound: ids of the queue entries that may exist at once

ASSUME MaxRetryType  == MaxRetry \in Nat \ {0}
ASSUME MessageIdType == MessageIds \subseteq Nat \ {0}

Procs == Executors   \* a server process runs one queue worker

VARIABLES
    stream,       \* entries XREADGROUP has not delivered yet, oldest first
    pending,      \* entries delivered to the group and not acknowledged
    timers,       \* scheduleRetry goroutines: entries to enqueue after a delay
    msg,          \* [Procs -> the entry its worker handles]
    start,        \* [Tasks -> progress of StartPodDiagnosis]
    deadLetters,  \* tasks with a diagnosis_queue_dead_letters row
    proc          \* [Procs -> "up", "draining" or "down"]

queueVars == <<stream, pending, timers, msg, start, deadLetters, proc>>
vars == <<runVars, queueVars>>

\* queuedDiagnosis, with the id of its stream entry.
Message == [id: MessageIds, task: Tasks, attempts: 0..MaxRetry, token: Nat]
NoMsg   == [id |-> 0, task |-> NoTask, attempts |-> 0, token |-> NoToken]
Timer   == [at: Procs, entry: Message]

\* A handler that is not running: not called yet, or returned.
Over(pc) == [pc |-> pc, at |-> NoTask, token |-> NoToken]

Elems(s) == {s[i] : i \in DOMAIN s}

\* Every copy of a queue entry that exists somewhere.
Entries == Elems(stream) \cup pending \cup {m.entry : m \in timers}
               \cup ({msg[x] : x \in Procs} \ {NoMsg})

FreeIds == MessageIds \ {m.id : m \in Entries}
NewId   == CHOOSE i \in FreeIds : TRUE

RunType == [pc: {"idle", "acquire", "check", "requeue", "retry", "ack"} \cup Executing,
            task: Tasks \cup {NoTask}, token: Nat, ctx: {"live", "dead"}, out: Cause]

StartType == [pc: {"no", "locked", "created", "accepted", "refused"},
              at: Procs \cup {NoTask}, token: Nat]

\* An executor knows its task exactly while it handles an entry of it.
Matches(r, m) == (r.pc = "idle" <=> m = NoMsg) /\ r.task = m.task

QueueTypeOK ==
    /\ RunTypeOK
    /\ run \in [Procs -> RunType]
    /\ stream \in Seq(Message)
    /\ pending \subseteq Message
    /\ timers \subseteq Timer
    /\ msg \in [Procs -> Message \cup {NoMsg}]
    /\ start \in [Tasks -> StartType]
    /\ deadLetters \subseteq Tasks
    /\ proc \in [Procs -> {"up", "draining", "down"}]
    /\ \A x \in Procs : Matches(run[x], msg[x])

Init ==
    /\ RunInit
    /\ stream = <<>>
    /\ pending = {}
    /\ timers = {}
    /\ msg = [x \in Procs |-> NoMsg]
    /\ start = [t \in Tasks |-> Over("no")]
    /\ deadLetters = {}
    /\ proc = [x \in Procs |-> "up"]

-----------------------------------------------------------------------------
(* StartPodDiagnosis: lock, create the row, enqueue.                       *)

StartLock(t, x) ==
    /\ proc[x] = "up"
    /\ start[t].pc = "no"
    /\ Acquire(PodOf[t])
    /\ start' = [start EXCEPT ![t] = [pc |-> "locked", at |-> x, token |-> nextToken]]
    /\ UNCHANGED <<row, report, freed, run, cancelling, cancelled, faults>>
    /\ UNCHANGED <<stream, pending, timers, msg, deadLetters, proc>>

\* The lock is held (the caller gets ErrDiagnosisAlreadyRunning), or Redis fails.
StartRefused(t) ==
    /\ start[t].pc = "no"
    /\ \/ ~LockFree(PodOf[t]) /\ UNCHANGED faults
       \/ Disturb("redis")
    /\ start' = [start EXCEPT ![t] = Over("refused")]
    /\ UNCHANGED <<row, report, lock, nextToken, freed, run, cancelling, cancelled>>
    /\ UNCHANGED <<stream, pending, timers, msg, deadLetters, proc>>

StartCreate(t) ==
    /\ start[t].pc = "locked"
    /\ \/ /\ Save(t, "running", "none")
          /\ start' = [start EXCEPT ![t].pc = "created"]
          /\ UNCHANGED <<lock, freed, faults>>
       \/ /\ Disturb("db")
          /\ Unlock(PodOf[t], start[t].token)
          /\ start' = [start EXCEPT ![t] = Over("refused")]
          /\ UNCHANGED row
    /\ UNCHANGED <<report, nextToken, run, cancelling, cancelled>>
    /\ UNCHANGED <<stream, pending, timers, msg, deadLetters, proc>>

Enqueue(entry) == stream' = Append(stream, entry)

StartEnqueue(t) ==
    /\ start[t].pc = "created"
    /\ \/ /\ FreeIds # {}
          /\ Enqueue([id |-> NewId, task |-> t, attempts |-> 0, token |-> start[t].token])
          /\ start' = [start EXCEPT ![t] = Over("accepted")]
          /\ UNCHANGED <<row, lock, freed, faults>>
       \/ /\ Disturb("redis")
          /\ Unlock(PodOf[t], start[t].token) \/ UNCHANGED <<lock, freed>>
          /\ Save(t, "failed", "error")
          /\ start' = [start EXCEPT ![t] = Over("refused")]
          /\ UNCHANGED stream
    /\ UNCHANGED <<report, nextToken, run, cancelling, cancelled>>
    /\ UNCHANGED <<pending, timers, msg, deadLetters, proc>>

-----------------------------------------------------------------------------
(* The worker loop: read or claim an entry, then handleMessage.            *)

WorkerIdle(x) == proc[x] = "up" /\ run[x].pc = "idle"

Handle(x, m) ==
    /\ msg' = [msg EXCEPT ![x] = m]
    /\ run' = [run EXCEPT ![x] = [Idle EXCEPT !.pc = "acquire", !.task = m.task]]

\* XREADGROUP ">" with COUNT 1.
Read(x) ==
    /\ WorkerIdle(x)
    /\ stream # <<>>
    /\ Handle(x, Head(stream))
    /\ stream' = Tail(stream)
    /\ pending' = pending \cup {Head(stream)}
    /\ UNCHANGED <<row, report, lock, nextToken, freed, cancelling, cancelled, faults>>
    /\ UNCHANGED <<timers, start, deadLetters, proc>>

\* XREADGROUP times out with redis.Nil and the loop goes round.
Poll(x) ==
    /\ WorkerIdle(x)
    /\ stream = <<>>
    /\ UNCHANGED vars

HandledMutant(m) == FALSE    \* MinIdle dropped

Handled(m) == \E x \in Procs : msg[x].id = m.id

\* XAUTOCLAIM: an entry idle for two minutes.  Its consumer is gone, or (fault
\* "slow") still at work on it.
Claim(x, m) ==
    /\ WorkerIdle(x)
    /\ \/ ~Handled(m) /\ UNCHANGED faults
       \/ Handled(m) /\ Disturb("slow")
    /\ Handle(x, m)
    /\ UNCHANGED <<row, report, lock, nextToken, freed, cancelling, cancelled>>
    /\ UNCHANGED <<stream, pending, timers, start, deadLetters, proc>>

\* A first attempt runs under the lock StartPodDiagnosis took.
NeedsLockMutant(m) == FALSE    \* a retry runs without locking again

NeedsLock(m) == m.attempts > 0

ScheduleRetryMutant(x, m, attempts, token) == UNCHANGED timers

\* payload, to be enqueued again after the retry delay by a goroutine of x.
ScheduleRetry(x, m, attempts, token) ==
    /\ FreeIds # {}
    /\ timers' = timers \cup {[at |-> x, entry |-> [id |-> NewId, task |-> m.task,
                                  attempts |-> attempts, token |-> token]]}

\* acquireExecutionLock.  Not acquired (held, the worker context is cancelled, or
\* Redis fails): the payload is scheduled again as it came.
AcquireExecutionLock(x) ==
    /\ run[x].pc = "acquire"
    /\ \/ /\ ~NeedsLock(msg[x])
          /\ run' = [run EXCEPT ![x].pc = "load", ![x].token = msg[x].token]
          /\ UNCHANGED <<lock, nextToken, timers, faults>>
       \/ /\ NeedsLock(msg[x])
          /\ proc[x] = "up"
          /\ Acquire(PodOf[msg[x].task])
          /\ run' = [run EXCEPT ![x].pc = "load", ![x].token = nextToken]
          /\ UNCHANGED <<timers, faults>>
       \/ /\ NeedsLock(msg[x])
          /\ \/ (proc[x] = "draining" \/ ~LockFree(PodOf[msg[x].task])) /\ UNCHANGED faults
             \/ Disturb("redis")
          /\ ScheduleRetry(x, msg[x], msg[x].attempts, msg[x].token)
          /\ Goto(x, "ack")
          /\ UNCHANGED <<lock, nextToken>>
    /\ UNCHANGED <<row, report, freed, cancelling, cancelled>>
    /\ UNCHANGED <<stream, pending, msg, start, deadLetters, proc>>

RunStep(x) ==
    /\ Load(x) \/ Work(x) \/ Persist(x) \/ Finish(x) \/ Release(x, "check")
    /\ UNCHANGED queueVars

TaskFailedMutant(t) == row[t].status # "absent"

TaskFailed(t) == row[t].status = "failed"

\* A call under the worker context goes through, or it fails: always while the
\* process drains, otherwise as a fault.
Reached(x) == proc[x] = "up" /\ UNCHANGED faults

Unreached(x, kind) == IF proc[x] = "draining" THEN UNCHANGED faults ELSE Disturb(kind)

\* taskFailed, first half: GetByID.  A read that fails counts as a failed task,
\* whatever the row says.
TaskFailedRead(x) ==
    /\ run[x].pc = "check"
    /\ \/ /\ Reached(x)
          /\ IF TaskFailed(run[x].task)
             THEN Conclude(x, "requeue", row[run[x].task].cause)
             ELSE Goto(x, "ack")
       \/ Unreached(x, "unread") /\ Goto(x, "retry")
    /\ UNCHANGED <<row, report, lock, nextToken, freed, cancelling, cancelled>>
    /\ UNCHANGED queueVars

\* taskFailed, second half: the row that was read is saved as running again; a
\* failing Save is only logged.
TaskFailedWrite(x) ==
    /\ run[x].pc = "requeue"
    /\ \/ Reached(x) /\ Save(run[x].task, "running", run[x].out)
       \/ Unreached(x, "db") /\ UNCHANGED row
    /\ Goto(x, "retry")
    /\ UNCHANGED <<report, lock, nextToken, freed, cancelling, cancelled>>
    /\ UNCHANGED queueVars

RetryableMutant(m) == m.attempts <= MaxRetry

Retryable(m) == m.attempts < MaxRetry

NextAttemptMutant(m) == m.attempts

NextAttempt(m) == m.attempts + 1

BuryMutant(t) == deadLetters' = IF TaskFailed(t) THEN deadLetters \cup {t} ELSE deadLetters

Bury(t) == deadLetters' = deadLetters \cup {t}

\* handleMessage after a failed task: another attempt, or the dead letter table
\* (whose error is ignored).
RetryOrBury(x) ==
    /\ run[x].pc = "retry"
    /\ \/ /\ Retryable(msg[x])
          /\ ScheduleRetry(x, msg[x], NextAttempt(msg[x]), run[x].token)
          /\ UNCHANGED <<deadLetters, faults>>
       \/ /\ ~Retryable(msg[x])
          /\ \/ Reached(x) /\ Bury(msg[x].task)
             \/ Unreached(x, "db") /\ UNCHANGED deadLetters
          /\ UNCHANGED timers
    /\ Goto(x, "ack")
    /\ UNCHANGED <<row, report, lock, nextToken, freed, cancelling, cancelled>>
    /\ UNCHANGED <<stream, pending, msg, start, proc>>

\* XACK, whose error is ignored; the worker is done with the entry either way.
Ack(x) ==
    /\ run[x].pc = "ack"
    /\ \/ Reached(x) /\ pending' = {m \in pending : m.id # msg[x].id}
       \/ Unreached(x, "unacked") /\ UNCHANGED pending
    /\ msg' = [msg EXCEPT ![x] = NoMsg]
    /\ run' = [run EXCEPT ![x] = Idle]
    /\ UNCHANGED <<row, report, lock, nextToken, freed, cancelling, cancelled>>
    /\ UNCHANGED <<stream, timers, start, deadLetters, proc>>

\* The goroutine of scheduleRetry wakes up: XADD, whose error is only logged.
FireTimer(tm) ==
    /\ timers' = timers \ {tm}
    /\ \/ Enqueue(tm.entry) /\ UNCHANGED faults
       \/ Disturb("redis") /\ UNCHANGED stream
    /\ UNCHANGED <<row, report, lock, nextToken, freed, run, cancelling, cancelled>>
    /\ UNCHANGED <<pending, msg, start, deadLetters, proc>>

-----------------------------------------------------------------------------
(* CancelTask requests, served by a process that is up.                    *)

Cancel(t) ==
    /\ \/ CancelRead(t)
       \/ \E x \in Procs : proc[x] = "up" /\ CancelSignal(t, {x})
       \/ CancelWrite(t)
    /\ UNCHANGED queueVars

-----------------------------------------------------------------------------
(* Processes and clocks.                                                   *)

\* Shutdown: the worker context is cancelled, runs in progress continue.
Drain(x) ==
    /\ Disturb("drain")
    /\ proc[x] = "up"
    /\ proc' = [proc EXCEPT ![x] = "draining"]
    /\ UNCHANGED <<row, report, lock, nextToken, freed, run, cancelling, cancelled>>
    /\ UNCHANGED <<stream, pending, timers, msg, start, deadLetters>>

\* The process ends, with everything it kept in memory.
Stop(x) ==
    /\ proc' = [proc EXCEPT ![x] = "down"]
    /\ timers' = {tm \in timers : tm.at # x}
    /\ msg' = [msg EXCEPT ![x] = NoMsg]
    /\ run' = [run EXCEPT ![x] = Idle]
    /\ start' = [t \in Tasks |-> IF start[t].at = x THEN Over("refused") ELSE start[t]]
    /\ UNCHANGED <<row, report, lock, nextToken, freed, cancelling, cancelled>>
    /\ UNCHANGED <<stream, pending, deadLetters>>

Crash(x) == proc[x] = "up" /\ Disturb("crash") /\ Stop(x)

\* Drained, or the drain timeout is over: main returns.
Exit(x) == proc[x] = "draining" /\ Stop(x) /\ UNCHANGED faults

Restart(x) ==
    /\ proc[x] = "down"
    /\ proc' = [proc EXCEPT ![x] = "up"]
    /\ UNCHANGED runVars
    /\ UNCHANGED <<stream, pending, timers, msg, start, deadLetters>>

\* Who relies on which lease: a start handler, an entry of a first attempt (it
\* runs under the lease its handler took), a run.
StartLeases == {<<t, start[t].token>> : t \in {u \in Tasks : start[u].pc \in {"locked", "created"}}}
EntryLeases == {<<m.task, m.token>> : m \in {n \in Entries : ~NeedsLock(n)}}
RunLeases   == {<<run[x].task, run[x].token>> : x \in {y \in Procs : run[y].pc \in Executing}}
Leases == StartLeases \cup EntryLeases \cup RunLeases

Relied(k) == \E l \in Leases : l[2] = k

\* A lease nobody relies on runs out in time; one in use only as a fault,
\* when queueing and running took longer than its TTL.
ExpireLease(p) ==
    /\ Expire(p)
    /\ IF Relied(lock[p]) THEN Disturb("expire") ELSE UNCHANGED faults
    /\ UNCHANGED queueVars

-----------------------------------------------------------------------------
WorkerStep(x) ==
    \/ Read(x) \/ AcquireExecutionLock(x) \/ RunStep(x)
    \/ TaskFailedRead(x) \/ TaskFailedWrite(x) \/ RetryOrBury(x) \/ Ack(x)

ClaimAny(x) == \E m \in pending : Claim(x, m)

StartStep(t) == StartCreate(t) \/ StartEnqueue(t)

Next ==
    \/ \E t \in Tasks, x \in Procs : StartLock(t, x)
    \/ \E t \in Tasks : StartRefused(t) \/ StartStep(t) \/ Cancel(t)
    \/ \E x \in Procs : WorkerStep(x) \/ ClaimAny(x) \/ Poll(x)
    \/ \E tm \in timers : FireTimer(tm)
    \/ \E x \in Procs : Timeout(x) /\ UNCHANGED queueVars
    \/ \E x \in Procs : Drain(x) \/ Crash(x) \/ Exit(x) \/ Restart(x)
    \/ \E p \in Pods : ExpireLease(p)

Spec == Init /\ [][Next]_vars

\* What the code's own scheduling promises: handlers and worker steps go on,
\* timers fire, a killed process is restarted, an abandoned lease expires, and
\* every thirtieth turn of the loop claims stale entries.
Fairness ==
    /\ \A t \in Tasks : WF_vars(StartStep(t))
    /\ \A x \in Procs : /\ WF_vars(WorkerStep(x))
                        /\ SF_vars(ClaimAny(x))
                        /\ WF_vars(Exit(x))
                        /\ WF_vars(Restart(x))
    /\ WF_vars(\E tm \in timers : FireTimer(tm))
    /\ \A p \in Pods : WF_vars(~Relied(lock[p]) /\ ExpireLease(p))

FairSpec == Spec /\ Fairness

-----------------------------------------------------------------------------
(* What the queue promises about a task, as TaskLifecycle states it.       *)

\* A retry is scheduled only as its predecessor is about to be acknowledged.
Superseded(m) == \E x \in Procs : msg[x] = m /\ run[x].pc = "ack"

Live(t) == {m \in Entries : m.task = t /\ ~Superseded(m)}

Phase(t) ==
    IF row[t].status = "success" THEN "success"
    ELSE IF t \in deadLetters THEN "buried"
    ELSE IF start[t].pc = "accepted" THEN "open" ELSE "absent"

Attempt(t) ==
    IF Phase(t) = "open" /\ Live(t) # {} THEN (CHOOSE m \in Live(t) : TRUE).attempts ELSE 0

Lifecycle == INSTANCE TaskLifecycle WITH
    phase <- [t \in Tasks |-> Phase(t)], attempt <- [t \in Tasks |-> Attempt(t)]

\* While nothing disturbs the system, every step of the queue is a step of the
\* lifecycle or changes nothing in it, and every accepted task ends.
ImplementsLifecycle == Lifecycle!LiveSpec

-----------------------------------------------------------------------------
(* Safety.                                                                 *)

\* Two runs about one pod at the same time: then one of them has outlived its
\* lease, or they are deliveries of one first attempt under one lease.  Whatever
\* crashes, drains, expires, fails or is cancelled.
OneLease ==
    \A x, y \in Procs :
        /\ run[x].pc \in Executing /\ run[y].pc \in Executing
        /\ PodOf[run[x].task] = PodOf[run[y].task]
        => \/ run[x].task = run[y].task /\ run[x].token = run[y].token
           \/ run[x].token \in freed
           \/ run[y].token \in freed

\* Why: the lock entry of a pod is the lease of whoever relies on one that is
\* neither released nor expired, and no two tasks share a lease.
LeaseInv ==
    /\ \A l \in Leases : l[2] \in 1..(nextToken - 1)
    /\ \A l \in Leases : l[2] \notin freed => lock[PodOf[l[1]]] = l[2]
    /\ \A k, l \in Leases : k[2] = l[2] => k[1] = l[1]

\* An entry is delivered again when its consumer died, was slow, or failed to
\* acknowledge it.
Redelivery == {"slow", "crash", "drain", "unacked"}

\* A pod is never diagnosed twice at once (README "How It Works" 1), whatever is
\* cancelled, times out or fails to be stored: only a lease that runs out in use,
\* or the redelivery of a first attempt, which takes no lock, can break it.
ExclusiveExecution ==
    Spared(Redelivery \cup {"expire"}) =>
        \A x, y \in Procs :
            (x # y /\ run[x].pc \in Executing /\ run[y].pc \in Executing)
                => PodOf[run[x].task] # PodOf[run[y].task]

\* A task has one queue entry at a time, unless entries are delivered twice.
OneEntryPerTask ==
    Spared(Redelivery) =>
        \A t \in Tasks : \A m, n \in Live(t) : m.id = n.id

\* A running row is somebody's business: of the handler that created it, of a
\* CancelTask call about to end it, of a queue entry, or of the operator who
\* reads the dead letters.  No acknowledgement comes too early.  The exceptions
\* leave a running row to nobody: a dead process or context, or a call that fails
\* where the run, the retry or the dead letter needed it.
RunningHasOwner ==
    Spared({"crash", "drain", "timeout", "db", "unread", "redis"}) =>
        \A t \in Tasks : row[t].status = "running" =>
            \/ start[t].pc = "created"
            \/ cancelling[t] # "no"
            \/ \E m \in Entries : m.task = t
            \/ t \in deadLetters

\* A diagnosis that succeeded stays a success, unless somebody cancels it, its
\* entry is delivered again, or the row cannot be read once the run is over:
\* taskFailed takes that for a failure (diagnosis_queue.go:216), and the retry ends
\* at the report's unique index.  No failing write undoes a success.
SuccessIsFinal ==
    [][Spared(Redelivery \cup {"cancel", "unread"})' =>
          \A t \in Tasks : row[t].status = "success" => row'[t].status = "success"]_vars

\* The queue does not take a cancelled task for one to try again.
CancelledIsNotRetried ==
    [][\A t \in cancelled : row[t].cause = "cancelled" /\ row[t].status = "failed"
                                => row'[t].status # "running"]_vars

\* Exhausted retries are written to the dead letter table, all of them
\* (SLO.md:13): the entry of a last attempt that failed is acknowledged only
\* with its task in the table, or with another entry left to see to it.
ExhaustedIsDeadLettered ==
    [][Spared(FaultKinds \ {"expire", "slow"})' =>
          \A m \in pending \ pending' :
              ~Retryable(m) /\ row'[m.task].status # "success"
                  => \/ m.task \in deadLetters'
                     \/ \E n \in Entries' : n.task = m.task]_vars

-----------------------------------------------------------------------------
(* Liveness.                                                               *)

\* An accepted task reaches success or a failed state, and stays there
\* (SLO.md:12).
AcceptedReachesFinalState ==
    \A t \in Tasks : start[t].pc = "accepted" ~> [](row[t].status \in Terminal)


\* A pod is never locked for ever: a crashed holder's lease runs out.
LockReleased == \A p \in Pods : ~LockFree(p) ~> LockFree(p)
=============================================================================
