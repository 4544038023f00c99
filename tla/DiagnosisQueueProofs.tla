------------------------ MODULE DiagnosisQueueProofs ------------------------
(***************************************************************************)
(* Type correctness of DiagnosisQueue, and its lease theorem: with the     *)
(* redis lock, whatever crashes, drains, expires, fails or is redelivered, *)
(* two runs about one pod never both hold a lease that is still theirs,    *)
(* unless they are deliveries of the same first attempt.  Then what        *)
(* becomes of the entries of the queue, for any number of tasks, workers,  *)
(* retries and disturbances: who answers for a row that says running, when *)
(* an entry may be acknowledged, and when a task has one entry and a pod   *)
(* one diagnosis; and that the queue implements TaskLifecycle.             *)
(***************************************************************************)
EXTENDS DiagnosisQueue, TLAPS

USE DEF Procs

-----------------------------------------------------------------------------
(* Data.                                                                   *)

\* A fresh id is an id.
LEMMA NewIdType == ASSUME FreeIds # {} PROVE NewId \in MessageIds
  BY DEF NewId, FreeIds

\* Delivering the head of the stream moves an entry, appending adds one.
LEMMA HeadTail ==
    ASSUME NEW S, NEW s \in Seq(S), s # <<>>
    PROVE  /\ Head(s) \in S
           /\ Tail(s) \in Seq(S)
           /\ Head(s) \in Elems(s)
           /\ Elems(Tail(s)) \subseteq Elems(s)
  <1>1. Len(s) \in Nat /\ Len(s) >= 1 /\ DOMAIN s = 1..Len(s)
    OBVIOUS
  <1>2. Head(s) = s[1] /\ 1 \in DOMAIN s
    BY <1>1
  <1>3. Tail(s) \in Seq(S) /\ Len(Tail(s)) = Len(s) - 1
    BY <1>1
  <1>4. \A i \in DOMAIN Tail(s) : Tail(s)[i] = s[i + 1] /\ i + 1 \in DOMAIN s
    BY <1>1, <1>3
  <1> QED
    BY <1>1, <1>2, <1>3, <1>4 DEF Elems

LEMMA AppendElems ==
    ASSUME NEW S, NEW s \in Seq(S), NEW e \in S
    PROVE  /\ Append(s, e) \in Seq(S)
           /\ Elems(Append(s, e)) = Elems(s) \cup {e}
  <1> DEFINE a == Append(s, e)
  <1>1. a \in Seq(S) /\ Len(a) = Len(s) + 1 /\ Len(s) \in Nat
    OBVIOUS
  <1>2. DOMAIN a = 1..(Len(s) + 1) /\ DOMAIN s = 1..Len(s)
    BY <1>1
  <1>3. a[Len(s) + 1] = e /\ \A i \in 1..Len(s) : a[i] = s[i]
    BY <1>1
  <1>4. Elems(a) \subseteq Elems(s) \cup {e}
    BY <1>2, <1>3 DEF Elems
  <1>5. Elems(s) \cup {e} \subseteq Elems(a)
    BY <1>1, <1>2, <1>3 DEF Elems
  <1> QED
    BY <1>1, <1>4, <1>5

-----------------------------------------------------------------------------
(* Type correctness.                                                       *)

LEMMA TypeInit == Init => QueueTypeOK
  <1> SUFFICES ASSUME Init PROVE QueueTypeOK
    OBVIOUS
  <1>1. RunTypeOK
    <2>1. <<>> \in FaultLog
      BY FaultType DEF FaultLog
    <2> QED
      BY <2>1 DEF Init, RunInit, RunTypeOK, NoToken, Status, Terminal, Cause
  <1>2. Idle \in RunType /\ Matches(Idle, NoMsg)
    BY DEF Idle, RunType, Matches, NoMsg, NoToken, Cause
  <1>3. Over("no") \in StartType
    BY DEF Over, StartType, NoToken
  <1> QED
    BY <1>1, <1>2, <1>3 DEF Init, RunInit, QueueTypeOK

\* A worker that handles an entry knows a task.
LEMMA BusyHasTask ==
    ASSUME QueueTypeOK, NEW x \in Procs, run[x].pc # "idle"
    PROVE  msg[x] \in Message /\ run[x].task \in Tasks /\ run[x].task = msg[x].task
  BY DEF QueueTypeOK, Message, Matches

LEMMA TypeUnlock ==
    ASSUME RunTypeOK, NEW p \in Pods, NEW k \in Nat, Unlock(p, k)
    PROVE  lock' \in [Pods -> Nat] /\ freed' \subseteq Nat
  <1>1. CASE OwnsEntry(p, k)
    <2>1. lock' = [lock EXCEPT ![p] = 0] /\ freed' = freed \cup {k}
      BY <1>1 DEF Unlock, NoToken
    <2>2. lock \in [Pods -> Nat] /\ freed \subseteq Nat /\ 0 \in Nat
      BY DEF RunTypeOK
    <2> QED
      BY <2>1, <2>2
  <1>2. CASE ~OwnsEntry(p, k)
    BY <1>2 DEF Unlock, RunTypeOK
  <1> QED
    BY <1>1, <1>2

LEMMA TypeDisturb ==
    ASSUME RunTypeOK, NEW kind, Disturb(kind)
    PROVE  faults' \in FaultLog
  <1>1. faults \in Seq(FaultKinds) /\ kind \in FaultKinds /\ Len(faults) + 1 <= MaxFaults
    BY FaultType DEF Disturb, RunTypeOK, FaultLog
  <1>2. faults' \in Seq(FaultKinds) /\ Len(faults') = Len(faults) + 1
    BY <1>1 DEF Disturb
  <1> QED
    BY <1>1, <1>2 DEF FaultLog

LEMMA TypeSave ==
    ASSUME RunTypeOK, NEW t \in Tasks, NEW s \in Status, NEW c \in Cause, Save(t, s, c)
    PROVE  row' \in [Tasks -> [status: Status, cause: Cause]]
  BY DEF Save, RunTypeOK

\* A handler that moves on, and one that is over.
LEMMA TypeOver ==
    ASSUME NEW pc \in {"no", "accepted", "refused"}
    PROVE  Over(pc) \in StartType
  BY DEF Over, StartType, NoToken

LEMMA TypeStart ==
    ASSUME QueueTypeOK, NEW t \in Tasks,
           (\E x \in Procs : StartLock(t, x)) \/ StartRefused(t) \/ StartStep(t)
    PROVE  QueueTypeOK'
  <1>0. /\ RunTypeOK /\ PodOf[t] \in Pods /\ start[t] \in StartType
        /\ start[t].token \in Nat
    BY PodOfType DEF QueueTypeOK, StartType
  <1>1. ASSUME NEW x \in Procs, StartLock(t, x) PROVE QueueTypeOK'
    <2>1. lock' \in [Pods -> Nat] /\ nextToken' \in Nat \ {0}
      BY <1>0, <1>1 DEF StartLock, Acquire, RunTypeOK
    <2>2. [pc |-> "locked", at |-> x, token |-> nextToken] \in StartType
      BY <1>0 DEF StartType, RunTypeOK
    <2>3. start' \in [Tasks -> StartType]
      BY <1>1, <2>2 DEF StartLock, QueueTypeOK
    <2> QED
      BY <1>0, <1>1, <2>1, <2>3 DEF StartLock, QueueTypeOK, RunTypeOK
  <1>2. CASE StartRefused(t)
    <2>1. start' \in [Tasks -> StartType]
      BY <1>2, TypeOver DEF StartRefused, QueueTypeOK
    <2>2. faults' \in FaultLog
      BY <1>0, <1>2, TypeDisturb DEF StartRefused, RunTypeOK
    <2> QED
      BY <1>2, <2>1, <2>2 DEF StartRefused, QueueTypeOK, RunTypeOK
  <1>3. CASE StartCreate(t)
    <2>1. CASE Save(t, "running", "none") /\ start' = [start EXCEPT ![t].pc = "created"]
               /\ UNCHANGED <<lock, freed, faults>>
      <3>1. row' \in [Tasks -> [status: Status, cause: Cause]]
        BY <1>0, <2>1, TypeSave DEF Status, Cause
      <3>2. start' \in [Tasks -> StartType]
        BY <2>1 DEF QueueTypeOK, StartType
      <3> QED
        BY <1>3, <2>1, <3>1, <3>2 DEF StartCreate, QueueTypeOK, RunTypeOK
    <2>2. CASE /\ Disturb("db") /\ Unlock(PodOf[t], start[t].token)
               /\ start' = [start EXCEPT ![t] = Over("refused")] /\ UNCHANGED row
      <3>1. lock' \in [Pods -> Nat] /\ freed' \subseteq Nat /\ faults' \in FaultLog
        BY <1>0, <2>2, TypeUnlock, TypeDisturb
      <3>2. start' \in [Tasks -> StartType]
        BY <2>2, TypeOver DEF QueueTypeOK
      <3> QED
        BY <1>3, <2>2, <3>1, <3>2 DEF StartCreate, QueueTypeOK, RunTypeOK
    <2> QED
      BY <1>3, <2>1, <2>2 DEF StartCreate
  <1>4. CASE StartEnqueue(t)
    <2> DEFINE m == [id |-> NewId, task |-> t, attempts |-> 0, token |-> start[t].token]
    <2>1. CASE /\ Disturb("redis") /\ (Unlock(PodOf[t], start[t].token) \/ UNCHANGED <<lock, freed>>)
               /\ Save(t, "failed", "error")
               /\ start' = [start EXCEPT ![t] = Over("refused")] /\ UNCHANGED stream
      <3>1. lock' \in [Pods -> Nat] /\ freed' \subseteq Nat /\ faults' \in FaultLog
        BY <1>0, <2>1, TypeUnlock, TypeDisturb DEF RunTypeOK
      <3>2. row' \in [Tasks -> [status: Status, cause: Cause]]
        BY <1>0, <2>1, TypeSave DEF Status, Terminal, Cause
      <3>3. start' \in [Tasks -> StartType]
        BY <2>1, TypeOver DEF QueueTypeOK
      <3> QED
        BY <1>4, <2>1, <3>1, <3>2, <3>3 DEF StartEnqueue, QueueTypeOK, RunTypeOK
    <2>2. CASE /\ FreeIds # {} /\ Enqueue(m)
               /\ start' = [start EXCEPT ![t] = Over("accepted")]
               /\ UNCHANGED <<row, lock, freed, faults>>
      <3>1. m \in Message
        BY <1>0, <2>2, NewIdType, MaxRetryType DEF Message
      <3>2. stream' \in Seq(Message)
        BY <2>2, <3>1, AppendElems DEF Enqueue, QueueTypeOK
      <3>3. start' \in [Tasks -> StartType]
        BY <2>2, TypeOver DEF QueueTypeOK
      <3> QED
        BY <1>4, <2>2, <3>2, <3>3 DEF StartEnqueue, QueueTypeOK, RunTypeOK
    <2> QED
      BY <1>4, <2>1, <2>2 DEF StartEnqueue
  <1> QED
    BY <1>1, <1>2, <1>3, <1>4 DEF StartStep

\* What taking an entry does to the worker that takes it.
LEMMA TypeHandle ==
    ASSUME QueueTypeOK, NEW x \in Procs, NEW m \in Message, Handle(x, m)
    PROVE  /\ run' \in [Procs -> RunType]
           /\ msg' \in [Procs -> Message \cup {NoMsg}]
           /\ \A y \in Procs : Matches(run'[y], msg'[y])
  <1> DEFINE r == [Idle EXCEPT !.pc = "acquire", !.task = m.task]
  <1>1. m # NoMsg /\ m.task \in Tasks
    BY NoTaskType DEF Message, NoMsg
  <1>2. r \in RunType /\ Matches(r, m)
    BY <1>1 DEF Idle, NoToken, Cause, RunType, Matches
  <1>3. run' = [run EXCEPT ![x] = r] /\ msg' = [msg EXCEPT ![x] = m]
    BY DEF Handle
  <1> QED
    BY <1>2, <1>3 DEF QueueTypeOK

LEMMA TypeTake ==
    ASSUME QueueTypeOK, NEW x \in Procs, Read(x) \/ ClaimAny(x)
    PROVE  QueueTypeOK'
  <1>1. CASE Read(x)
    <2>1. Head(stream) \in Message /\ Tail(stream) \in Seq(Message)
      BY <1>1, HeadTail DEF Read, QueueTypeOK
    <2>2. /\ run' \in [Procs -> RunType]
          /\ msg' \in [Procs -> Message \cup {NoMsg}]
          /\ \A y \in Procs : Matches(run'[y], msg'[y])
      BY <1>1, <2>1, TypeHandle DEF Read
    <2>3. stream' \in Seq(Message) /\ pending' \subseteq Message
      BY <1>1, <2>1 DEF Read, QueueTypeOK
    <2> QED
      BY <1>1, <2>2, <2>3 DEF Read, QueueTypeOK, RunTypeOK
  <1>2. ASSUME NEW m \in pending, Claim(x, m) PROVE QueueTypeOK'
    <2>1. m \in Message
      BY DEF QueueTypeOK
    <2>2. faults' \in FaultLog
      BY <1>2, TypeDisturb DEF Claim, QueueTypeOK, RunTypeOK
    <2>3. /\ run' \in [Procs -> RunType]
          /\ msg' \in [Procs -> Message \cup {NoMsg}]
          /\ \A y \in Procs : Matches(run'[y], msg'[y])
      BY <1>2, <2>1, TypeHandle DEF Claim
    <2> QED
      BY <1>2, <2>2, <2>3 DEF Claim, QueueTypeOK, RunTypeOK
  <1> QED
    BY <1>1, <1>2 DEF ClaimAny

\* A busy worker that moves on keeps its task and its entry.
BusyPc == {"acquire", "check", "requeue", "retry", "ack"} \cup Executing

LEMMA TypeMove ==
    ASSUME QueueTypeOK, NEW x \in Procs, run[x].pc # "idle",
           NEW r \in RunType, r.pc # "idle", r.task = run[x].task,
           run' = [run EXCEPT ![x] = r], UNCHANGED msg
    PROVE  /\ run' \in [Procs -> RunType]
           /\ \A y \in Procs : Matches(run'[y], msg'[y])
  <1>1. Matches(r, msg[x])
    BY DEF QueueTypeOK, Matches
  <1> QED
    BY <1>1 DEF QueueTypeOK

LEMMA TypeConclude ==
    ASSUME QueueTypeOK, NEW x \in Procs, run[x].pc # "idle", NEW pc \in BusyPc,
           NEW out \in Cause, Goto(x, pc) \/ Conclude(x, pc, out), UNCHANGED msg
    PROVE  /\ run' \in [Procs -> RunType]
           /\ \A y \in Procs : Matches(run'[y], msg'[y])
  <1> DEFINE g == [run[x] EXCEPT !.pc = pc]
             c == [run[x] EXCEPT !.pc = pc, !.out = out]
  <1>1. run[x] \in RunType /\ run \in [Procs -> RunType]
    BY DEF QueueTypeOK
  <1>2. /\ g \in RunType /\ g.pc # "idle" /\ g.task = run[x].task
        /\ c \in RunType /\ c.pc # "idle" /\ c.task = run[x].task
    BY <1>1 DEF RunType, BusyPc, Executing
  <1>3. CASE Goto(x, pc)
    <2>1. run' = [run EXCEPT ![x] = g]
      BY <1>1, <1>3 DEF Goto
    <2> QED
      BY <1>2, <2>1, TypeMove
  <1>4. CASE Conclude(x, pc, out)
    <2>1. run' = [run EXCEPT ![x] = c]
      BY <1>1, <1>4 DEF Conclude
    <2> QED
      BY <1>2, <2>1, TypeMove
  <1> QED
    BY <1>3, <1>4

LEMMA TypeRetry ==
    ASSUME QueueTypeOK, NEW x \in Procs, NEW m \in Message, NEW a \in 0..MaxRetry,
           NEW k \in Nat, ScheduleRetry(x, m, a, k)
    PROVE  timers' \subseteq Timer
  <1> DEFINE e == [id |-> NewId, task |-> m.task, attempts |-> a, token |-> k]
  <1>1. e \in Message
    BY NewIdType DEF Message, ScheduleRetry
  <1>2. [at |-> x, entry |-> e] \in Timer
    BY <1>1 DEF Timer
  <1> QED
    BY <1>2 DEF ScheduleRetry, QueueTypeOK

LEMMA TypeRun ==
    ASSUME QueueTypeOK, NEW x \in Procs, RunStep(x)
    PROVE  QueueTypeOK'
  <1> USE DEF RunStep, queueVars
  <1>0. /\ RunTypeOK /\ run[x] \in RunType /\ UNCHANGED msg
        /\ "report" \in Cause /\ "error" \in Cause
        /\ {"work", "release", "persist", "finish", "check"} \subseteq BusyPc
    BY DEF QueueTypeOK, Cause, BusyPc, Executing
  <1>1. run[x].pc # "idle"
    BY DEF Load, Work, Persist, Finish, Release
  <1>2. run[x].task \in Tasks /\ run[x].token \in Nat /\ run[x].out \in Cause
    BY <1>0, <1>1, BusyHasTask DEF RunType
  <1>3. CASE Load(x)
    <2>1. /\ run' \in [Procs -> RunType] /\ \A y \in Procs : Matches(run'[y], msg'[y])
      BY <1>0, <1>1, <1>3, TypeConclude DEF Load
    <2>2. faults' \in FaultLog
      BY <1>0, <1>3, TypeDisturb DEF Load, Served, Fails, RunTypeOK
    <2> QED
      BY <1>3, <2>1, <2>2 DEF Load, QueueTypeOK, RunTypeOK
  <1>4. CASE Work(x)
    <2>1. /\ run' \in [Procs -> RunType] /\ \A y \in Procs : Matches(run'[y], msg'[y])
      BY <1>0, <1>1, <1>4, TypeConclude DEF Work
    <2> QED
      BY <1>4, <2>1 DEF Work, QueueTypeOK, RunTypeOK
  <1>5. CASE Persist(x)
    <2>1. /\ run' \in [Procs -> RunType] /\ \A y \in Procs : Matches(run'[y], msg'[y])
      BY <1>0, <1>1, <1>5, TypeConclude DEF Persist
    <2>2. report' \subseteq Tasks
      BY <1>0, <1>2, <1>5 DEF Persist, RunTypeOK
    <2>3. faults' \in FaultLog
      BY <1>0, <1>5, TypeDisturb DEF Persist, Served, Fails, RunTypeOK
    <2> QED
      BY <1>5, <2>1, <2>2, <2>3 DEF Persist, QueueTypeOK, RunTypeOK
  <1>6. CASE Finish(x)
    <2>1. /\ run' \in [Procs -> RunType] /\ \A y \in Procs : Matches(run'[y], msg'[y])
      BY <1>0, <1>1, <1>6, TypeConclude DEF Finish
    <2>2. FinalStatus(x) \in Status
      BY DEF FinalStatus, Status, Terminal
    <2>3. row' \in [Tasks -> [status: Status, cause: Cause]]
      BY <1>0, <1>2, <1>6, <2>2, TypeSave DEF Finish, RunTypeOK
    <2>4. faults' \in FaultLog
      BY <1>0, <1>6, TypeDisturb DEF Finish, Served, Fails, RunTypeOK
    <2> QED
      BY <1>6, <2>1, <2>3, <2>4 DEF Finish, QueueTypeOK, RunTypeOK
  <1>7. CASE Release(x, "check")
    <2>1. /\ run' \in [Procs -> RunType] /\ \A y \in Procs : Matches(run'[y], msg'[y])
      BY <1>0, <1>1, <1>7, TypeConclude DEF Release
    <2>2. lock' \in [Pods -> Nat] /\ freed' \subseteq Nat
      <3>1. PodOf[run[x].task] \in Pods
        BY <1>2, PodOfType
      <3> QED
        BY <1>0, <1>2, <1>7, <3>1, TypeUnlock DEF Release, RunTypeOK
    <2>3. faults' \in FaultLog
      BY <1>0, <1>7, TypeDisturb DEF Release, RunTypeOK
    <2> QED
      BY <1>7, <2>1, <2>2, <2>3 DEF Release, QueueTypeOK, RunTypeOK
  <1> QED
    BY <1>3, <1>4, <1>5, <1>6, <1>7

LEMMA TypeAcquire ==
    ASSUME QueueTypeOK, NEW x \in Procs, AcquireExecutionLock(x)
    PROVE  QueueTypeOK'
  <1>0. /\ RunTypeOK /\ run[x] \in RunType /\ run[x].pc # "idle" /\ UNCHANGED msg
        /\ {"load", "ack"} \subseteq BusyPc /\ run[x].out \in Cause
        /\ run[x].ctx \in {"live", "dead"} /\ run \in [Procs -> RunType]
    BY DEF QueueTypeOK, AcquireExecutionLock, BusyPc, Executing, RunType
  <1>1. msg[x] \in Message /\ msg[x].token \in Nat /\ msg[x].attempts \in 0..MaxRetry
        /\ PodOf[msg[x].task] \in Pods
    BY <1>0, BusyHasTask, PodOfType DEF Message
  <1>2. ASSUME NEW k \in Nat, run' = [run EXCEPT ![x].pc = "load", ![x].token = k]
        PROVE  run' \in [Procs -> RunType] /\ \A y \in Procs : Matches(run'[y], msg'[y])
    <2> DEFINE r == [run[x] EXCEPT !.pc = "load", !.token = k]
    <2>1. r \in RunType /\ r.pc # "idle" /\ r.task = run[x].task
      BY <1>0 DEF RunType, Executing
    <2>2. run' = [run EXCEPT ![x] = r]
      BY <1>0, <1>2
    <2> QED
      BY <1>0, <2>1, <2>2, TypeMove
  <1>6. faults' \in FaultLog
    BY <1>0, TypeDisturb DEF AcquireExecutionLock, RunTypeOK
  <1>3. CASE /\ run' = [run EXCEPT ![x].pc = "load", ![x].token = msg[x].token]
             /\ UNCHANGED <<lock, nextToken, timers>>
    <2>1. run' \in [Procs -> RunType] /\ \A y \in Procs : Matches(run'[y], msg'[y])
      BY <1>1, <1>2, <1>3
    <2> QED
      BY <1>3, <1>6, <2>1 DEF AcquireExecutionLock, QueueTypeOK, RunTypeOK
  <1>4. CASE /\ Acquire(PodOf[msg[x].task])
             /\ run' = [run EXCEPT ![x].pc = "load", ![x].token = nextToken]
             /\ UNCHANGED timers
    <2>1. run' \in [Procs -> RunType] /\ \A y \in Procs : Matches(run'[y], msg'[y])
      BY <1>0, <1>2, <1>4 DEF RunTypeOK
    <2>2. lock' \in [Pods -> Nat] /\ nextToken' \in Nat \ {0}
      BY <1>0, <1>1, <1>4 DEF Acquire, RunTypeOK
    <2> QED
      BY <1>4, <1>6, <2>1, <2>2 DEF AcquireExecutionLock, QueueTypeOK, RunTypeOK
  <1>5. CASE /\ ScheduleRetry(x, msg[x], msg[x].attempts, msg[x].token)
             /\ Goto(x, "ack")
             /\ UNCHANGED <<lock, nextToken>>
    <2>1. run' \in [Procs -> RunType] /\ \A y \in Procs : Matches(run'[y], msg'[y])
      BY <1>0, <1>5, TypeConclude
    <2>2. timers' \subseteq Timer
      BY <1>1, <1>5, TypeRetry
    <2> QED
      BY <1>5, <1>6, <2>1, <2>2 DEF AcquireExecutionLock, QueueTypeOK, RunTypeOK
  <1> QED
    BY <1>3, <1>4, <1>5 DEF AcquireExecutionLock

\* From "check" to the acknowledgement.
LEMMA TypeSettle ==
    ASSUME QueueTypeOK, NEW x \in Procs,
           TaskFailedRead(x) \/ TaskFailedWrite(x) \/ RetryOrBury(x) \/ Ack(x)
    PROVE  QueueTypeOK'
  <1>0. /\ RunTypeOK /\ run[x] \in RunType /\ run[x].pc # "idle"
        /\ {"requeue", "retry", "ack"} \subseteq BusyPc /\ run[x].out \in Cause
    BY DEF QueueTypeOK, RunType, BusyPc, TaskFailedRead, TaskFailedWrite, RetryOrBury, Ack
  <1>1. /\ msg[x] \in Message /\ run[x].task \in Tasks /\ run[x].token \in Nat
        /\ msg[x].attempts \in 0..MaxRetry /\ msg[x].task \in Tasks
    BY <1>0, BusyHasTask DEF Message, RunType
  <1>2. row[run[x].task].cause \in Cause
    BY <1>0, <1>1 DEF RunTypeOK
  <1>3. CASE TaskFailedRead(x)
    <2>1. UNCHANGED msg
      BY <1>3 DEF TaskFailedRead, queueVars
    <2>2. /\ run' \in [Procs -> RunType] /\ \A y \in Procs : Matches(run'[y], msg'[y])
      BY <1>0, <1>2, <1>3, <2>1, TypeConclude DEF TaskFailedRead
    <2>3. faults' \in FaultLog
      BY <1>0, <1>3, TypeDisturb DEF TaskFailedRead, Reached, Unreached, RunTypeOK
    <2> QED
      BY <1>3, <2>2, <2>3 DEF TaskFailedRead, queueVars, QueueTypeOK, RunTypeOK
  <1>4. CASE TaskFailedWrite(x)
    <2>1. UNCHANGED msg
      BY <1>4 DEF TaskFailedWrite, queueVars
    <2>2. /\ run' \in [Procs -> RunType] /\ \A y \in Procs : Matches(run'[y], msg'[y])
      BY <1>0, <1>4, <2>1, TypeConclude DEF TaskFailedWrite
    <2>3. row' \in [Tasks -> [status: Status, cause: Cause]]
      BY <1>0, <1>1, <1>4, TypeSave DEF TaskFailedWrite, RunTypeOK, Status
    <2>4. faults' \in FaultLog
      BY <1>0, <1>4, TypeDisturb DEF TaskFailedWrite, Reached, Unreached, RunTypeOK
    <2> QED
      BY <1>4, <2>2, <2>3, <2>4 DEF TaskFailedWrite, queueVars, QueueTypeOK, RunTypeOK
  <1>5. CASE RetryOrBury(x)
    <2>1. /\ run' \in [Procs -> RunType] /\ \A y \in Procs : Matches(run'[y], msg'[y])
      BY <1>0, <1>5, TypeConclude DEF RetryOrBury
    <2>2. timers' \subseteq Timer
      <3>1. CASE Retryable(msg[x]) /\ ScheduleRetry(x, msg[x], NextAttempt(msg[x]), run[x].token)
        <4>1. NextAttempt(msg[x]) \in 0..MaxRetry
          BY <1>1, <3>1, MaxRetryType DEF Retryable, NextAttempt
        <4> QED
          BY <1>1, <3>1, <4>1, TypeRetry
      <3>2. CASE UNCHANGED timers
        BY <3>2 DEF QueueTypeOK
      <3> QED
        BY <1>5, <3>1, <3>2 DEF RetryOrBury, Bury
    <2>3. deadLetters' \subseteq Tasks
      BY <1>1, <1>5 DEF RetryOrBury, Bury, QueueTypeOK
    <2>4. faults' \in FaultLog
      BY <1>0, <1>5, TypeDisturb DEF RetryOrBury, Reached, Unreached, RunTypeOK
    <2> QED
      BY <1>5, <2>1, <2>2, <2>3, <2>4 DEF RetryOrBury, Bury, QueueTypeOK, RunTypeOK
  <1>6. CASE Ack(x)
    <2>1. Idle \in RunType /\ Matches(Idle, NoMsg)
      BY DEF Idle, RunType, Matches, NoMsg, NoToken, Cause
    <2>2. faults' \in FaultLog
      BY <1>0, <1>6, TypeDisturb DEF Ack, Reached, Unreached, RunTypeOK
    <2> QED
      BY <1>6, <2>1, <2>2 DEF Ack, QueueTypeOK, RunTypeOK
  <1> QED
    BY <1>3, <1>4, <1>5, <1>6

LEMMA TypeTimer ==
    ASSUME QueueTypeOK, NEW tm \in timers, FireTimer(tm)
    PROVE  QueueTypeOK'
  <1>1. tm.entry \in Message
    BY DEF QueueTypeOK, Timer
  <1>2. stream' \in Seq(Message)
    BY <1>1, AppendElems DEF FireTimer, Enqueue, QueueTypeOK
  <1>3. faults' \in FaultLog
    BY TypeDisturb DEF FireTimer, QueueTypeOK, RunTypeOK
  <1> QED
    BY <1>2, <1>3 DEF FireTimer, QueueTypeOK, RunTypeOK

\* A context that dies changes nothing else in a run.
LEMMA TypeDead ==
    ASSUME NEW r \in RunType, NEW m, Matches(r, m)
    PROVE  [r EXCEPT !.ctx = "dead"] \in RunType /\ Matches([r EXCEPT !.ctx = "dead"], m)
  BY DEF RunType, Matches

LEMMA TypeCancel ==
    ASSUME QueueTypeOK, NEW t \in Tasks, Cancel(t)
    PROVE  QueueTypeOK'
  <1>0. RunTypeOK
    BY DEF QueueTypeOK
  <1>1. CASE CancelRead(t)
    <2>1. faults' \in FaultLog
      BY <1>0, <1>1, TypeDisturb DEF CancelRead
    <2> QED
      BY <1>1, <2>1 DEF Cancel, CancelRead, queueVars, QueueTypeOK, RunTypeOK
  <1>2. ASSUME NEW x \in Procs, CancelSignal(t, {x}) PROVE QueueTypeOK'
    <2>1. \A y \in Procs : /\ run'[y] \in RunType
                           /\ Matches(run'[y], msg[y])
      BY <1>2, TypeDead DEF CancelSignal, QueueTypeOK
    <2>2. run' \in [Procs -> RunType]
      BY <1>2, <2>1 DEF CancelSignal
    <2> QED
      BY <1>2, <2>1, <2>2 DEF Cancel, CancelSignal, queueVars, QueueTypeOK, RunTypeOK
  <1>3. CASE CancelWrite(t)
    <2>1. row' \in [Tasks -> [status: Status, cause: Cause]]
      BY <1>0, <1>3, TypeSave DEF CancelWrite, Status, Terminal, Cause, RunTypeOK
    <2>2. faults' \in FaultLog
      BY <1>0, <1>3, TypeDisturb DEF CancelWrite, RunTypeOK
    <2> QED
      BY <1>3, <2>1, <2>2 DEF Cancel, CancelWrite, queueVars, QueueTypeOK, RunTypeOK
  <1> QED
    BY <1>1, <1>2, <1>3 DEF Cancel

LEMMA TypeTimeout ==
    ASSUME QueueTypeOK, NEW x \in Procs, Timeout(x), UNCHANGED queueVars
    PROVE  QueueTypeOK'
  <1>1. faults' \in FaultLog
    BY TypeDisturb DEF Timeout, QueueTypeOK
  <1> DEFINE r == [run[x] EXCEPT !.ctx = "dead"]
  <1>2. r \in RunType /\ Matches(r, msg[x])
    BY TypeDead DEF QueueTypeOK
  <1>3. run' = [run EXCEPT ![x] = r]
    BY DEF Timeout
  <1>4. run' \in [Procs -> RunType] /\ \A y \in Procs : Matches(run'[y], msg'[y])
    BY <1>2, <1>3 DEF queueVars, QueueTypeOK
  <1> QED
    BY <1>1, <1>4 DEF Timeout, queueVars, QueueTypeOK, RunTypeOK

LEMMA TypeProcess ==
    ASSUME QueueTypeOK, NEW x \in Procs, Drain(x) \/ Crash(x) \/ Exit(x) \/ Restart(x)
    PROVE  QueueTypeOK'
  <1>1. faults' \in FaultLog
    BY TypeDisturb DEF Drain, Crash, Exit, Restart, runVars, QueueTypeOK, RunTypeOK
  <1>2. CASE Drain(x)
    BY <1>1, <1>2 DEF Drain, QueueTypeOK, RunTypeOK
  <1>3. CASE Stop(x)
    <2>1. Idle \in RunType /\ Matches(Idle, NoMsg)
      BY DEF Idle, RunType, Matches, NoMsg, NoToken, Cause
    <2>2. /\ run' \in [Procs -> RunType] /\ msg' \in [Procs -> Message \cup {NoMsg}]
          /\ \A y \in Procs : Matches(run'[y], msg'[y])
      BY <1>3, <2>1 DEF Stop, QueueTypeOK
    <2>3. start' \in [Tasks -> StartType]
      BY <1>3, TypeOver DEF Stop, QueueTypeOK
    <2>4. timers' \subseteq Timer /\ proc' \in [Procs -> {"up", "draining", "down"}]
      BY <1>3 DEF Stop, QueueTypeOK
    <2> QED
      BY <1>1, <1>3, <2>2, <2>3, <2>4 DEF Stop, QueueTypeOK, RunTypeOK
  <1>4. CASE Restart(x)
    BY <1>4 DEF Restart, runVars, QueueTypeOK, RunTypeOK
  <1> QED
    BY <1>2, <1>3, <1>4 DEF Crash, Exit

LEMMA TypeExpire ==
    ASSUME QueueTypeOK, NEW p \in Pods, ExpireLease(p)
    PROVE  QueueTypeOK'
  <1>1. faults' \in FaultLog
    BY TypeDisturb DEF ExpireLease, QueueTypeOK, RunTypeOK
  <1>2. lock' \in [Pods -> Nat] /\ freed' \subseteq Nat
    BY DEF ExpireLease, Expire, QueueTypeOK, RunTypeOK, NoToken
  <1> QED
    BY <1>1, <1>2 DEF ExpireLease, Expire, queueVars, QueueTypeOK, RunTypeOK

LEMMA TypeStutter ==
    ASSUME QueueTypeOK, UNCHANGED vars
    PROVE  QueueTypeOK'
  BY DEF QueueTypeOK, RunTypeOK, vars, runVars, queueVars

LEMMA TypeNext == QueueTypeOK /\ [Next]_vars => QueueTypeOK'
  <1> SUFFICES ASSUME QueueTypeOK, [Next]_vars PROVE QueueTypeOK'
    OBVIOUS
  <1>1. ASSUME NEW t \in Tasks, NEW x \in Procs, StartLock(t, x) PROVE QueueTypeOK'
    BY <1>1, TypeStart
  <1>2. ASSUME NEW t \in Tasks, StartRefused(t) \/ StartStep(t) PROVE QueueTypeOK'
    BY <1>2, TypeStart
  <1>3. ASSUME NEW t \in Tasks, Cancel(t) PROVE QueueTypeOK'
    BY <1>3, TypeCancel
  <1>4. ASSUME NEW x \in Procs, WorkerStep(x) PROVE QueueTypeOK'
    BY <1>4, TypeTake, TypeAcquire, TypeRun, TypeSettle DEF WorkerStep
  <1>5. ASSUME NEW x \in Procs, ClaimAny(x) \/ Poll(x) PROVE QueueTypeOK'
    BY <1>5, TypeTake, TypeStutter DEF Poll
  <1>6. ASSUME NEW tm \in timers, FireTimer(tm) PROVE QueueTypeOK'
    BY <1>6, TypeTimer
  <1>7. ASSUME NEW x \in Procs, Timeout(x), UNCHANGED queueVars PROVE QueueTypeOK'
    BY <1>7, TypeTimeout
  <1>8. ASSUME NEW x \in Procs, Drain(x) \/ Crash(x) \/ Exit(x) \/ Restart(x)
        PROVE  QueueTypeOK'
    BY <1>8, TypeProcess
  <1>9. ASSUME NEW p \in Pods, ExpireLease(p) PROVE QueueTypeOK'
    BY <1>9, TypeExpire
  <1> QED
    BY <1>1, <1>2, <1>3, <1>4, <1>5, <1>6, <1>7, <1>8, <1>9, TypeStutter DEF Next

\* Type correctness: every stream entry, lease, run and row is well formed, and
\* a worker knows its task exactly while it handles an entry of it, through
\* every crash, drain, retry and cancellation.
THEOREM TypeCorrect == Spec => []QueueTypeOK
  BY TypeInit, TypeNext, PTL DEF Spec

-----------------------------------------------------------------------------
(* The lease theorem.  It needs the tokens of the redis lock, and nothing  *)
(* about durations: the local lock lets a run that has outlived its lease  *)
(* release its successor's (PodLock).             *)

\* Membership in each kind of lease.
LEMMA LeaseOf ==
    /\ \A t \in Tasks : start[t].pc \in {"locked", "created"} => <<t, start[t].token>> \in Leases
    /\ \A m \in Entries : ~NeedsLock(m) => <<m.task, m.token>> \in Leases
    /\ \A x \in Procs : run[x].pc \in Executing => <<run[x].task, run[x].token>> \in Leases
  BY DEF Leases, StartLeases, EntryLeases, RunLeases

LEMMA LeaseType ==
    ASSUME QueueTypeOK, NEW l \in Leases
    PROVE  l[1] \in Tasks /\ l[2] \in Nat /\ PodOf[l[1]] \in Pods
  <1>1. CASE l \in StartLeases
    BY <1>1, PodOfType DEF StartLeases, QueueTypeOK, StartType
  <1>2. CASE l \in EntryLeases
    <2>1. \A m \in Entries : m \in Message
      BY DEF Entries, Elems, QueueTypeOK, Timer
    <2> QED
      BY <1>2, <2>1, PodOfType DEF EntryLeases, Message
  <1>3. CASE l \in RunLeases
    <2>1. \A x \in Procs : run[x].pc \in Executing => run[x].task \in Tasks /\ run[x].token \in Nat
      BY BusyHasTask DEF Executing, QueueTypeOK, RunType
    <2> QED
      BY <1>3, <2>1, PodOfType DEF RunLeases
  <1> QED
    BY <1>1, <1>2, <1>3 DEF Leases

\* A step whose handlers, entries and runs rely on leases that were relied on,
\* or on the one lease L, adds at most L to the leases.
LEMMA LeaseFrame ==
    ASSUME NEW L,
           \A t \in Tasks : start'[t].pc \in {"locked", "created"}
               => <<t, start'[t].token>> \in Leases \cup L,
           \A m \in Entries' : m \in Entries \/ NeedsLock(m) \/ <<m.task, m.token>> \in Leases \cup L,
           \A x \in Procs : run'[x].pc \in Executing
               => <<run'[x].task, run'[x].token>> \in Leases \cup L
    PROVE  Leases' \subseteq Leases \cup L
  <1>1. StartLeases' \subseteq Leases \cup L
    BY DEF StartLeases
  <1>2. EntryLeases' \subseteq Leases \cup L
    BY LeaseOf DEF EntryLeases, NeedsLock
  <1>3. RunLeases' \subseteq Leases \cup L
    BY DEF RunLeases
  <1> QED
    BY <1>1, <1>2, <1>3 DEF Leases

\* Releasing or expiring a lock entry, or leaving all of them alone, while no
\* lease is added.
LockStep ==
    /\ nextToken' = nextToken
    /\ \/ UNCHANGED <<lock, freed>>
       \/ \E p \in Pods, k \in Nat : Unlock(p, k)
       \/ \E p \in Pods : Expire(p)

LEMMA LeaseKept ==
    ASSUME TokenLock, QueueTypeOK, LeaseInv, Leases' \subseteq Leases, LockStep
    PROVE  LeaseInv'
  <1>1. \A l \in Leases' : l[2] \in 1..(nextToken' - 1)
    BY DEF LeaseInv, LockStep
  <1>2. \A k, l \in Leases' : k[2] = l[2] => k[1] = l[1]
    BY DEF LeaseInv
  <1>3. ASSUME NEW l \in Leases', l[2] \notin freed' PROVE lock'[PodOf[l[1]]] = l[2]
    <2>1. l \in Leases /\ PodOf[l[1]] \in Pods /\ lock \in [Pods -> Nat]
      BY LeaseType DEF QueueTypeOK, RunTypeOK
    <2>2. CASE UNCHANGED <<lock, freed>>
      BY <1>3, <2>1, <2>2 DEF LeaseInv
    <2>3. ASSUME NEW p \in Pods, NEW k \in Nat, Unlock(p, k)
          PROVE  lock'[PodOf[l[1]]] = l[2]
      <3>1. CASE OwnsEntry(p, k)
        BY <1>3, <2>1, <2>3, <3>1 DEF Unlock, OwnsEntry, LeaseInv
      <3>2. CASE ~OwnsEntry(p, k)
        BY <1>3, <2>1, <2>3, <3>2 DEF Unlock, LeaseInv
      <3> QED
        BY <3>1, <3>2
    <2>4. ASSUME NEW p \in Pods, Expire(p) PROVE lock'[PodOf[l[1]]] = l[2]
      BY <1>3, <2>1, <2>4 DEF Expire, LeaseInv
    <2> QED
      BY <2>2, <2>3, <2>4 DEF LockStep
  <1> QED
    BY <1>1, <1>2, <1>3 DEF LeaseInv

\* A granted lease is new, and nobody else's entry stood in its way.
LEMMA LeaseGranted ==
    ASSUME QueueTypeOK, LeaseInv, NEW t \in Tasks, Acquire(PodOf[t]), UNCHANGED freed,
           Leases' \subseteq Leases \cup {<<t, nextToken>>}
    PROVE  LeaseInv'
  <1>0. /\ nextToken \in Nat \ {0} /\ nextToken' = nextToken + 1
        /\ lock \in [Pods -> Nat] /\ PodOf[t] \in Pods
        /\ lock[PodOf[t]] = 0 /\ lock' = [lock EXCEPT ![PodOf[t]] = nextToken]
    BY PodOfType DEF QueueTypeOK, RunTypeOK, Acquire, LockFree, NoToken
  <1>1. \A l \in Leases' : l[2] \in 1..(nextToken' - 1)
    BY <1>0 DEF LeaseInv
  <1>2. \A k, l \in Leases' : k[2] = l[2] => k[1] = l[1]
    <2>1. \A l \in Leases : l[2] # nextToken
      BY <1>0 DEF LeaseInv
    <2> QED
      BY <2>1 DEF LeaseInv
  <1>3. ASSUME NEW l \in Leases', l[2] \notin freed' PROVE lock'[PodOf[l[1]]] = l[2]
    <2>1. CASE l = <<t, nextToken>>
      BY <1>0, <2>1
    <2>2. CASE l \in Leases
      <3>1. PodOf[l[1]] \in Pods /\ lock[PodOf[l[1]]] = l[2] /\ l[2] # 0
        BY <1>0, <1>3, <2>2, LeaseType DEF LeaseInv
      <3> QED
        BY <1>0, <3>1
    <2> QED
      BY <2>1, <2>2
  <1> QED
    BY <1>1, <1>2, <1>3 DEF LeaseInv

\* LeaseFrame for a step that adds no lease.
LEMMA NoNewLease ==
    ASSUME \A t \in Tasks : start'[t].pc \in {"locked", "created"}
               => <<t, start'[t].token>> \in Leases,
           \A m \in Entries' : m \in Entries \/ NeedsLock(m) \/ <<m.task, m.token>> \in Leases,
           \A x \in Procs : run'[x].pc \in Executing
               => <<run'[x].task, run'[x].token>> \in Leases
    PROVE  Leases' \subseteq Leases
  <1> DEFINE L == {}
  <1>1. Leases' \subseteq Leases \cup L
    <2>1. \A l : l \in Leases => l \in Leases \cup L
      OBVIOUS
    <2> HIDE DEF L
    <2> QED
      BY <2>1, LeaseFrame
  <1> QED
    BY <1>1

LEMMA LeaseStart ==
    ASSUME TokenLock, QueueTypeOK, LeaseInv, NEW t \in Tasks,
           (\E x \in Procs : StartLock(t, x)) \/ StartRefused(t) \/ StartStep(t)
    PROVE  LeaseInv'
  <1>0. /\ PodOf[t] \in Pods /\ start \in [Tasks -> StartType] /\ start[t].token \in Nat
    BY PodOfType DEF QueueTypeOK, StartType
  <1>1. ASSUME NEW x \in Procs, StartLock(t, x) PROVE LeaseInv'
    <2> DEFINE L == {<<t, nextToken>>}
    <2>1. \A u \in Tasks : start'[u].pc \in {"locked", "created"}
              => <<u, start'[u].token>> \in Leases \cup L
      BY <1>0, <1>1, LeaseOf DEF StartLock
    <2>2. Entries' = Entries /\ run' = run
      BY <1>1 DEF StartLock, Entries
    <2>3. \A y \in Procs : run'[y].pc \in Executing
              => <<run'[y].task, run'[y].token>> \in Leases \cup L
      BY <2>2, LeaseOf
    <2>4. Leases' \subseteq Leases \cup L
      <3> HIDE DEF L
      <3> QED
        BY <2>1, <2>2, <2>3, LeaseFrame
    <2> QED
      BY <1>1, <2>4, LeaseGranted DEF StartLock
  <1>2. CASE StartRefused(t)
    <2>1. \A u \in Tasks : start'[u].pc \in {"locked", "created"}
              => <<u, start'[u].token>> \in Leases
      BY <1>0, <1>2, LeaseOf DEF StartRefused, Over
    <2>2. Entries' = Entries /\ run' = run /\ LockStep
      BY <1>2 DEF StartRefused, Entries, runVars, LockStep
    <2>3. Leases' \subseteq Leases
      BY <2>1, <2>2, LeaseOf, NoNewLease
    <2> QED
      BY <2>2, <2>3, LeaseKept
  <1>3. CASE StartCreate(t)
    <2>1. \A u \in Tasks : start'[u].pc \in {"locked", "created"}
              => <<u, start'[u].token>> \in Leases
      <3>1. start'[t].pc \in {"locked", "created"} => start'[t].token = start[t].token
        BY <1>0, <1>3 DEF StartCreate, Over, StartType
      <3>2. \A u \in Tasks \ {t} : start'[u] = start[u]
        BY <1>0, <1>3 DEF StartCreate
      <3>3. start[t].pc = "locked"
        BY <1>3 DEF StartCreate
      <3> QED
        BY <3>1, <3>2, <3>3, LeaseOf
    <2>2. Entries' = Entries /\ run' = run
      BY <1>3 DEF StartCreate, Entries
    <2>3. Leases' \subseteq Leases
      BY <2>1, <2>2, LeaseOf, NoNewLease
    <2>4. LockStep
      BY <1>0, <1>3 DEF StartCreate, LockStep
    <2> QED
      BY <2>3, <2>4, LeaseKept
  <1>4. CASE StartEnqueue(t)
    <2> DEFINE e == [id |-> NewId, task |-> t, attempts |-> 0, token |-> start[t].token]
    <2>1. \A u \in Tasks : start'[u].pc \in {"locked", "created"}
              => <<u, start'[u].token>> \in Leases
      BY <1>0, <1>4, LeaseOf DEF StartEnqueue, Over
    <2>2. <<t, start[t].token>> \in Leases
      BY <1>4, LeaseOf DEF StartEnqueue
    <2>3. \A x \in Procs : run'[x].pc \in Executing
              => <<run'[x].task, run'[x].token>> \in Leases
      BY <1>4, LeaseOf DEF StartEnqueue
    <2>4. ASSUME Enqueue(e), FreeIds # {} PROVE Leases' \subseteq Leases
      <3>1. e \in Message
        BY <1>0, <2>4, NewIdType, MaxRetryType DEF Message
      <3>2. Elems(stream') = Elems(stream) \cup {e}
        BY <2>4, <3>1, AppendElems DEF Enqueue, QueueTypeOK
      <3>3. Entries' \subseteq Entries \cup {e}
        BY <1>4, <3>2 DEF StartEnqueue, Entries
      <3>4. <<e.task, e.token>> \in Leases
        BY <2>2
      <3>5. \A m \in Entries' : m \in Entries \/ <<m.task, m.token>> \in Leases
        <4> HIDE DEF e
        <4> QED
          BY <3>3, <3>4
      <3> QED
        BY <2>1, <2>3, <3>5, NoNewLease
    <2>5. ASSUME UNCHANGED stream PROVE Leases' \subseteq Leases
      <3>1. Entries' = Entries
        BY <1>4, <2>5 DEF StartEnqueue, Entries
      <3> QED
        BY <2>1, <2>3, <3>1, NoNewLease
    <2>6. Leases' \subseteq Leases
      BY <1>4, <2>4, <2>5 DEF StartEnqueue
    <2>7. LockStep
      BY <1>0, <1>4 DEF StartEnqueue, LockStep
    <2> QED
      BY <2>6, <2>7, LeaseKept
  <1> QED
    BY <1>1, <1>2, <1>3, <1>4 DEF StartStep

\* A worker that takes an entry is not running yet, and the entry was one.
LEMMA LeaseTake ==
    ASSUME TokenLock, QueueTypeOK, LeaseInv, NEW x \in Procs, Read(x) \/ ClaimAny(x)
    PROVE  LeaseInv'
  <1>1. LockStep /\ start' = start
    BY DEF Read, ClaimAny, Claim, LockStep
  <1>2. \A t \in Tasks : start'[t].pc \in {"locked", "created"} => <<t, start'[t].token>> \in Leases
    BY <1>1, LeaseOf
  <1>3. \A y \in Procs : run'[y].pc \in Executing => <<run'[y].task, run'[y].token>> \in Leases
    <2>1. PICK m : Handle(x, m)
      BY DEF Read, ClaimAny, Claim
    <2>2. run'[x].pc = "acquire" /\ \A y \in Procs \ {x} : run'[y] = run[y]
      BY <2>1 DEF Handle, Idle, QueueTypeOK
    <2> QED
      BY <2>2, LeaseOf DEF Executing
  <1>4. Entries' \subseteq Entries
    <2>1. CASE Read(x)
      <3>1. Head(stream) \in Elems(stream) /\ Elems(stream') \subseteq Elems(stream)
        BY <2>1, HeadTail DEF Read, QueueTypeOK
      <3>2. \A y \in Procs : msg'[y] \in {msg[y], Head(stream)}
        BY <2>1 DEF Read, Handle, QueueTypeOK
      <3> QED
        BY <2>1, <3>1, <3>2 DEF Read, Entries
    <2>2. ASSUME NEW m \in pending, Claim(x, m) PROVE Entries' \subseteq Entries
      <3>1. \A y \in Procs : msg'[y] \in {msg[y], m}
        BY <2>2 DEF Claim, Handle, QueueTypeOK
      <3> QED
        BY <2>2, <3>1 DEF Claim, Entries
    <2> QED
      BY <2>1, <2>2 DEF ClaimAny
  <1>5. Leases' \subseteq Leases
    BY <1>2, <1>3, <1>4, NoNewLease
  <1> QED
    BY <1>1, <1>5, LeaseKept

\* An entry that needs no lock is relied on already, by its first attempt; one
\* that needs it gets a fresh lease, or is scheduled again without any.
LEMMA LeaseAcquire ==
    ASSUME TokenLock, QueueTypeOK, LeaseInv, NEW x \in Procs, AcquireExecutionLock(x)
    PROVE  LeaseInv'
  <1>0. /\ run[x].pc # "idle" /\ run \in [Procs -> RunType] /\ start' = start /\ freed' = freed
        /\ UNCHANGED <<stream, pending, msg>>
    BY DEF AcquireExecutionLock, QueueTypeOK
  <1>1. msg[x] \in Message /\ run[x].task = msg[x].task /\ msg[x].task \in Tasks
    BY <1>0, BusyHasTask
  <1>2. msg[x] \in Entries
    BY <1>1, NoTaskType DEF Entries, Message, NoMsg
  <1>3. CASE /\ ~NeedsLock(msg[x])
             /\ run' = [run EXCEPT ![x].pc = "load", ![x].token = msg[x].token]
             /\ UNCHANGED <<lock, nextToken, timers>>
    <2>1. /\ run'[x].task = msg[x].task /\ run'[x].token = msg[x].token
          /\ \A y \in Procs \ {x} : run'[y] = run[y]
      BY <1>0, <1>1, <1>3 DEF RunType
    <2>2. \A y \in Procs : run'[y].pc \in Executing => <<run'[y].task, run'[y].token>> \in Leases
      BY <1>2, <1>3, <2>1, LeaseOf
    <2>3. Entries' = Entries /\ LockStep
      BY <1>0, <1>3 DEF Entries, LockStep
    <2>4. Leases' \subseteq Leases
      BY <1>0, <2>2, <2>3, LeaseOf, NoNewLease
    <2> QED
      BY <2>3, <2>4, LeaseKept
  <1>4. CASE /\ Acquire(PodOf[msg[x].task])
             /\ run' = [run EXCEPT ![x].pc = "load", ![x].token = nextToken]
             /\ UNCHANGED timers
    <2> DEFINE t == msg[x].task
               L == {<<t, nextToken>>}
    <2>1. /\ run'[x].task = t /\ run'[x].token = nextToken
          /\ \A y \in Procs \ {x} : run'[y] = run[y]
      BY <1>0, <1>1, <1>4 DEF RunType
    <2>2. \A y \in Procs : run'[y].pc \in Executing
              => <<run'[y].task, run'[y].token>> \in Leases \cup L
      BY <2>1, LeaseOf
    <2>3. Entries' = Entries
      BY <1>0, <1>4 DEF Entries
    <2>4. Leases' \subseteq Leases \cup L
      <3> HIDE DEF L
      <3> QED
        BY <1>0, <2>2, <2>3, LeaseOf, LeaseFrame
    <2> HIDE DEF t
    <2>5. t \in Tasks /\ Acquire(PodOf[t])
      BY <1>1, <1>4 DEF t
    <2> QED
      BY <1>0, <2>4, <2>5, LeaseGranted
  <1>5. CASE /\ NeedsLock(msg[x])
             /\ ScheduleRetry(x, msg[x], msg[x].attempts, msg[x].token)
             /\ Goto(x, "ack")
             /\ UNCHANGED <<lock, nextToken>>
    <2>1. run'[x].pc = "ack" /\ \A y \in Procs \ {x} : run'[y] = run[y]
      BY <1>0, <1>5 DEF Goto, RunType
    <2>2. \A y \in Procs : run'[y].pc \in Executing => <<run'[y].task, run'[y].token>> \in Leases
      BY <2>1, LeaseOf DEF Executing
    <2>3. \A m \in Entries' : m \in Entries \/ NeedsLock(m)
      BY <1>0, <1>5 DEF ScheduleRetry, Entries, NeedsLock
    <2>4. Leases' \subseteq Leases
      BY <1>0, <2>2, <2>3, LeaseOf, NoNewLease
    <2>5. LockStep
      BY <1>0, <1>5 DEF LockStep
    <2> QED
      BY <2>4, <2>5, LeaseKept
  <1> QED
    BY <1>3, <1>4, <1>5 DEF AcquireExecutionLock

\* A run keeps its lease until it releases it.
LEMMA LeaseRun ==
    ASSUME TokenLock, QueueTypeOK, LeaseInv, NEW x \in Procs, RunStep(x)
    PROVE  LeaseInv'
  <1>1. run[x].pc \in Executing /\ run \in [Procs -> RunType] /\ UNCHANGED queueVars
    BY DEF RunStep, Load, Work, Persist, Finish, Release, Executing, QueueTypeOK
  <1>2. PodOf[run[x].task] \in Pods /\ run[x].token \in Nat
    BY <1>1, BusyHasTask, PodOfType DEF Executing, RunType
  <1>3. /\ run'[x].task = run[x].task /\ run'[x].token = run[x].token
        /\ \A y \in Procs \ {x} : run'[y] = run[y]
    BY <1>1 DEF RunStep, Load, Work, Persist, Finish, Release, Goto, Conclude, RunType
  <1>4. \A y \in Procs : run'[y].pc \in Executing => <<run'[y].task, run'[y].token>> \in Leases
    BY <1>1, <1>3, LeaseOf
  <1>5. Entries' = Entries /\ start' = start
    BY <1>1 DEF queueVars, Entries
  <1>6. Leases' \subseteq Leases
    BY <1>4, <1>5, LeaseOf, NoNewLease
  <1>7. LockStep
    BY <1>2 DEF RunStep, Load, Work, Persist, Finish, Release, LockStep
  <1> QED
    BY <1>6, <1>7, LeaseKept

\* After the run nothing relies on a lease any more: a retry needs a lock.
LEMMA LeaseSettle ==
    ASSUME TokenLock, QueueTypeOK, LeaseInv, NEW x \in Procs,
           TaskFailedRead(x) \/ TaskFailedWrite(x) \/ RetryOrBury(x) \/ Ack(x)
    PROVE  LeaseInv'
  <1>0. /\ run[x].pc # "idle" /\ run \in [Procs -> RunType] /\ start' = start /\ LockStep
        /\ UNCHANGED stream
    BY DEF TaskFailedRead, TaskFailedWrite, RetryOrBury, Ack, queueVars, LockStep, QueueTypeOK
  <1>1. run'[x].pc \notin Executing /\ \A y \in Procs \ {x} : run'[y] = run[y]
    BY <1>0 DEF TaskFailedRead, TaskFailedWrite, RetryOrBury, Ack, Goto, Conclude, RunType,
                Idle, Executing
  <1>2. \A y \in Procs : run'[y].pc \in Executing => <<run'[y].task, run'[y].token>> \in Leases
    BY <1>1, LeaseOf
  <1>3. \A m \in Entries' : m \in Entries \/ NeedsLock(m)
    <2>1. CASE TaskFailedRead(x) \/ TaskFailedWrite(x)
      BY <2>1 DEF TaskFailedRead, TaskFailedWrite, queueVars, Entries
    <2>2. CASE RetryOrBury(x)
      <3>1. msg[x].attempts \in Nat
        BY <1>0, BusyHasTask DEF Message
      <3>2. timers' \subseteq timers \cup
                {[at |-> x, entry |-> [id |-> NewId, task |-> msg[x].task,
                     attempts |-> NextAttempt(msg[x]), token |-> run[x].token]]}
        BY <2>2 DEF RetryOrBury, ScheduleRetry
      <3> QED
        BY <2>2, <3>1, <3>2 DEF RetryOrBury, Entries, NeedsLock, NextAttempt
    <2>3. CASE Ack(x)
      <3>1. \A y \in Procs : msg'[y] \in {msg[y], NoMsg}
        BY <2>3 DEF Ack, QueueTypeOK
      <3> QED
        BY <2>3, <3>1 DEF Ack, Entries
    <2> QED
      BY <2>1, <2>2, <2>3
  <1>4. Leases' \subseteq Leases
    BY <1>0, <1>2, <1>3, LeaseOf, NoNewLease
  <1> QED
    BY <1>0, <1>4, LeaseKept

\* A timer's entry moves to the stream, or is lost.
LEMMA LeaseTimer ==
    ASSUME TokenLock, QueueTypeOK, LeaseInv, NEW tm \in timers, FireTimer(tm)
    PROVE  LeaseInv'
  <1>0. LockStep /\ start' = start /\ run' = run
    BY DEF FireTimer, LockStep
  <1>1. Elems(stream') \subseteq Elems(stream) \cup {tm.entry}
    <2>1. CASE Enqueue(tm.entry)
      BY <2>1, AppendElems DEF Enqueue, QueueTypeOK, Timer
    <2>2. CASE UNCHANGED stream
      BY <2>2
    <2> QED
      BY <2>1, <2>2 DEF FireTimer
  <1>2. Entries' \subseteq Entries
    BY <1>1 DEF FireTimer, Entries
  <1>3. Leases' \subseteq Leases
    BY <1>0, <1>2, LeaseOf, NoNewLease
  <1> QED
    BY <1>0, <1>3, LeaseKept

\* Cancellation and timeouts kill a context, not a lease.
LEMMA LeaseContext ==
    ASSUME TokenLock, QueueTypeOK, LeaseInv,
           \/ \E t \in Tasks : Cancel(t)
           \/ \E x \in Procs : Timeout(x) /\ UNCHANGED queueVars
    PROVE  LeaseInv'
  <1>1. LockStep /\ UNCHANGED queueVars
    BY DEF Cancel, CancelRead, CancelSignal, CancelWrite, Timeout, LockStep
  <1>2. \A y \in Procs : run'[y].pc = run[y].pc /\ run'[y].task = run[y].task
                             /\ run'[y].token = run[y].token
    <2>1. ASSUME NEW t \in Tasks, Cancel(t)
          PROVE  \A y \in Procs : run'[y].pc = run[y].pc /\ run'[y].task = run[y].task
                                      /\ run'[y].token = run[y].token
      BY <2>1 DEF Cancel, CancelRead, CancelSignal, CancelWrite, QueueTypeOK, RunType
    <2>2. ASSUME NEW x \in Procs, Timeout(x)
          PROVE  \A y \in Procs : run'[y].pc = run[y].pc /\ run'[y].task = run[y].task
                                      /\ run'[y].token = run[y].token
      BY <2>2 DEF Timeout, QueueTypeOK, RunType
    <2> QED
      BY <2>1, <2>2
  <1>3. Entries' = Entries /\ start' = start
    BY <1>1 DEF queueVars, Entries
  <1>4. \A y \in Procs : run'[y].pc \in Executing => <<run'[y].task, run'[y].token>> \in Leases
    BY <1>2, LeaseOf
  <1>5. Leases' \subseteq Leases
    BY <1>3, <1>4, LeaseOf, NoNewLease
  <1> QED
    BY <1>1, <1>5, LeaseKept

\* A process that ends forgets what it relied on; Redis keeps the entry.
LEMMA LeaseProcess ==
    ASSUME TokenLock, QueueTypeOK, LeaseInv, NEW x \in Procs,
           Drain(x) \/ Crash(x) \/ Exit(x) \/ Restart(x)
    PROVE  LeaseInv'
  <1>0. LockStep
    BY DEF Drain, Crash, Exit, Restart, Stop, runVars, LockStep
  <1>1. CASE Drain(x) \/ Restart(x)
    <2>1. Entries' = Entries /\ start' = start /\ run' = run
      BY <1>1 DEF Drain, Restart, runVars, Entries
    <2>2. Leases' \subseteq Leases
      BY <2>1, LeaseOf, NoNewLease
    <2> QED
      BY <1>0, <2>2, LeaseKept
  <1>2. CASE Stop(x)
    <2>1. \A t \in Tasks : start'[t].pc \in {"locked", "created"}
              => <<t, start'[t].token>> \in Leases
      BY <1>2, LeaseOf DEF Stop, Over
    <2>2. \A y \in Procs : run'[y].pc \in Executing => <<run'[y].task, run'[y].token>> \in Leases
      BY <1>2, LeaseOf DEF Stop, Idle, Executing, QueueTypeOK
    <2>3. \A y \in Procs : msg'[y] \in {msg[y], NoMsg}
      BY <1>2 DEF Stop, QueueTypeOK
    <2>4. Entries' \subseteq Entries
      BY <1>2, <2>3 DEF Stop, Entries
    <2>5. Leases' \subseteq Leases
      BY <2>1, <2>2, <2>4, NoNewLease
    <2> QED
      BY <1>0, <2>5, LeaseKept
  <1> QED
    BY <1>1, <1>2 DEF Crash, Exit

LEMMA LeaseExpire ==
    ASSUME TokenLock, QueueTypeOK, LeaseInv, NEW p \in Pods, ExpireLease(p)
    PROVE  LeaseInv'
  <1>1. LockStep /\ run' = run /\ UNCHANGED queueVars
    BY DEF ExpireLease, Expire, LockStep
  <1>2. Entries' = Entries /\ start' = start
    BY <1>1 DEF queueVars, Entries
  <1>3. Leases' \subseteq Leases
    BY <1>1, <1>2, LeaseOf, NoNewLease
  <1> QED
    BY <1>1, <1>3, LeaseKept

LEMMA LeaseStutter ==
    ASSUME LeaseInv, UNCHANGED vars
    PROVE  LeaseInv'
  <1>1. Leases' = Leases
    BY DEF vars, runVars, queueVars, Leases, StartLeases, EntryLeases, RunLeases, Entries, NeedsLock
  <1> QED
    BY <1>1 DEF LeaseInv, vars, runVars

LEMMA LeaseInit == Init => LeaseInv
  <1> SUFFICES ASSUME Init PROVE LeaseInv
    OBVIOUS
  <1>1. Entries = {} /\ StartLeases = {} /\ RunLeases = {}
    BY DEF Init, RunInit, Entries, Elems, StartLeases, RunLeases, Over, Idle, Executing
  <1>2. Leases = {}
    BY <1>1 DEF Leases, EntryLeases
  <1> QED
    BY <1>2 DEF LeaseInv

LEMMA LeaseNext ==
    ASSUME TokenLock
    PROVE  QueueTypeOK /\ LeaseInv /\ [Next]_vars => LeaseInv'
  <1> SUFFICES ASSUME QueueTypeOK, LeaseInv, [Next]_vars PROVE LeaseInv'
    OBVIOUS
  <1>1. ASSUME NEW t \in Tasks,
               (\E x \in Procs : StartLock(t, x)) \/ StartRefused(t) \/ StartStep(t)
        PROVE  LeaseInv'
    BY <1>1, LeaseStart
  <1>2. ASSUME NEW x \in Procs, WorkerStep(x) PROVE LeaseInv'
    BY <1>2, LeaseTake, LeaseAcquire, LeaseRun, LeaseSettle DEF WorkerStep
  <1>3. ASSUME NEW x \in Procs, ClaimAny(x) \/ Poll(x) PROVE LeaseInv'
    BY <1>3, LeaseTake, LeaseStutter DEF Poll
  <1>4. ASSUME NEW tm \in timers, FireTimer(tm) PROVE LeaseInv'
    BY <1>4, LeaseTimer
  <1>5. CASE \/ \E t \in Tasks : Cancel(t)
             \/ \E x \in Procs : Timeout(x) /\ UNCHANGED queueVars
    BY <1>5, LeaseContext
  <1>6. ASSUME NEW x \in Procs, Drain(x) \/ Crash(x) \/ Exit(x) \/ Restart(x) PROVE LeaseInv'
    BY <1>6, LeaseProcess
  <1>7. ASSUME NEW p \in Pods, ExpireLease(p) PROVE LeaseInv'
    BY <1>7, LeaseExpire
  <1> QED
    BY <1>1, <1>2, <1>3, <1>4, <1>5, <1>6, <1>7, LeaseStutter DEF Next

LEMMA LeaseExcludes == QueueTypeOK /\ LeaseInv => OneLease
  <1> SUFFICES ASSUME QueueTypeOK, LeaseInv, NEW x \in Procs, NEW y \in Procs,
                      run[x].pc \in Executing, run[y].pc \in Executing,
                      PodOf[run[x].task] = PodOf[run[y].task],
                      run[x].token \notin freed, run[y].token \notin freed
               PROVE  run[x].task = run[y].task /\ run[x].token = run[y].token
    BY DEF OneLease
  <1> DEFINE k == <<run[x].task, run[x].token>>
             l == <<run[y].task, run[y].token>>
  <1>1. k \in Leases /\ l \in Leases
    BY LeaseOf
  <1>2. k[1] = run[x].task /\ k[2] = run[x].token /\ l[1] = run[y].task /\ l[2] = run[y].token
    OBVIOUS
  <1> HIDE DEF k, l
  <1>3. k[2] = l[2]
    BY <1>1, <1>2 DEF LeaseInv
  <1> QED
    BY <1>1, <1>2, <1>3 DEF LeaseInv

\* With the redis lock, two runs about one pod are never both inside a lease of
\* their own: whatever crashes, drains, expires, is slow, fails or is cancelled.
\* The lock entry of a pod is the lease of whoever relies on one (LeaseInv).
THEOREM LeaseSafe ==
    ASSUME TokenLock
    PROVE  Spec => [](LeaseInv /\ OneLease)
  <1>1. QueueTypeOK /\ LeaseInv /\ [Next]_vars => LeaseInv'
    BY LeaseNext
  <1> QED
    BY <1>1, LeaseInit, TypeCorrect, LeaseExcludes, PTL DEF Spec

-----------------------------------------------------------------------------
(* The order of the writes: a run that is about to say success has its     *)
(* report in the table, and nothing takes a report away.                   *)

ReportInv ==
    /\ SuccessHasReport
    /\ \A x \in Procs : run[x].pc = "finish" /\ run[x].out = "report" => run[x].task \in report

\* A step that writes no success, takes no report away and brings no run to its
\* finish with a report.
LEMMA ReportKept ==
    ASSUME ReportInv, report \subseteq report',
           \A t \in Tasks : row'[t].status = "success" => row[t].status = "success",
           \A x \in Procs : run'[x].pc = "finish" /\ run'[x].out = "report"
               => run[x].pc = "finish" /\ run[x].out = "report" /\ run'[x].task = run[x].task
    PROVE  ReportInv'
  BY DEF ReportInv, SuccessHasReport

LEMMA ReportRun ==
    ASSUME QueueTypeOK, ReportInv, NEW x \in Procs, RunStep(x)
    PROVE  ReportInv'
  <1>0. /\ run[x].pc # "idle" /\ run \in [Procs -> RunType]
        /\ row \in [Tasks -> [status: Status, cause: Cause]]
    BY DEF RunStep, Load, Work, Persist, Finish, Release, QueueTypeOK, RunTypeOK
  <1>1. run[x].task \in Tasks /\ \A y \in Procs \ {x} : run'[y] = run[y]
    BY <1>0, BusyHasTask DEF RunStep, Load, Work, Persist, Finish, Release, Goto, Conclude
  <1>2. CASE Load(x) \/ Work(x) \/ Release(x, "check")
    <2>1. row' = row /\ report' = report
      BY <1>2 DEF Load, Work, Release
    <2>2. ~(run'[x].pc = "finish" /\ run'[x].out = "report")
      BY <1>0, <1>2 DEF Load, Work, Release, Goto, Conclude, RunType
    <2> QED
      BY <1>1, <2>1, <2>2, ReportKept
  <1>3. CASE Persist(x)
    <2>1. row' = row /\ report \subseteq report' /\ run'[x].task = run[x].task
      BY <1>0, <1>3 DEF Persist, Goto, Conclude, RunType
    <2>2. run'[x].out = "report" => run[x].task \in report'
      BY <1>0, <1>3 DEF Persist, Goto, Conclude, RunType
    <2> QED
      BY <1>1, <2>1, <2>2 DEF ReportInv, SuccessHasReport
  <1>4. CASE Finish(x)
    <2>1. report' = report /\ run[x].pc = "finish" /\ run'[x].pc = "release"
      BY <1>0, <1>4 DEF Finish, Goto
    <2>2. row'[run[x].task].status = "success"
              => row[run[x].task].status = "success" \/ run[x].out = "report"
      BY <1>0, <1>1, <1>4 DEF Finish, Save, FinalStatus
    <2>3. \A t \in Tasks \ {run[x].task} : row'[t] = row[t]
      BY <1>0, <1>4 DEF Finish, Save
    <2> QED
      BY <1>1, <2>1, <2>2, <2>3 DEF ReportInv, SuccessHasReport
  <1> QED
    BY <1>2, <1>3, <1>4 DEF RunStep

\* Every other step keeps the reports, writes running or failed if it writes at
\* all, and sends no run to its finish.
LEMMA ReportOther ==
    ASSUME QueueTypeOK, ReportInv, [Next]_vars, ~\E x \in Procs : RunStep(x)
    PROVE  ReportInv'
  <1>0. row \in [Tasks -> [status: Status, cause: Cause]] /\ run \in [Procs -> RunType]
    BY DEF QueueTypeOK, RunTypeOK
  <1>1. ASSUME NEW t \in Tasks,
               (\E x \in Procs : StartLock(t, x)) \/ StartRefused(t) \/ StartStep(t)
        PROVE  ReportInv'
    <2>1. run' = run /\ report' = report
      BY <1>1 DEF StartLock, StartRefused, StartStep, StartCreate, StartEnqueue, runVars
    <2>2. \A u \in Tasks : row'[u].status = "success" => row[u].status = "success"
      BY <1>0, <1>1 DEF StartLock, StartRefused, StartStep, StartCreate, StartEnqueue, Save, runVars
    <2> QED
      BY <2>1, <2>2, ReportKept
  <1>2. ASSUME NEW t \in Tasks, Cancel(t) PROVE ReportInv'
    <2>1. report' = report
      BY <1>2 DEF Cancel, CancelRead, CancelSignal, CancelWrite
    <2>2. \A u \in Tasks : row'[u].status = "success" => row[u].status = "success"
      BY <1>0, <1>2 DEF Cancel, CancelRead, CancelSignal, CancelWrite, Save
    <2>3. \A y \in Procs : run'[y].pc = run[y].pc /\ run'[y].task = run[y].task
                               /\ run'[y].out = run[y].out
      BY <1>0, <1>2 DEF Cancel, CancelRead, CancelSignal, CancelWrite, RunType
    <2> QED
      BY <2>1, <2>2, <2>3, ReportKept
  <1>3. ASSUME NEW x \in Procs,
               Read(x) \/ ClaimAny(x) \/ AcquireExecutionLock(x) \/ TaskFailedRead(x)
                   \/ TaskFailedWrite(x) \/ RetryOrBury(x) \/ Ack(x)
        PROVE  ReportInv'
    <2>1. report' = report
      BY <1>3 DEF Read, ClaimAny, Claim, AcquireExecutionLock, TaskFailedRead, TaskFailedWrite,
                  RetryOrBury, Ack
    <2>2. \A u \in Tasks : row'[u].status = "success" => row[u].status = "success"
      <3>1. CASE TaskFailedWrite(x)
        BY <1>0, <3>1 DEF TaskFailedWrite, Save
      <3>2. CASE row' = row
        BY <3>2
      <3> QED
        BY <1>3, <3>1, <3>2 DEF Read, ClaimAny, Claim, AcquireExecutionLock, TaskFailedRead,
                                RetryOrBury, Ack
    <2>3. run'[x].pc # "finish" /\ \A y \in Procs \ {x} : run'[y] = run[y]
      <3>1. ASSUME NEW m, Handle(x, m)
            PROVE  run'[x].pc # "finish" /\ \A y \in Procs \ {x} : run'[y] = run[y]
        BY <1>0, <3>1 DEF Handle, Idle
      <3>2. CASE Read(x) \/ ClaimAny(x)
        BY <3>1, <3>2 DEF Read, ClaimAny, Claim
      <3>3. CASE AcquireExecutionLock(x)
        BY <1>0, <3>3 DEF AcquireExecutionLock, Goto, RunType
      <3>4. CASE TaskFailedRead(x) \/ TaskFailedWrite(x)
        BY <1>0, <3>4 DEF TaskFailedRead, TaskFailedWrite, Goto, Conclude, RunType
      <3>5. CASE RetryOrBury(x) \/ Ack(x)
        BY <1>0, <3>5 DEF RetryOrBury, Ack, Goto, RunType, Idle
      <3> QED
        BY <1>3, <3>2, <3>3, <3>4, <3>5
    <2> QED
      BY <2>1, <2>2, <2>3, ReportKept
  <1>4. ASSUME NEW tm \in timers, FireTimer(tm) PROVE ReportInv'
    BY <1>4, ReportKept DEF FireTimer
  <1>5. ASSUME NEW x \in Procs, Timeout(x) PROVE ReportInv'
    <2>1. \A y \in Procs : run'[y].pc = run[y].pc /\ run'[y].task = run[y].task
                               /\ run'[y].out = run[y].out
      BY <1>0, <1>5 DEF Timeout, RunType
    <2> QED
      BY <1>5, <2>1, ReportKept DEF Timeout
  <1>6. ASSUME NEW x \in Procs, Drain(x) \/ Crash(x) \/ Exit(x) \/ Restart(x) PROVE ReportInv'
    <2>1. row' = row /\ report' = report
      BY <1>6 DEF Drain, Crash, Exit, Stop, Restart, runVars
    <2>2. \A y \in Procs : run'[y].pc = "finish" => run'[y] = run[y]
      BY <1>0, <1>6 DEF Drain, Crash, Exit, Stop, Restart, runVars, Idle
    <2> QED
      BY <2>1, <2>2, ReportKept
  <1>7. ASSUME NEW p \in Pods, ExpireLease(p) PROVE ReportInv'
    BY <1>7, ReportKept DEF ExpireLease, Expire
  <1>8. CASE UNCHANGED vars
    BY <1>8, ReportKept DEF vars, runVars
  <1> QED
    BY <1>1, <1>2, <1>3, <1>4, <1>5, <1>6, <1>7, <1>8 DEF Next, WorkerStep, Poll

\* A row never says success without the report it promises, with either lock
\* and under every disturbance: cancellations, retries, redeliveries of a task
\* that was done, runs that outlive their lease.
THEOREM ReportSafe == Spec => []SuccessHasReport
  <1>1. Init => ReportInv
    BY DEF Init, RunInit, ReportInv, SuccessHasReport, Idle
  <1>2. QueueTypeOK /\ ReportInv /\ [Next]_vars => ReportInv'
    BY ReportRun, ReportOther
  <1>3. ReportInv => SuccessHasReport
    BY DEF ReportInv
  <1> QED
    BY <1>1, <1>2, <1>3, TypeCorrect, PTL DEF Spec

-----------------------------------------------------------------------------
(* Disturbances are logged and never forgotten.                            *)

LEMMA LogGrows ==
    ASSUME QueueTypeOK, [Next]_vars
    PROVE  faults' = faults \/ \E k \in Faults : Disturb(k)
  <1> DEFINE Logged == faults' = faults \/ \E k \in Faults : Disturb(k)
  <1>0. \A k : Disturb(k) => k \in Faults
    BY DEF Disturb
  <1>1. ASSUME NEW t \in Tasks,
               (\E x \in Procs : StartLock(t, x)) \/ StartRefused(t) \/ StartStep(t)
        PROVE  Logged
    BY <1>0, <1>1 DEF StartLock, StartRefused, StartStep, StartCreate, StartEnqueue, runVars
  <1>2. ASSUME NEW t \in Tasks, Cancel(t) PROVE Logged
    BY <1>0, <1>2 DEF Cancel, CancelRead, CancelSignal, CancelWrite
  <1>3. ASSUME NEW x \in Procs, WorkerStep(x) PROVE Logged
    <2>1. CASE RunStep(x)
      BY <1>0, <2>1 DEF RunStep, Load, Work, Persist, Finish, Release, Served, Fails
    <2>2. CASE Read(x) \/ AcquireExecutionLock(x) \/ TaskFailedRead(x) \/ TaskFailedWrite(x)
                 \/ RetryOrBury(x) \/ Ack(x)
      BY <1>0, <2>2 DEF Read, AcquireExecutionLock, TaskFailedRead, TaskFailedWrite, RetryOrBury, Ack,
         Reached, Unreached
    <2> QED
      BY <1>3, <2>1, <2>2 DEF WorkerStep
  <1>4. ASSUME NEW x \in Procs, ClaimAny(x) \/ Poll(x) PROVE Logged
    BY <1>0, <1>4 DEF ClaimAny, Claim, Poll, vars, runVars
  <1>5. ASSUME NEW tm \in timers, FireTimer(tm) PROVE Logged
    BY <1>0, <1>5 DEF FireTimer
  <1>6. ASSUME NEW x \in Procs, Timeout(x) PROVE Logged
    BY <1>0, <1>6 DEF Timeout
  <1>7. ASSUME NEW x \in Procs, Drain(x) \/ Crash(x) \/ Exit(x) \/ Restart(x) PROVE Logged
    BY <1>0, <1>7 DEF Drain, Crash, Exit, Restart, runVars
  <1>8. ASSUME NEW p \in Pods, ExpireLease(p) PROVE Logged
    BY <1>0, <1>8 DEF ExpireLease
  <1>9. CASE UNCHANGED vars
    BY <1>9 DEF vars, runVars
  <1> QED
    BY <1>1, <1>2, <1>3, <1>4, <1>5, <1>6, <1>7, <1>8, <1>9 DEF Next

\* What has been spared after a step had been spared before, by the step too.
LEMMA SparedBefore ==
    ASSUME QueueTypeOK, [Next]_vars, NEW K, Spared(K)'
    PROVE  Spared(K) /\ \A k \in K : ~Disturb(k)
  <1>1. faults \in Seq(FaultKinds)
    BY DEF QueueTypeOK, RunTypeOK, FaultLog
  <1>2. ASSUME NEW k \in Faults, Disturb(k) PROVE Spared(K) /\ k \notin K
    <2>1. k \in FaultKinds /\ faults' = Append(faults, k)
      BY <1>2, FaultType DEF Disturb
    <2>2. /\ Len(faults) \in Nat /\ DOMAIN faults = 1..Len(faults)
          /\ DOMAIN faults' = 1..(Len(faults) + 1)
          /\ faults'[Len(faults) + 1] = k
          /\ \A i \in 1..Len(faults) : faults'[i] = faults[i]
      BY <1>1, <2>1
    <2>3. \A i \in 1..(Len(faults) + 1) : faults'[i] \notin K
      BY <2>2 DEF Spared
    <2> QED
      BY <2>2, <2>3 DEF Spared
  <1>3. \A k : Disturb(k) => k \in Faults
    BY DEF Disturb
  <1>4. CASE faults' = faults
    <2>1. Spared(K)
      BY <1>4 DEF Spared
    <2> QED
      BY <1>2, <1>3, <2>1
  <1> QED
    BY <1>2, <1>3, <1>4, LogGrows

\* Sparing more kinds spares fewer.
LEMMA SparedFewer ==
    ASSUME NEW K, NEW J, J \subseteq K, Spared(K)
    PROVE  Spared(J)
  BY DEF Spared

-----------------------------------------------------------------------------
(* Where entries are, and what a step does to them.                        *)

\* Entries no worker has yet, and those the workers handle.
Waiting == Elems(stream) \cup {tm.entry : tm \in timers}
InHand  == {msg[x] : x \in Procs} \ {NoMsg}

LEMMA EntryPlaces ==
    ASSUME QueueTypeOK
    PROVE  /\ Entries = Waiting \cup pending \cup InHand
           /\ Entries \subseteq Message
           /\ \A x \in Procs : run[x].pc # "idle" => msg[x] \in InHand
           /\ \A m \in Message : m.id # NoMsg.id /\ m # NoMsg
  <1>1. Entries = Waiting \cup pending \cup InHand
    BY DEF Entries, Waiting, InHand
  <1>2. Entries \subseteq Message
    BY DEF Entries, Elems, QueueTypeOK, Timer
  <1>3. \A m \in Message : m.id # NoMsg.id /\ m # NoMsg
    BY MessageIdType DEF Message, NoMsg
  <1> QED
    BY <1>1, <1>2, <1>3, BusyHasTask DEF InHand

\* A new entry m: its id is nobody's.
Fresh(m) == m \in Message /\ \A n \in Entries : n.id # m.id

LEMMA NewIdFresh ==
    ASSUME QueueTypeOK, FreeIds # {}, NEW t \in Tasks, NEW a \in 0..MaxRetry, NEW k \in Nat
    PROVE  Fresh([id |-> NewId, task |-> t, attempts |-> a, token |-> k])
  <1>1. NewId \in FreeIds
    BY DEF NewId
  <1> QED
    BY <1>1, NewIdType DEF Fresh, FreeIds, Message

\* The new entry of a task whose handler has just created the row.
FirstEntry(t) == [id |-> NewId, task |-> t, attempts |-> 0, token |-> start[t].token]

Adds(m) == /\ Fresh(m) /\ Entries' \subseteq Entries \cup {m}

LEMMA EntriesSame ==
    ASSUME UNCHANGED <<stream, pending, timers, msg>>
    PROVE  Entries' = Entries /\ Waiting' = Waiting /\ InHand' = InHand
  BY DEF Entries, Waiting, InHand, Elems

\* The steps of a start handler, and of a worker that handles an entry.
Starting(t) == (\E x \in Procs : StartLock(t, x)) \/ StartRefused(t) \/ StartStep(t)
Handling(x) == AcquireExecutionLock(x) \/ RunStep(x) \/ TaskFailedRead(x) \/ TaskFailedWrite(x)
                   \/ RetryOrBury(x)

\* Starting a diagnosis: its entry is the only one a start handler makes.
LEMMA StartEntry ==
    ASSUME QueueTypeOK, NEW t \in Tasks, Starting(t)
    PROVE  /\ UNCHANGED <<pending, timers, msg, run, proc, cancelling, deadLetters>>
           /\ \A u \in Tasks \ {t} : start'[u] = start[u] /\ row'[u] = row[u]
           /\ start[t].pc \in {"no", "locked", "created"}
           /\ \/ stream' = stream /\ start'[t].pc # "accepted"
              \/ /\ start[t].pc = "created" /\ start'[t].pc = "accepted" /\ row' = row
                 /\ Fresh(FirstEntry(t)) /\ stream' = Append(stream, FirstEntry(t))
                 /\ UNCHANGED <<lock, freed, nextToken, faults>>
  <1>0. /\ start \in [Tasks -> StartType] /\ row \in [Tasks -> [status: Status, cause: Cause]]
        /\ start[t].token \in Nat
    BY DEF QueueTypeOK, RunTypeOK, StartType
  <1>1. CASE (\E x \in Procs : StartLock(t, x)) \/ StartRefused(t)
    BY <1>0, <1>1 DEF StartLock, StartRefused, Over, runVars
  <1>2. CASE StartCreate(t)
    BY <1>0, <1>2 DEF StartCreate, Over, Save, StartType
  <1>3. CASE StartEnqueue(t)
    <2>1. FreeIds # {} => Fresh(FirstEntry(t))
      BY <1>0, NewIdFresh, MaxRetryType DEF FirstEntry
    <2> QED
      BY <1>0, <1>3, <2>1 DEF StartEnqueue, Over, Save, Enqueue, FirstEntry
  <1> QED
    BY <1>1, <1>2, <1>3 DEF Starting, StartStep

\* A worker that is done with its entry, or puts it off, schedules another.
Successor(x, tm) ==
    /\ tm.entry.task = msg[x].task /\ tm.at = x /\ Fresh(tm.entry) /\ NeedsLock(tm.entry)
    /\ timers' = timers \cup {tm}

LEMMA WorkerEntry ==
    ASSUME QueueTypeOK, NEW x \in Procs, Handling(x)
    PROVE  /\ UNCHANGED <<stream, pending, msg, start, proc>>
           /\ run[x].pc \notin {"idle", "ack"} /\ run'[x].pc # "idle" /\ run'[x].task = run[x].task
           /\ \A y \in Procs \ {x} : run'[y] = run[y]
           /\ \/ /\ timers' = timers
                 /\ run[x].pc = "acquire" => run'[x].pc = "load"
                 /\ run[x].pc = "retry" => ~Retryable(msg[x])
              \/ /\ run[x].pc \in {"acquire", "retry"} /\ run'[x].pc = "ack"
                 /\ row' = row /\ \E tm \in Timer : Successor(x, tm)
  <1>0. run \in [Procs -> RunType] /\ (run[x].pc # "idle" => msg[x] \in Message /\ run[x].token \in Nat)
    BY BusyHasTask DEF QueueTypeOK, RunType
  <1>1. ASSUME NEW m \in Message, m = msg[x], NEW a \in 0..MaxRetry, a > 0, NEW k \in Nat,
               ScheduleRetry(x, m, a, k)
        PROVE  \E tm \in Timer : Successor(x, tm)
    <2> DEFINE e == [id |-> NewId, task |-> m.task, attempts |-> a, token |-> k]
               tm == [at |-> x, entry |-> e]
    <2>1. Fresh(e)
      BY <1>1, NewIdFresh DEF ScheduleRetry, Message
    <2>2. tm \in Timer /\ tm.at = x /\ tm.entry = e /\ e.task = m.task /\ NeedsLock(e)
      BY <1>1, <2>1 DEF Fresh, Timer, NeedsLock
    <2>3. timers' = timers \cup {tm}
      BY <1>1 DEF ScheduleRetry
    <2> HIDE DEF tm
    <2> QED
      BY <1>1, <2>1, <2>2, <2>3 DEF Successor
  <1>2. CASE AcquireExecutionLock(x)
    <2>1. run[x].pc = "acquire" /\ msg[x].attempts \in 0..MaxRetry /\ msg[x].token \in Nat
      BY <1>0, <1>2 DEF AcquireExecutionLock, Message
    <2>2. NeedsLock(msg[x]) => msg[x].attempts > 0
      BY DEF NeedsLock
    <2> QED
      BY <1>0, <1>1, <1>2, <2>1, <2>2 DEF AcquireExecutionLock, Goto, RunType
  <1>3. CASE RunStep(x)
    BY <1>0, <1>3 DEF RunStep, Load, Work, Persist, Finish, Release, Goto, Conclude, queueVars, RunType
  <1>4. CASE TaskFailedRead(x) \/ TaskFailedWrite(x)
    BY <1>0, <1>4 DEF TaskFailedRead, TaskFailedWrite, Goto, Conclude, queueVars, RunType
  <1>5. CASE RetryOrBury(x)
    <2>1. run[x].pc = "retry"
      BY <1>5 DEF RetryOrBury
    <2>2. Retryable(msg[x]) => NextAttempt(msg[x]) \in 0..MaxRetry /\ NextAttempt(msg[x]) > 0
      BY <1>0, <2>1, MaxRetryType DEF Retryable, NextAttempt, Message
    <2> QED
      BY <1>0, <1>1, <1>5, <2>1, <2>2 DEF RetryOrBury, Goto, RunType
  <1> QED
    BY <1>2, <1>3, <1>4, <1>5 DEF Handling

\* Taking an entry, and being done with it.
LEMMA TakeEntry ==
    ASSUME QueueTypeOK, NEW x \in Procs, NEW m \in Message, run[x].pc = "idle", Handle(x, m)
    PROVE  /\ msg[x] = NoMsg /\ msg'[x] = m /\ \A y \in Procs \ {x} : msg'[y] = msg[y]
           /\ run'[x] = [Idle EXCEPT !.pc = "acquire", !.task = m.task]
           /\ run'[x].pc = "acquire" /\ run'[x].task = m.task /\ run'[x].ctx = "live"
           /\ \A y \in Procs \ {x} : run'[y] = run[y]
  BY DEF Handle, QueueTypeOK, Matches, Idle

LEMMA ReadEntry ==
    ASSUME QueueTypeOK, NEW x \in Procs, Read(x)
    PROVE  /\ Head(stream) \in Message /\ run[x].pc = "idle" /\ Handle(x, Head(stream))
           /\ stream # <<>> /\ stream' = Tail(stream) /\ pending' = pending \cup {Head(stream)}
           /\ Head(stream) \in Elems(stream) /\ Elems(stream) = Elems(stream') \cup {Head(stream)}
           /\ UNCHANGED <<row, report, lock, nextToken, freed, cancelling, cancelled, faults>>
           /\ UNCHANGED <<timers, start, deadLetters, proc>>
  <1>1. stream \in Seq(Message) /\ stream # <<>>
    BY DEF Read, QueueTypeOK
  <1>2. Head(stream) \in Message /\ Head(stream) \in Elems(stream) /\ Elems(Tail(stream)) \subseteq Elems(stream)
    BY <1>1, HeadTail
  <1>3. ASSUME NEW e \in Elems(stream) PROVE e = Head(stream) \/ e \in Elems(Tail(stream))
    <2>1. PICK i \in 1..Len(stream) : e = stream[i]
      BY <1>1, <1>3 DEF Elems
    <2>2. CASE i = 1
      BY <1>1, <2>1, <2>2
    <2>3. CASE i # 1
      <3>1. /\ i - 1 \in 1..Len(Tail(stream)) /\ Tail(stream)[i - 1] = stream[(i - 1) + 1]
            /\ DOMAIN Tail(stream) = 1..Len(Tail(stream))
        BY <1>1, <2>1, <2>3
      <3>2. Tail(stream)[i - 1] = e /\ i - 1 \in DOMAIN Tail(stream)
        BY <2>1, <3>1
      <3> QED
        BY <3>2 DEF Elems
    <2> QED
      BY <2>2, <2>3
  <1> QED
    BY <1>1, <1>2, <1>3 DEF Read, WorkerIdle

LEMMA AckEntry ==
    ASSUME QueueTypeOK, NEW x \in Procs, Ack(x)
    PROVE  /\ run[x].pc = "ack" /\ msg[x] \in Message /\ msg'[x] = NoMsg /\ run'[x] = Idle
           /\ \A y \in Procs \ {x} : msg'[y] = msg[y] /\ run'[y] = run[y]
           /\ pending' \subseteq pending
           /\ proc[x] = "up" /\ ~Disturb("unacked") => pending' = {m \in pending : m.id # msg[x].id}
           /\ UNCHANGED <<row, report, lock, nextToken, freed, cancelling, cancelled>>
           /\ UNCHANGED <<stream, timers, start, deadLetters, proc>>
  <1>1. run[x].pc = "ack" /\ msg[x] \in Message
    BY BusyHasTask DEF Ack
  <1> QED
    BY <1>1 DEF Ack, QueueTypeOK, Unreached

LEMMA FireEntry ==
    ASSUME QueueTypeOK, NEW tm \in timers, FireTimer(tm)
    PROVE  /\ timers' = timers \ {tm} /\ tm.entry \in Message
           /\ \/ stream' = stream /\ Disturb("redis")
              \/ stream' = Append(stream, tm.entry) /\ Elems(stream') = Elems(stream) \cup {tm.entry}
           /\ UNCHANGED <<row, report, lock, nextToken, freed, run, cancelling, cancelled>>
           /\ UNCHANGED <<pending, msg, start, deadLetters, proc>>
  <1>1. tm.entry \in Message /\ stream \in Seq(Message)
    BY DEF QueueTypeOK, Timer
  <1>2. Elems(Append(stream, tm.entry)) = Elems(stream) \cup {tm.entry}
    BY <1>1, AppendElems
  <1> QED
    BY <1>1, <1>2 DEF FireTimer, Enqueue

\* Steps that leave the entries alone, and the workers where they are.
Context ==
    \/ \E t \in Tasks : Cancel(t)
    \/ \E x \in Procs : Timeout(x) /\ UNCHANGED queueVars
    \/ \E p \in Pods : ExpireLease(p)
    \/ UNCHANGED vars

LEMMA ContextStep ==
    ASSUME QueueTypeOK, Context
    PROVE  /\ UNCHANGED queueVars
           /\ \A y \in Procs : /\ run'[y].pc = run[y].pc /\ run'[y].task = run[y].task
                               /\ run'[y].token = run[y].token /\ run'[y].out = run[y].out
  <1>0. run \in [Procs -> RunType]
    BY DEF QueueTypeOK
  <1>1. ASSUME NEW t \in Tasks, Cancel(t)
        PROVE  /\ UNCHANGED queueVars
               /\ \A y \in Procs : /\ run'[y].pc = run[y].pc /\ run'[y].task = run[y].task
                                   /\ run'[y].token = run[y].token /\ run'[y].out = run[y].out
    <2>1. ASSUME NEW x \in Procs, CancelSignal(t, {x})
          PROVE  \A y \in Procs : /\ run'[y].pc = run[y].pc /\ run'[y].task = run[y].task
                                 /\ run'[y].token = run[y].token /\ run'[y].out = run[y].out
      BY <1>0, <2>1 DEF CancelSignal, RunType
    <2>2. CASE CancelRead(t) \/ CancelWrite(t)
      BY <1>1, <2>2 DEF Cancel, CancelRead, CancelWrite
    <2> QED
      BY <1>1, <2>1, <2>2 DEF Cancel
  <1>2. ASSUME NEW x \in Procs, Timeout(x), UNCHANGED queueVars
        PROVE  \A y \in Procs : /\ run'[y].pc = run[y].pc /\ run'[y].task = run[y].task
                               /\ run'[y].token = run[y].token /\ run'[y].out = run[y].out
    BY <1>0, <1>2 DEF Timeout, RunType
  <1>3. ASSUME NEW p \in Pods, ExpireLease(p) PROVE run' = run /\ UNCHANGED queueVars
    BY <1>3 DEF ExpireLease, Expire
  <1>4. CASE UNCHANGED vars
    BY <1>4 DEF vars, runVars
  <1> QED
    BY <1>1, <1>2, <1>3, <1>4 DEF Context

\* A new entry has an id of its own, so an id names one entry.
Named == \A m, n \in Entries : m.id = n.id => m = n

\* Without crashes and drains the processes are up, and an entry is of a task
\* whose start handler has returned.
Calm == Spared({"crash", "drain"})
Upright == Calm => \A x \in Procs : proc[x] = "up"

\* The steps of a system whose processes stay up.
LEMMA CalmNext ==
    ASSUME QueueTypeOK, Upright, [Next]_vars, Calm'
    PROVE  /\ Calm /\ (\A x \in Procs : proc[x] = "up") /\ proc' = proc
           /\ \/ \E t \in Tasks : Starting(t)
              \/ \E x \in Procs : Read(x) \/ ClaimAny(x) \/ Handling(x) \/ Ack(x)
              \/ \E tm \in timers : FireTimer(tm)
              \/ Context
  <1>1. Calm /\ ~Disturb("crash") /\ ~Disturb("drain")
    BY SparedBefore DEF Calm
  <1>2. \A x \in Procs : proc[x] = "up" /\ ~(Drain(x) \/ Crash(x) \/ Exit(x) \/ Restart(x))
    BY <1>1 DEF Upright, Drain, Crash, Exit, Restart
  <1>3. \/ \E t \in Tasks : Starting(t)
        \/ \E x \in Procs : Read(x) \/ ClaimAny(x) \/ Handling(x) \/ Ack(x)
        \/ \E tm \in timers : FireTimer(tm)
        \/ Context
    BY <1>2 DEF Next, WorkerStep, Starting, Handling, Context, Poll
  <1>4. ASSUME NEW x \in Procs, Read(x) \/ ClaimAny(x) \/ Ack(x) PROVE proc' = proc
    BY <1>4 DEF Read, ClaimAny, Claim, Ack
  <1>5. ASSUME NEW tm \in timers, FireTimer(tm) PROVE proc' = proc
    BY <1>5 DEF FireTimer
  <1>6. proc' = proc
    BY <1>3, <1>4, <1>5, StartEntry, WorkerEntry, ContextStep DEF queueVars
  <1> QED
    BY <1>1, <1>2, <1>3, <1>6

LEMMA UprightNext == QueueTypeOK /\ Upright /\ [Next]_vars => Upright'
  BY CalmNext DEF Upright

\* Every step of the queue moves entries, forgets some, or adds one.
LEMMA EntryStep ==
    ASSUME QueueTypeOK, [Next]_vars
    PROVE  Entries' \subseteq Entries \/ \E m \in Message : Adds(m)
  <1> DEFINE Grown == Entries' \subseteq Entries \/ \E m \in Message : Adds(m)
  <1>0. stream \in Seq(Message)
    BY DEF QueueTypeOK
  <1>1. ASSUME NEW t \in Tasks, Starting(t) PROVE Grown
    <2>1. CASE stream' = stream
      BY <1>1, <2>1, StartEntry, EntriesSame
    <2>2. CASE Fresh(FirstEntry(t)) /\ stream' = Append(stream, FirstEntry(t))
      <3>1. Elems(stream') = Elems(stream) \cup {FirstEntry(t)} /\ FirstEntry(t) \in Message
        BY <1>0, <2>2, AppendElems DEF Fresh
      <3>2. UNCHANGED <<pending, timers, msg>>
        BY <1>1, StartEntry
      <3>3. Entries' \subseteq Entries \cup {FirstEntry(t)}
        BY <3>1, <3>2 DEF Entries
      <3> QED
        BY <2>2, <3>1, <3>3 DEF Adds
    <2> QED
      BY <1>1, <2>1, <2>2, StartEntry
  <1>2. ASSUME NEW x \in Procs, Handling(x) PROVE Grown
    <2>1. CASE timers' = timers
      BY <1>2, <2>1, WorkerEntry, EntriesSame
    <2>2. ASSUME NEW tm \in Timer, Successor(x, tm) PROVE Grown
      <3>1. UNCHANGED <<stream, pending, msg>>
        BY <1>2, WorkerEntry
      <3>2. Entries' \subseteq Entries \cup {tm.entry}
        BY <2>2, <3>1 DEF Entries, Successor, Elems
      <3> QED
        BY <2>2, <3>2 DEF Adds, Successor, Fresh
    <2> QED
      BY <1>2, <2>1, <2>2, WorkerEntry
  <1>3. ASSUME NEW x \in Procs, Read(x) PROVE Grown
    <2>1. /\ Head(stream) \in Message /\ Handle(x, Head(stream)) /\ run[x].pc = "idle" /\ timers' = timers
          /\ pending' = pending \cup {Head(stream)}
          /\ Elems(stream) = Elems(stream') \cup {Head(stream)}
      BY <1>3, ReadEntry
    <2>2. msg'[x] = Head(stream) /\ \A y \in Procs \ {x} : msg'[y] = msg[y]
      BY <2>1, TakeEntry
    <2> QED
      BY <2>1, <2>2 DEF Entries
  <1>4. ASSUME NEW x \in Procs, ClaimAny(x) PROVE Grown
    <2>1. PICK m \in pending : Claim(x, m)
      BY <1>4 DEF ClaimAny
    <2>2. m \in Message /\ run[x].pc = "idle" /\ Handle(x, m) /\ UNCHANGED <<stream, pending, timers>>
      BY <2>1 DEF Claim, WorkerIdle, QueueTypeOK
    <2>3. msg'[x] = m /\ \A y \in Procs \ {x} : msg'[y] = msg[y]
      BY <2>2, TakeEntry
    <2> QED
      BY <2>1, <2>2, <2>3 DEF Entries, Elems
  <1>5. ASSUME NEW x \in Procs, Ack(x) PROVE Grown
    BY <1>5, AckEntry DEF Entries, Elems
  <1>6. ASSUME NEW tm \in timers, FireTimer(tm) PROVE Grown
    <2>1. Elems(stream') \subseteq Elems(stream) \cup {tm.entry} /\ timers' = timers \ {tm}
          /\ UNCHANGED <<pending, msg>>
      BY <1>6, FireEntry DEF Elems
    <2> QED
      BY <2>1 DEF Entries
  <1>7. ASSUME NEW x \in Procs, Drain(x) \/ Crash(x) \/ Exit(x) \/ Restart(x) PROVE Grown
    <2>1. /\ UNCHANGED <<stream, pending>> /\ timers' \subseteq timers
          /\ \A y \in Procs : msg'[y] = msg[y] \/ msg'[y] = NoMsg
      BY <1>7 DEF Drain, Crash, Exit, Stop, Restart, QueueTypeOK
    <2> QED
      BY <2>1 DEF Entries, Elems
  <1>8. CASE Context
    BY <1>8, ContextStep, EntriesSame DEF queueVars
  <1> QED
    BY <1>1, <1>2, <1>3, <1>4, <1>5, <1>6, <1>7, <1>8
    DEF Next, WorkerStep, Starting, Handling, Context, Poll

LEMMA NamedNext == QueueTypeOK /\ Named /\ [Next]_vars => Named'
  <1> SUFFICES ASSUME QueueTypeOK, Named, [Next]_vars PROVE Named'
    OBVIOUS
  <1>1. CASE Entries' \subseteq Entries
    BY <1>1 DEF Named
  <1>2. ASSUME NEW m \in Message, Adds(m) PROVE Named'
    BY <1>2 DEF Named, Adds, Fresh
  <1> QED
    BY <1>1, <1>2, EntryStep

-----------------------------------------------------------------------------
(* Who answers for a running row.                                          *)

\* A worker that will settle the row of its task, or find somebody who does:
\* unless its run was cancelled, which leaves the row to CancelTask.
Tending(x) == \/ run[x].pc = "retry"
              \/ run[x].pc \in {"acquire", "load", "work", "persist", "finish"} /\ run[x].ctx = "live"
Steward(t) == \/ \E m \in Waiting : m.task = t
              \/ \E x \in Procs : run[x].task = t /\ Tending(x)
Owner(t) == start[t].pc = "created" \/ cancelling[t] # "no" \/ t \in deadLetters \/ Steward(t)

Undisturbed == Spared({"crash", "drain", "timeout", "db", "unread", "redis"})
OwnerInv == Undisturbed => \A t \in Tasks : row[t].status = "running" => Owner(t)

\* What waits after a step that puts an entry somewhere.
LEMMA WaitingKept ==
    ASSUME QueueTypeOK
    PROVE  /\ \A m \in Message : stream' = Append(stream, m) /\ timers' = timers =>
                   Waiting' = Waiting \cup {m}
           /\ \A tm \in Timer : stream' = stream /\ timers' = timers \cup {tm} =>
                   Waiting' = Waiting \cup {tm.entry}
           /\ stream' = stream /\ timers' = timers => Waiting' = Waiting
  <1>1. stream \in Seq(Message)
    BY DEF QueueTypeOK
  <1>2. ASSUME NEW m \in Message, stream' = Append(stream, m), timers' = timers
        PROVE  Waiting' = Waiting \cup {m}
    <2>1. Elems(stream') = Elems(stream) \cup {m}
      BY <1>1, <1>2, AppendElems
    <2> QED
      BY <1>2, <2>1 DEF Waiting
  <1>3. ASSUME NEW tm \in Timer, stream' = stream, timers' = timers \cup {tm}
        PROVE  Waiting' = Waiting \cup {tm.entry}
    BY <1>3 DEF Waiting, Elems
  <1> QED
    BY <1>2, <1>3 DEF Waiting, Elems

LEMMA OwnerStart ==
    ASSUME QueueTypeOK, NEW u \in Tasks, Starting(u), ~Disturb("db"), ~Disturb("redis"),
           NEW t \in Tasks, row'[t].status = "running", row[t].status = "running" => Owner(t)
    PROVE  Owner(t)'
  <1>0. row \in [Tasks -> [status: Status, cause: Cause]] /\ start \in [Tasks -> StartType]
    BY DEF QueueTypeOK, RunTypeOK
  <1>1. /\ UNCHANGED <<timers, run, cancelling, deadLetters>>
        /\ \/ stream' = stream
           \/ /\ start[u].pc = "created" /\ row' = row /\ FirstEntry(u) \in Message
              /\ stream' = Append(stream, FirstEntry(u))
    <2>1. UNCHANGED <<timers, run, cancelling, deadLetters>>
      BY StartEntry
    <2> QED
      BY <2>1, StartEntry DEF Fresh
  <1>2. Waiting \subseteq Waiting' /\ (stream' # stream => FirstEntry(u) \in Waiting')
    BY <1>1, WaitingKept
  <1>3. Steward(t) => Steward(t)'
    BY <1>1, <1>2 DEF Steward, Tending
  <1>4. CASE t # u
    <2>1. row'[t] = row[t] /\ start'[t] = start[t]
      BY <1>4, StartEntry
    <2> QED
      BY <1>1, <1>3, <2>1 DEF Owner
  <1>5. CASE t = u /\ stream' # stream
    <2>1. FirstEntry(u).task = t
      BY <1>5 DEF FirstEntry
    <2> QED
      BY <1>2, <1>5, <2>1 DEF Owner, Steward
  <1>6. CASE t = u /\ stream' = stream
    <2>1. ~StartEnqueue(u)
      <3>1. Append(stream, FirstEntry(u)) # stream
        <4>1. stream \in Seq(Message)
          BY DEF QueueTypeOK
        <4> QED
          BY <4>1
      <3> QED
        BY <1>6, <3>1 DEF StartEnqueue, Enqueue, FirstEntry
    <2>2. CASE StartCreate(u)
      BY <1>0, <1>6, <2>2 DEF StartCreate, Owner, StartType
    <2>3. CASE (\E x \in Procs : StartLock(u, x)) \/ StartRefused(u)
      <3>1. row' = row /\ start[u].pc = "no"
        BY <2>3 DEF StartLock, StartRefused, runVars
      <3> QED
        BY <1>1, <1>3, <1>6, <3>1 DEF Owner
    <2> QED
      BY <2>1, <2>2, <2>3 DEF Starting, StartStep
  <1> QED
    BY <1>4, <1>5, <1>6

LEMMA OwnerHandle ==
    ASSUME QueueTypeOK, NEW y \in Procs, Handling(y), proc[y] = "up", ~Disturb("db"), ~Disturb("unread"),
           NEW t \in Tasks, row'[t].status = "running", row[t].status = "running" => Owner(t)
    PROVE  Owner(t)'
  <1>0. /\ run \in [Procs -> RunType] /\ row \in [Tasks -> [status: Status, cause: Cause]]
        /\ run[y].pc # "idle" /\ run[y].task = msg[y].task /\ run[y].task \in Tasks
    BY WorkerEntry, BusyHasTask DEF QueueTypeOK, RunTypeOK
  <1>1. /\ UNCHANGED <<stream, start>> /\ run'[y].task = run[y].task
        /\ \A z \in Procs \ {y} : run'[z] = run[z]
        /\ timers' = timers \/ \E tm \in Timer : Successor(y, tm)
    BY WorkerEntry
  <1>2. cancelling' = cancelling /\ deadLetters \subseteq deadLetters'
    BY DEF Handling, AcquireExecutionLock, RunStep, Load, Work, Persist, Finish, Release,
           TaskFailedRead, TaskFailedWrite, RetryOrBury, Bury, queueVars
  <1>3. Waiting \subseteq Waiting'
    BY <1>1, WaitingKept DEF Successor
  <1>4. ASSUME NEW tm \in Timer, Successor(y, tm), run[y].task = t PROVE Steward(t)'
    <2>1. tm.entry \in Waiting' /\ tm.entry.task = t
      BY <1>0, <1>1, <1>4, WaitingKept DEF Successor
    <2> QED
      BY <2>1 DEF Steward
  <1>5. CASE run[y].task # t
    <2>1. Steward(t) => Steward(t)'
      BY <1>1, <1>3, <1>5 DEF Steward, Tending
    <2>2. row'[t] = row[t]
      BY <1>0, <1>5 DEF Handling, AcquireExecutionLock, RunStep, Load, Work, Persist, Finish,
           Release, TaskFailedRead, TaskFailedWrite, RetryOrBury, Save
    <2> QED
      BY <1>1, <1>2, <2>1, <2>2 DEF Owner
  <1>6. ASSUME run[y].task = t, row[t].status = "running", Tending(y) => Tending(y)' \/ Owner(t)'
        PROVE  Owner(t)'
    <2>1. Steward(t) => Steward(t)' \/ Owner(t)'
      BY <1>1, <1>3, <1>6 DEF Steward, Tending
    <2> QED
      BY <1>1, <1>2, <1>6, <2>1 DEF Owner
  <1>7. CASE run[y].task = t /\ AcquireExecutionLock(y)
    <2>1. row' = row
      BY <1>7 DEF AcquireExecutionLock
    <2>2. CASE timers' = timers
      <3>1. run[y].pc = "acquire"
        BY <1>7 DEF AcquireExecutionLock
      <3>2. run'[y].pc = "load" \/ \E tm \in Timer : Successor(y, tm)
        BY <3>1, WorkerEntry
      <3>3. run'[y].ctx = run[y].ctx
        BY <1>0, <1>7 DEF AcquireExecutionLock, Goto, RunType
      <3>4. CASE run'[y].pc = "load"
        <4>1. Tending(y) => Tending(y)'
          BY <3>1, <3>3, <3>4 DEF Tending
        <4> QED
          BY <1>6, <1>7, <2>1, <4>1
      <3> QED
        BY <1>4, <1>7, <3>2, <3>4 DEF Owner
    <2> QED
      BY <1>1, <1>4, <1>7, <2>2 DEF Owner
  <1>8. CASE run[y].task = t /\ RunStep(y)
    <2>1. CASE Load(y) \/ Work(y) \/ Persist(y) \/ Release(y, "check")
      <3>1. row' = row /\ (Tending(y) => Tending(y)')
        BY <1>0, <2>1 DEF Load, Work, Persist, Release, Goto, Conclude, Tending, RunType, Served, Fails
      <3> QED
        BY <1>6, <1>8, <3>1
    <2>2. CASE Finish(y)
      <3>1. run[y].ctx # "live" /\ row' = row
        BY <1>0, <1>8, <2>2 DEF Finish, Save, FinalStatus, Served, Fails
      <3>2. ~Tending(y)
        BY <2>2, <3>1 DEF Finish, Tending
      <3> QED
        BY <1>6, <1>8, <3>1, <3>2
    <2> QED
      BY <1>8, <2>1, <2>2 DEF RunStep
  <1>9. CASE run[y].task = t /\ TaskFailedRead(y)
    <2>1. row' = row /\ ~Tending(y)
      BY <1>9 DEF TaskFailedRead, Tending
    <2> QED
      BY <1>6, <1>9, <2>1
  <1>10. CASE run[y].task = t /\ TaskFailedWrite(y)
    <2>1. run'[y].pc = "retry"
      BY <1>0, <1>10 DEF TaskFailedWrite, Goto, RunType
    <2> QED
      BY <1>1, <1>10, <2>1 DEF Owner, Steward, Tending
  <1>11. CASE run[y].task = t /\ RetryOrBury(y)
    <2>1. CASE timers' = timers
      <3>1. run[y].pc = "retry"
        BY <1>11 DEF RetryOrBury
      <3>2. ~Retryable(msg[y]) \/ \E tm \in Timer : Successor(y, tm)
        BY <3>1, WorkerEntry
      <3>3. ~Retryable(msg[y]) => t \in deadLetters'
        BY <1>0, <1>11 DEF RetryOrBury, Bury, Unreached
      <3> QED
        BY <1>4, <1>11, <3>2, <3>3 DEF Owner
    <2> QED
      BY <1>1, <1>4, <1>11, <2>1 DEF Owner
  <1> QED
    BY <1>5, <1>7, <1>8, <1>9, <1>10, <1>11 DEF Handling

LEMMA OwnerContext ==
    ASSUME QueueTypeOK, Context, ~Disturb("timeout"), ~Disturb("db"), Upright, Calm,
           NEW t \in Tasks, row'[t].status = "running", row[t].status = "running" => Owner(t)
    PROVE  Owner(t)'
  <1>0. /\ run \in [Procs -> RunType] /\ row \in [Tasks -> [status: Status, cause: Cause]]
        /\ cancelling \in [Tasks -> {"no", "read", "signalled"}]
    BY DEF QueueTypeOK, RunTypeOK
  <1>1. UNCHANGED <<stream, timers, start, deadLetters>> /\ Waiting' = Waiting
    BY ContextStep, EntriesSame DEF queueVars
  <1>2. ASSUME row'[t] = row[t], cancelling'[t] = cancelling[t] \/ cancelling'[t] # "no",
               \A x \in Procs : run[x].task = t /\ Tending(x) => run'[x] = run[x] \/ cancelling'[t] # "no"
        PROVE  Owner(t)'
    <2>1. Steward(t) => Steward(t)' \/ cancelling'[t] # "no"
      BY <1>1, <1>2 DEF Steward, Tending
    <2> QED
      BY <1>1, <1>2, <2>1 DEF Owner
  <1>3. ASSUME NEW u \in Tasks, Cancel(u) PROVE Owner(t)'
    <2>1. CASE CancelRead(u)
      BY <1>0, <1>2, <2>1 DEF CancelRead
    <2>2. ASSUME NEW x \in Procs, CancelSignal(u, {x}) PROVE Owner(t)'
      <3>1. row' = row /\ cancelling'[t] \in {cancelling[t], "signalled"}
        BY <1>0, <2>2 DEF CancelSignal
      <3>2. t = u => cancelling'[t] = "signalled"
        BY <1>0, <2>2 DEF CancelSignal
      <3>3. t # u => \A z \in Procs : run[z].task = t => run'[z] = run[z]
        BY <1>0, <2>2 DEF CancelSignal
      <3> QED
        BY <1>2, <3>1, <3>2, <3>3
    <2>3. CASE CancelWrite(u)
      <3>1. t # u
        BY <1>0, <2>3 DEF CancelWrite, Save
      <3>2. row'[t] = row[t] /\ cancelling'[t] = cancelling[t] /\ run' = run
        BY <1>0, <2>3, <3>1 DEF CancelWrite, Save
      <3> QED
        BY <1>2, <3>2
    <2> QED
      BY <1>3, <2>1, <2>2, <2>3 DEF Cancel
  <1>4. ASSUME NEW x \in Procs, Timeout(x) PROVE FALSE
    BY <1>4 DEF Timeout
  <1>5. ASSUME NEW p \in Pods, ExpireLease(p) PROVE Owner(t)'
    BY <1>2, <1>5 DEF ExpireLease, Expire
  <1>6. CASE UNCHANGED vars
    BY <1>2, <1>6 DEF vars, runVars
  <1> QED
    BY <1>3, <1>4, <1>5, <1>6 DEF Context

\* Reading, claiming and acknowledging entries, and putting them back.
LEMMA OwnerMove ==
    ASSUME QueueTypeOK, ~Disturb("redis"),
           \/ \E x \in Procs : Read(x) \/ ClaimAny(x) \/ Ack(x)
           \/ \E tm \in timers : FireTimer(tm),
           NEW t \in Tasks, row'[t].status = "running", row[t].status = "running" => Owner(t)
    PROVE  Owner(t)'
  <1>1. ASSUME UNCHANGED <<row, start, cancelling, deadLetters>>, Steward(t) => Steward(t)' PROVE Owner(t)'
    BY <1>1 DEF Owner
  <1>2. ASSUME NEW x \in Procs, Read(x) PROVE Owner(t)'
    <2>1. /\ Head(stream) \in Message /\ run[x].pc = "idle" /\ Handle(x, Head(stream))
          /\ Elems(stream) = Elems(stream') \cup {Head(stream)} /\ timers' = timers
          /\ UNCHANGED <<row, start, cancelling, deadLetters>>
      BY <1>2, ReadEntry
    <2>2. /\ run'[x].pc = "acquire" /\ run'[x].task = Head(stream).task /\ run'[x].ctx = "live"
          /\ \A y \in Procs \ {x} : run'[y] = run[y]
      BY <2>1, TakeEntry
    <2>3. \A m \in Waiting : m \in Waiting' \/ m = Head(stream)
      BY <2>1 DEF Waiting
    <2>4. Steward(t) => Steward(t)'
      BY <2>1, <2>2, <2>3 DEF Steward, Tending
    <2> QED
      BY <1>1, <2>1, <2>4
  <1>3. ASSUME NEW x \in Procs, ClaimAny(x) PROVE Owner(t)'
    <2>1. PICK m \in pending : Claim(x, m)
      BY <1>3 DEF ClaimAny
    <2>2. /\ m \in Message /\ run[x].pc = "idle" /\ Handle(x, m)
          /\ UNCHANGED <<stream, timers, row, start, cancelling, deadLetters>>
      BY <2>1 DEF Claim, WorkerIdle, QueueTypeOK
    <2>3. \A y \in Procs \ {x} : run'[y] = run[y]
      BY <2>2, TakeEntry
    <2>4. Steward(t) => Steward(t)'
      BY <2>2, <2>3 DEF Steward, Tending, Waiting, Elems
    <2> QED
      BY <1>1, <2>2, <2>4
  <1>4. ASSUME NEW x \in Procs, Ack(x) PROVE Owner(t)'
    <2>1. run[x].pc = "ack" /\ (\A y \in Procs \ {x} : run'[y] = run[y]) /\ UNCHANGED <<stream, timers>>
          /\ UNCHANGED <<row, start, cancelling, deadLetters>>
      BY <1>4, AckEntry
    <2>2. Steward(t) => Steward(t)'
      BY <2>1 DEF Steward, Tending, Waiting, Elems
    <2> QED
      BY <1>1, <2>1, <2>2
  <1>5. ASSUME NEW tm \in timers, FireTimer(tm) PROVE Owner(t)'
    <2>1. /\ timers' = timers \ {tm} /\ Elems(stream') = Elems(stream) \cup {tm.entry}
          /\ UNCHANGED <<run, row, start, cancelling, deadLetters>>
      BY <1>5, FireEntry
    <2>2. Waiting \subseteq Waiting'
      BY <2>1 DEF Waiting
    <2>3. Steward(t) => Steward(t)'
      BY <2>1, <2>2 DEF Steward, Tending
    <2> QED
      BY <1>1, <2>1, <2>3
  <1> QED
    BY <1>2, <1>3, <1>4, <1>5

LEMMA OwnerInit == Init => Upright /\ Named /\ OwnerInv
  <1> SUFFICES ASSUME Init PROVE Upright /\ Named /\ OwnerInv
    OBVIOUS
  <1>1. Entries = {}
    BY DEF Init, Entries, Elems
  <1>2. \A t \in Tasks : row[t].status = "absent"
    BY DEF Init, RunInit
  <1> QED
    BY <1>1, <1>2 DEF Init, Upright, Named, OwnerInv

LEMMA OwnerNext == QueueTypeOK /\ Upright /\ OwnerInv /\ [Next]_vars => OwnerInv'
  <1> SUFFICES ASSUME QueueTypeOK, Upright, OwnerInv, [Next]_vars, Undisturbed',
                      NEW t \in Tasks, row'[t].status = "running"
               PROVE  Owner(t)'
    BY DEF OwnerInv
  <1>1. Undisturbed /\ ~Disturb("db") /\ ~Disturb("unread") /\ ~Disturb("redis")
        /\ ~Disturb("timeout")
    BY SparedBefore DEF Undisturbed
  <1>2. Calm'
    BY DEF Calm, Undisturbed, Spared
  <1>3. row[t].status = "running" => Owner(t)
    BY <1>1 DEF OwnerInv
  <1>4. /\ Calm /\ (\A x \in Procs : proc[x] = "up")
        /\ \/ \E u \in Tasks : Starting(u)
           \/ \E x \in Procs : Read(x) \/ ClaimAny(x) \/ Handling(x) \/ Ack(x)
           \/ \E tm \in timers : FireTimer(tm)
           \/ Context
    BY <1>2, CalmNext
  <1> QED
    BY <1>1, <1>3, <1>4, OwnerStart, OwnerHandle, OwnerContext, OwnerMove

LEMMA OwnerHasEntry == QueueTypeOK /\ OwnerInv => RunningHasOwner
  <1> SUFFICES ASSUME QueueTypeOK, OwnerInv, Undisturbed, NEW t \in Tasks, row[t].status = "running",
                      Steward(t)
               PROVE  \E m \in Entries : m.task = t
    BY DEF OwnerInv, Owner, RunningHasOwner, Undisturbed
  <1>1. ASSUME NEW x \in Procs, run[x].task = t, Tending(x) PROVE msg[x] \in Entries /\ msg[x].task = t
    BY <1>1, EntryPlaces, BusyHasTask DEF Tending
  <1> QED
    BY <1>1, EntryPlaces DEF Steward

\* A row that says running has somebody who will settle it: the handler that
\* created it, a CancelTask call, an entry of the queue (which no worker
\* acknowledges before the row is settled or another entry exists), or the
\* operator who reads the dead letters.
THEOREM OwnerSafe == Spec => []RunningHasOwner
  <1>1. QueueTypeOK /\ Upright /\ OwnerInv /\ [Next]_vars => (Upright /\ OwnerInv)'
    BY UprightNext, OwnerNext
  <1>2. Spec => [](Upright /\ OwnerInv)
    BY OwnerInit, <1>1, TypeCorrect, PTL DEF Spec
  <1> QED
    BY <1>2, OwnerHasEntry, TypeCorrect, PTL

-----------------------------------------------------------------------------
(* One entry per task.                                                     *)

\* Nothing is delivered twice.
Quiet == Spared(Redelivery)

Once(s) == \A i, j \in DOMAIN s : s[i] = s[j] => i = j
Timed   == {tm.entry : tm \in timers}

\* An entry is at one place, and one worker handles it; what has been delivered
\* is in somebody's hands.
Placed ==
    /\ Once(stream)
    /\ \A tm, tn \in timers : tm.entry = tn.entry => tm = tn
    /\ \A x, y \in Procs : msg[x] = msg[y] /\ msg[x] # NoMsg => x = y
    /\ Elems(stream) \cap Timed = {}
    /\ Elems(stream) \cap InHand = {}
    /\ Timed \cap InHand = {}
    /\ pending = InHand

\* A task has one live entry, and none before its handler has made one.
Single ==
    \A t \in Tasks : /\ \A m, n \in Live(t) : m = n
                     /\ start[t].pc \in {"no", "locked", "created"} => \A m \in Entries : m.task # t

SingleInv == Quiet => Placed /\ Single

LEMMA TailOnce ==
    ASSUME NEW S, NEW s \in Seq(S), s # <<>>, Once(s)
    PROVE  Once(Tail(s)) /\ Head(s) \notin Elems(Tail(s))
  <1>1. /\ Len(s) \in Nat /\ Len(s) >= 1 /\ DOMAIN s = 1..Len(s) /\ Head(s) = s[1]
        /\ Len(Tail(s)) = Len(s) - 1 /\ DOMAIN Tail(s) = 1..(Len(s) - 1)
    OBVIOUS
  <1>2. \A i \in DOMAIN Tail(s) : i \in Int /\ Tail(s)[i] = s[i + 1] /\ i + 1 \in DOMAIN s /\ i + 1 # 1
    BY <1>1
  <1>3. Once(Tail(s))
    <2> SUFFICES ASSUME NEW i \in DOMAIN Tail(s), NEW j \in DOMAIN Tail(s), Tail(s)[i] = Tail(s)[j]
                 PROVE  i = j
      BY DEF Once
    <2>1. i + 1 = j + 1
      BY <1>2 DEF Once
    <2> QED
      BY <1>2, <2>1
  <1>4. \A i \in DOMAIN Tail(s) : Tail(s)[i] # s[1]
    BY <1>1, <1>2 DEF Once
  <1> QED
    BY <1>1, <1>3, <1>4 DEF Elems

LEMMA AppendOnce ==
    ASSUME NEW S, NEW s \in Seq(S), NEW e \in S, Once(s), e \notin Elems(s)
    PROVE  Once(Append(s, e))
  <1>1. Len(s) \in Nat /\ DOMAIN s = 1..Len(s) /\ DOMAIN Append(s, e) = 1..(Len(s) + 1)
    OBVIOUS
  <1>2. Append(s, e)[Len(s) + 1] = e /\ \A i \in 1..Len(s) : Append(s, e)[i] = s[i]
    OBVIOUS
  <1>3. \A i \in 1..Len(s) : s[i] # e
    BY <1>1 DEF Elems
  <1> QED
    BY <1>1, <1>2, <1>3 DEF Once

\* The steps of a quiet system.
LEMMA QuietNext ==
    ASSUME QueueTypeOK, Upright, SingleInv, [Next]_vars, Quiet'
    PROVE  /\ Quiet /\ Placed /\ Single /\ Calm' /\ ~Disturb("slow") /\ ~Disturb("unacked")
           /\ \/ \E t \in Tasks : Starting(t)
              \/ \E x \in Procs : Read(x) \/ Handling(x) \/ (Ack(x) /\ proc[x] = "up")
              \/ \E tm \in timers : FireTimer(tm)
              \/ Context
  <1>1. Quiet /\ ~Disturb("slow") /\ ~Disturb("unacked") /\ Calm'
    <2>1. Quiet /\ ~Disturb("slow") /\ ~Disturb("unacked")
      BY SparedBefore DEF Quiet, Redelivery
    <2> QED
      BY <2>1 DEF Calm, Quiet, Spared, Redelivery
  <1>2. Placed /\ Single
    BY <1>1 DEF SingleInv
  <1>3. ASSUME NEW x \in Procs, ClaimAny(x) PROVE FALSE
    <2>1. PICK m \in pending : Claim(x, m)
      BY <1>3 DEF ClaimAny
    <2>2. m \in InHand
      BY <1>2 DEF Placed
    <2>3. Handled(m)
      BY <2>2 DEF Handled, InHand
    <2> QED
      BY <1>1, <2>1, <2>3 DEF Claim
  <1> QED
    BY <1>1, <1>2, <1>3, CalmNext

LEMMA SingleStart ==
    ASSUME QueueTypeOK, Placed, Single, NEW t \in Tasks, Starting(t)
    PROVE  Placed' /\ Single'
  <1>0. stream \in Seq(Message) /\ UNCHANGED <<pending, timers, msg, run>>
    BY StartEntry DEF QueueTypeOK
  <1>1. InHand' = InHand /\ Timed' = Timed
    BY <1>0 DEF InHand, Timed
  <1>2. \A m : Superseded(m)' <=> Superseded(m)
    BY <1>0 DEF Superseded
  <1>3. CASE stream' = stream /\ start'[t].pc # "accepted"
    <2>1. Entries' = Entries
      BY <1>0, <1>3, EntriesSame
    <2>2. Placed'
      BY <1>0, <1>1, <1>3 DEF Placed, Once, Elems
    <2>3. \A u \in Tasks : start'[u].pc \in {"no", "locked", "created"} =>
                               start[u].pc \in {"no", "locked", "created"}
      BY StartEntry
    <2> QED
      BY <1>2, <2>1, <2>2, <2>3 DEF Single, Live
  <1>4. CASE /\ start[t].pc = "created" /\ start'[t].pc = "accepted"
             /\ Fresh(FirstEntry(t)) /\ stream' = Append(stream, FirstEntry(t))
    <2> DEFINE e == FirstEntry(t)
    <2>1. e \in Message /\ e.task = t /\ e \notin Entries
      BY <1>4 DEF Fresh, FirstEntry
    <2>2. Elems(stream') = Elems(stream) \cup {e} /\ Once(stream')
      <3>1. e \notin Elems(stream)
        BY <2>1 DEF Entries
      <3> QED
        BY <1>0, <1>4, <2>1, <3>1, AppendElems, AppendOnce DEF Placed
    <2>3. Entries' = Entries \cup {e} /\ e \notin InHand /\ e \notin Timed
      BY <1>0, <2>1, <2>2 DEF Entries, InHand, Timed
    <2>4. Placed'
      BY <1>0, <1>1, <2>2, <2>3 DEF Placed
    <2>5. \A m \in Entries : m.task # t
      BY <1>4 DEF Single
    <2>6. \A u \in Tasks \ {t} : start'[u] = start[u]
      BY StartEntry
    <2>7. \A u \in Tasks : \A m \in Live(u)' : m \in Live(u) \/ (u = t /\ m = e)
      BY <1>2, <2>1, <2>3 DEF Live
    <2>8. Live(t) = {}
      BY <2>5 DEF Live
    <2> QED
      BY <1>4, <2>1, <2>3, <2>4, <2>6, <2>7, <2>8 DEF Single
  <1> QED
    BY <1>3, <1>4, StartEntry

LEMMA SingleRead ==
    ASSUME QueueTypeOK, Placed, Single, NEW x \in Procs, Read(x)
    PROVE  Placed' /\ Single'
  <1> DEFINE m == Head(stream)
  <1>1. /\ stream \in Seq(Message) /\ stream # <<>> /\ run[x].pc = "idle" /\ Handle(x, m)
        /\ m \in Message /\ stream' = Tail(stream) /\ pending' = pending \cup {m}
        /\ m \in Elems(stream) /\ Elems(stream) = Elems(stream') \cup {m}
        /\ UNCHANGED <<timers, start>>
    BY ReadEntry DEF QueueTypeOK
  <1>2. /\ msg[x] = NoMsg /\ msg'[x] = m /\ \A y \in Procs \ {x} : msg'[y] = msg[y] /\ run'[y] = run[y]
        /\ run'[x].pc = "acquire"
    BY <1>1, TakeEntry
  <1>3. Once(stream') /\ m \notin Elems(stream')
    BY <1>1, TailOnce DEF Placed
  <1>4. m # NoMsg /\ m \notin InHand /\ m \notin Timed
    BY <1>1, EntryPlaces DEF Placed
  <1>5. InHand' = InHand \cup {m} /\ Timed' = Timed
    BY <1>1, <1>2, <1>4 DEF InHand, Timed
  <1>6. Placed'
    <2>1. \A y, z \in Procs : msg'[y] = msg'[z] /\ msg'[y] # NoMsg => y = z
      BY <1>2, <1>4 DEF Placed, InHand
    <2> QED
      BY <1>1, <1>3, <1>4, <1>5, <2>1 DEF Placed
  <1>7. Entries' = Entries
    BY <1>1, <1>5 DEF Entries, InHand, Timed
  <1>8. \A n \in Entries : Superseded(n)' <=> Superseded(n)
    BY <1>1, <1>2 DEF Superseded
  <1> QED
    BY <1>1, <1>6, <1>7, <1>8 DEF Single, Live

LEMMA SingleHandle ==
    ASSUME QueueTypeOK, Placed, Single, NEW x \in Procs, Handling(x)
    PROVE  Placed' /\ Single'
  <1>0. /\ UNCHANGED <<stream, pending, msg, start>>
        /\ run[x].pc \notin {"idle", "ack"} /\ \A y \in Procs \ {x} : run'[y] = run[y]
    BY WorkerEntry
  <1>1. InHand' = InHand
    BY <1>0 DEF InHand
  <1>2. \A n : Superseded(n) => Superseded(n)'
    BY <1>0 DEF Superseded
  <1>3. CASE timers' = timers
    <2>1. Entries' = Entries /\ Timed' = Timed
      BY <1>0, <1>3, EntriesSame DEF Timed
    <2>2. Placed'
      BY <1>0, <1>1, <1>3, <2>1 DEF Placed, Once, Elems
    <2> QED
      BY <1>0, <1>2, <2>1, <2>2 DEF Single, Live
  <1>4. ASSUME run'[x].pc = "ack", NEW tm \in Timer, Successor(x, tm) PROVE Placed' /\ Single'
    <2> DEFINE e == tm.entry
               t == msg[x].task
    <2>1. e \in Message /\ e.task = t /\ e \notin Entries /\ timers' = timers \cup {tm}
      BY <1>4 DEF Successor, Fresh
    <2>2. Timed' = Timed \cup {e} /\ Entries' = Entries \cup {e}
      BY <1>0, <2>1 DEF Timed, Entries, Elems
    <2>3. e \notin InHand /\ e \notin Elems(stream) /\ e \notin Timed
      BY <2>1 DEF Entries, InHand, Timed
    <2>4. \A tn \in timers : tn.entry # e
      BY <2>3 DEF Timed
    <2>5. Placed'
      <3>1. \A tn, to \in timers' : tn.entry = to.entry => tn = to
        BY <2>1, <2>4 DEF Placed
      <3> QED
        BY <1>0, <1>1, <2>2, <2>3, <3>1 DEF Placed, Once, Elems
    <2>6. msg[x] \in Entries /\ msg[x] # NoMsg /\ t \in Tasks
      BY <1>0, EntryPlaces, BusyHasTask DEF InHand
    <2>7. msg[x] \in Live(t)
      <3>1. ~Superseded(msg[x])
        BY <1>0, <2>6 DEF Superseded, Placed
      <3> QED
        BY <2>6, <3>1 DEF Live
    <2>8. Superseded(msg[x])'
      BY <1>0, <1>4 DEF Superseded
    <2>9. \A u \in Tasks : \A n \in Live(u)' : n \in Live(u) \ {msg[x]} \/ (u = t /\ n = e)
      BY <1>0, <1>2, <2>1, <2>2, <2>8 DEF Live
    <2>10. \A n \in Live(t) : n = msg[x]
      BY <2>6, <2>7 DEF Single
    <2>11. \A u \in Tasks : \A n, k \in Live(u)' : n = k
      BY <2>9, <2>10 DEF Single
    <2>12. start[t].pc \notin {"no", "locked", "created"}
      BY <2>6 DEF Single
    <2>13. \A u \in Tasks : start'[u].pc \in {"no", "locked", "created"} => \A n \in Entries' : n.task # u
      BY <1>0, <2>1, <2>2, <2>12 DEF Single
    <2> QED
      BY <2>5, <2>11, <2>13 DEF Single
  <1> QED
    BY <1>3, <1>4, WorkerEntry

LEMMA SingleAck ==
    ASSUME QueueTypeOK, Named, Placed, Single, NEW x \in Procs, Ack(x), proc[x] = "up", ~Disturb("unacked")
    PROVE  Placed' /\ Single'
  <1>1. /\ run[x].pc = "ack" /\ msg[x] \in Message /\ msg'[x] = NoMsg /\ run'[x] = Idle
        /\ \A y \in Procs \ {x} : msg'[y] = msg[y] /\ run'[y] = run[y]
        /\ pending' = {m \in pending : m.id # msg[x].id}
        /\ UNCHANGED <<stream, timers, start>>
    BY AckEntry
  <1>2. msg[x] # NoMsg /\ msg[x] \in InHand /\ InHand \subseteq Entries
    BY <1>1, EntryPlaces DEF InHand
  <1>3. InHand' = InHand \ {msg[x]}
    <2>1. \A y \in Procs \ {x} : msg'[y] # NoMsg => msg'[y] # msg[x]
      BY <1>1 DEF Placed
    <2> QED
      BY <1>1, <1>2, <2>1 DEF InHand
  <1>4. pending' = InHand'
    BY <1>1, <1>2, <1>3 DEF Placed, Named
  <1>5. Placed'
    BY <1>1, <1>2, <1>3, <1>4 DEF Placed, Once, Elems, Timed
  <1>6. Entries' \subseteq Entries \ {msg[x]}
    BY <1>1, <1>2, <1>3, <1>4 DEF Placed, Entries, InHand, Timed, Elems
  <1>7. \A n \in Entries' : Superseded(n) => Superseded(n)'
    BY <1>1, <1>6 DEF Superseded
  <1> QED
    BY <1>1, <1>5, <1>6, <1>7 DEF Single, Live

LEMMA SingleTimer ==
    ASSUME QueueTypeOK, Placed, Single, NEW tm \in timers, FireTimer(tm)
    PROVE  Placed' /\ Single'
  <1> DEFINE e == tm.entry
  <1>1. /\ stream \in Seq(Message) /\ timers' = timers \ {tm} /\ e \in Message
        /\ \/ stream' = stream
           \/ stream' = Append(stream, e) /\ Elems(stream') = Elems(stream) \cup {e}
        /\ UNCHANGED <<run, pending, msg, start>>
    BY FireEntry DEF QueueTypeOK
  <1>2. Timed' = Timed \ {e} /\ InHand' = InHand /\ e \in Timed
    BY <1>1 DEF Placed, Timed, InHand
  <1>3. e \notin InHand /\ e \notin Elems(stream)
    BY <1>2 DEF Placed
  <1>4. Once(stream') /\ Elems(stream') \subseteq Elems(stream) \cup {e}
    <2>1. Once(stream)
      BY DEF Placed
    <2>2. CASE stream' = stream
      BY <2>1, <2>2 DEF Once, Elems
    <2>3. CASE stream' = Append(stream, e) /\ Elems(stream') = Elems(stream) \cup {e}
      BY <1>1, <1>3, <2>1, <2>3, AppendOnce
    <2> QED
      BY <1>1, <2>2, <2>3
  <1>5. Placed'
    BY <1>1, <1>2, <1>3, <1>4 DEF Placed
  <1>6. Entries' \subseteq Entries
    BY <1>1, <1>2, <1>4 DEF Entries, InHand, Timed
  <1>7. \A n : Superseded(n)' <=> Superseded(n)
    BY <1>1 DEF Superseded
  <1> QED
    BY <1>1, <1>5, <1>6, <1>7 DEF Single, Live

LEMMA SingleNext == QueueTypeOK /\ Upright /\ Named /\ SingleInv /\ [Next]_vars => SingleInv'
  <1> SUFFICES ASSUME QueueTypeOK, Upright, Named, SingleInv, [Next]_vars, Quiet'
               PROVE  Placed' /\ Single'
    BY DEF SingleInv
  <1>1. Placed /\ Single
    BY QuietNext
  <1>2. CASE Context
    <2>1. UNCHANGED queueVars /\ \A y \in Procs : run'[y].pc = run[y].pc
      BY <1>2, ContextStep
    <2>2. Placed' /\ Entries' = Entries
      BY <1>1, <2>1, EntriesSame DEF Placed, Once, Elems, Timed, InHand, queueVars
    <2>3. \A n : Superseded(n)' <=> Superseded(n)
      BY <2>1 DEF Superseded, queueVars
    <2> QED
      BY <1>1, <2>1, <2>2, <2>3 DEF Single, Live, queueVars
  <1> QED
    BY <1>1, <1>2, QuietNext, SingleStart, SingleRead, SingleHandle, SingleAck, SingleTimer

LEMMA SingleInit == Init => SingleInv
  <1> SUFFICES ASSUME Init PROVE Placed /\ Single
    BY DEF SingleInv
  <1>1. Entries = {} /\ InHand = {} /\ Timed = {}
    BY DEF Init, Entries, Elems, InHand, Timed
  <1> QED
    BY <1>1 DEF Init, Placed, Single, Once, Elems, Live

LEMMA CalmInv == Spec => [](QueueTypeOK /\ Upright /\ Named /\ SingleInv)
  <1>1. QueueTypeOK /\ Upright /\ Named /\ SingleInv /\ [Next]_vars => (Upright /\ Named /\ SingleInv)'
    BY UprightNext, NamedNext, SingleNext
  <1> QED
    BY OwnerInit, SingleInit, <1>1, TypeCorrect, PTL DEF Spec

\* A task is in the queue once: until its first entry or a retry is delivered
\* again, no two of its entries are at work or waiting, so no two workers
\* diagnose it and nothing is retried twice.
THEOREM SingleSafe == Spec => []OneEntryPerTask
  <1>1. SingleInv => OneEntryPerTask
    BY DEF SingleInv, Single, Quiet, OneEntryPerTask
  <1> QED
    BY <1>1, CalmInv, PTL

-----------------------------------------------------------------------------
(* Success is final.                                                       *)

\* A worker that has an entry at work is alone with the task of it.
LEMMA AloneAtWork ==
    ASSUME QueueTypeOK, Placed, Single, NEW x \in Procs, run[x].pc \notin {"idle", "ack"}
    PROVE  /\ run[x].task \in Tasks /\ run[x].task = msg[x].task
           /\ start[run[x].task].pc \notin {"no", "locked", "created"}
           /\ \A m \in Waiting : m.task # run[x].task
           /\ \A y \in Procs \ {x} : run[y].task = run[x].task => run[y].pc = "ack"
  <1> DEFINE t == run[x].task
  <1>1. /\ msg[x] \in InHand /\ msg[x] \in Entries /\ msg[x] # NoMsg
        /\ t \in Tasks /\ t = msg[x].task
    BY EntryPlaces, BusyHasTask DEF InHand
  <1>2. \A m \in Entries : m.task = t /\ ~Superseded(m) => m = msg[x]
    <2>1. ~Superseded(msg[x])
      BY <1>1 DEF Superseded, Placed
    <2> QED
      BY <1>1, <2>1 DEF Single, Live
  <1>3. \A m \in Waiting : m.task # t
    <2> SUFFICES ASSUME NEW m \in Waiting, m.task = t PROVE FALSE
      OBVIOUS
    <2>1. m \notin InHand /\ m \in Entries
      BY EntryPlaces DEF Placed, Waiting, Timed
    <2>2. ~Superseded(m)
      BY <2>1, EntryPlaces DEF Superseded, InHand
    <2> QED
      BY <1>1, <1>2, <2>1, <2>2
  <1>4. ASSUME NEW y \in Procs \ {x}, run[y].task = t, run[y].pc # "ack" PROVE FALSE
    <2>1. run[y].pc # "idle"
      BY <1>1, <1>4, NoTaskType DEF QueueTypeOK, Matches, NoMsg
    <2>2. msg[y] \in Entries /\ msg[y] # NoMsg /\ msg[y].task = t
      BY <1>4, <2>1, EntryPlaces, BusyHasTask DEF InHand
    <2>3. ~Superseded(msg[y])
      BY <1>4, <2>2 DEF Superseded, Placed
    <2>4. msg[y] = msg[x]
      BY <1>2, <2>2, <2>3
    <2> QED
      BY <1>1, <2>4 DEF Placed
  <1> QED
    BY <1>1, <1>3, <1>4 DEF Single

\* Nobody cancels, nothing is delivered twice.
Unasked == Spared(Redelivery \cup {"cancel", "unread"})

\* What is left of a task that succeeded: a worker on its way out.
Settled(t) ==
    /\ start[t].pc \notin {"no", "locked", "created"}
    /\ \A m \in Waiting : m.task # t
    /\ \A x \in Procs : run[x].task = t => run[x].pc \in {"release", "check", "ack"}

FinalInv ==
    Unasked => \A t \in Tasks : /\ cancelling[t] = "no"
                                /\ row[t].status = "success" => Settled(t)

\* A row another step leaves alone, about a task that stays settled.
LEMMA FinalHandle ==
    ASSUME QueueTypeOK, Placed, Single, NEW x \in Procs, Handling(x), proc[x] = "up", ~Disturb("unread"),
           NEW t \in Tasks, row[t].status = "success" => Settled(t)
    PROVE  /\ cancelling' = cancelling
           /\ row[t].status = "success" => row'[t].status = "success"
           /\ row'[t].status = "success" => Settled(t)'
  <1>0. /\ run \in [Procs -> RunType] /\ row \in [Tasks -> [status: Status, cause: Cause]]
        /\ UNCHANGED <<stream, start>> /\ run'[x].task = run[x].task
        /\ run[x].pc \notin {"idle", "ack"} /\ \A y \in Procs \ {x} : run'[y] = run[y]
        /\ \/ timers' = timers
           \/ run[x].pc \in {"acquire", "retry"} /\ \E tm \in Timer : Successor(x, tm)
    BY WorkerEntry DEF QueueTypeOK, RunTypeOK
  <1>1. cancelling' = cancelling
    BY DEF Handling, AcquireExecutionLock, RunStep, Load, Work, Persist, Finish, Release,
           TaskFailedRead, TaskFailedWrite, RetryOrBury, queueVars
  <1>2. run[x].task \in Tasks /\ run[x].task = msg[x].task
    BY <1>0, BusyHasTask
  <1>3. CASE run[x].task # t
    <2>1. row'[t] = row[t]
      BY <1>0, <1>2, <1>3 DEF Handling, AcquireExecutionLock, RunStep, Load, Work, Persist, Finish,
           Release, TaskFailedRead, TaskFailedWrite, RetryOrBury, Save
    <2>2. \A m \in Waiting' : m \in Waiting \/ m.task # t
      BY <1>0, <1>2, <1>3, WaitingKept DEF Successor
    <2> QED
      BY <1>0, <1>1, <1>3, <2>1, <2>2 DEF Settled
  <1>4. CASE run[x].task = t /\ row[t].status = "success"
    <2>1. run[x].pc \in {"release", "check"}
      BY <1>0, <1>4 DEF Settled
    <2>2. row' = row /\ run'[x].pc \in {"release", "check", "ack"}
      <3>1. CASE Release(x, "check")
        BY <1>0, <3>1 DEF Release, Goto, RunType
      <3>2. CASE TaskFailedRead(x)
        BY <1>0, <1>4, <3>2 DEF TaskFailedRead, TaskFailed, Goto, RunType, Unreached
      <3> QED
        BY <2>1, <3>1, <3>2 DEF Handling, AcquireExecutionLock, RunStep, Load, Work, Persist, Finish,
           TaskFailedWrite, RetryOrBury
    <2>3. Waiting' = Waiting
      BY <1>0, <2>1, WaitingKept
    <2> QED
      BY <1>0, <1>1, <1>4, <2>2, <2>3 DEF Settled
  <1>5. CASE run[x].task = t /\ row[t].status # "success" /\ row'[t].status = "success"
    <2>1. Finish(x) /\ run'[x].pc = "release"
      BY <1>0, <1>2, <1>5 DEF Handling, AcquireExecutionLock, RunStep, Load, Work, Persist, Finish,
           Release, TaskFailedRead, TaskFailedWrite, RetryOrBury, Save, Goto, RunType
    <2>2. Waiting' = Waiting
      <3>1. run[x].pc = "finish"
        BY <2>1 DEF Finish
      <3> QED
        BY <1>0, <3>1, WaitingKept
    <2> QED
      BY <1>0, <1>1, <1>5, <2>1, <2>2, AloneAtWork DEF Settled
  <1> QED
    BY <1>1, <1>3, <1>4, <1>5

LEMMA FinalOther ==
    ASSUME QueueTypeOK, ~Disturb("cancel"), \A u \in Tasks : cancelling[u] = "no",
           \/ \E u \in Tasks : Starting(u)
           \/ \E x \in Procs : Read(x) \/ Ack(x)
           \/ \E tm \in timers : FireTimer(tm)
           \/ Context,
           NEW t \in Tasks, row[t].status = "success" => Settled(t)
    PROVE  /\ cancelling' = cancelling
           /\ row[t].status = "success" => row'[t].status = "success"
           /\ row'[t].status = "success" => Settled(t)'
  <1> DEFINE Kept == /\ cancelling' = cancelling
                     /\ row[t].status = "success" => row'[t].status = "success"
                     /\ row'[t].status = "success" => Settled(t)'
  <1>0. row \in [Tasks -> [status: Status, cause: Cause]] /\ start \in [Tasks -> StartType]
    BY DEF QueueTypeOK, RunTypeOK
  <1>1. ASSUME NEW u \in Tasks, Starting(u) PROVE Kept
    <2>1. UNCHANGED <<timers, run, cancelling>> /\ start[u].pc \in {"no", "locked", "created"}
      BY <1>1, StartEntry
    <2>2. CASE t = u
      <3>1. row[t].status # "success"
        BY <2>1, <2>2 DEF Settled
      <3>2. row'[t].status # "success"
        BY <1>0, <1>1, <2>2, <3>1 DEF Starting, StartLock, StartRefused, StartStep, StartCreate,
              StartEnqueue, Save, runVars
      <3> QED
        BY <2>1, <3>1, <3>2
    <2>3. CASE t # u
      <3>1. row'[t] = row[t] /\ start'[t] = start[t]
        BY <1>1, <2>3, StartEntry
      <3>2. \A m \in Waiting' : m \in Waiting \/ m.task # t
        <4>1. \/ stream' = stream
              \/ FirstEntry(u) \in Message /\ FirstEntry(u).task = u /\ stream' = Append(stream, FirstEntry(u))
          BY <1>1, StartEntry DEF Fresh, FirstEntry
        <4>2. CASE stream' = stream
          BY <2>1, <4>2, WaitingKept
        <4>3. CASE FirstEntry(u) \in Message /\ FirstEntry(u).task = u /\ stream' = Append(stream, FirstEntry(u))
          <5>1. Waiting' = Waiting \cup {FirstEntry(u)}
            BY <2>1, <4>3, WaitingKept
          <5> QED
            BY <2>3, <4>3, <5>1
        <4> QED
          BY <4>1, <4>2, <4>3
      <3> QED
        BY <2>1, <3>1, <3>2 DEF Settled
    <2> QED
      BY <2>2, <2>3
  <1>2. ASSUME NEW x \in Procs, Read(x) PROVE Kept
    <2>1. /\ Head(stream) \in Message /\ run[x].pc = "idle" /\ Handle(x, Head(stream))
          /\ Elems(stream) = Elems(stream') \cup {Head(stream)}
          /\ UNCHANGED <<timers, row, start, cancelling>>
      BY <1>2, ReadEntry
    <2>2. run'[x].task = Head(stream).task /\ \A y \in Procs \ {x} : run'[y] = run[y]
      BY <2>1, TakeEntry
    <2>3. Waiting' \subseteq Waiting /\ Head(stream) \in Waiting
      BY <2>1 DEF Waiting
    <2> QED
      BY <2>1, <2>2, <2>3 DEF Settled
  <1>3. ASSUME NEW x \in Procs, Ack(x) PROVE Kept
    <2>1. /\ run'[x] = Idle /\ \A y \in Procs \ {x} : run'[y] = run[y]
          /\ UNCHANGED <<stream, timers, row, start, cancelling>>
      BY <1>3, AckEntry
    <2>2. run'[x].task # t
      BY <2>1, NoTaskType DEF Idle
    <2> QED
      BY <2>1, <2>2 DEF Settled, Waiting, Elems
  <1>4. ASSUME NEW tm \in timers, FireTimer(tm) PROVE Kept
    <2>1. /\ timers' = timers \ {tm}
          /\ stream' = stream \/ Elems(stream') = Elems(stream) \cup {tm.entry}
          /\ UNCHANGED <<run, row, start, cancelling>>
      BY <1>4, FireEntry
    <2>2. Waiting' \subseteq Waiting
      BY <2>1 DEF Waiting, Elems
    <2> QED
      BY <2>1, <2>2 DEF Settled
  <1>5. CASE Context
    <2>1. /\ UNCHANGED queueVars /\ Waiting' = Waiting
          /\ \A y \in Procs : run'[y].pc = run[y].pc /\ run'[y].task = run[y].task
      BY <1>5, ContextStep, EntriesSame DEF queueVars
    <2>2. UNCHANGED <<row, cancelling>>
      BY <1>5 DEF Context, Cancel, CancelRead, CancelSignal, CancelWrite, Timeout, ExpireLease, Expire,
             vars, runVars
    <2> QED
      BY <2>1, <2>2 DEF Settled, queueVars
  <1> QED
    BY <1>1, <1>2, <1>3, <1>4, <1>5

LEMMA FinalStep ==
    ASSUME QueueTypeOK, Upright, Named, SingleInv, FinalInv, [Next]_vars, Unasked', NEW t \in Tasks
    PROVE  /\ cancelling'[t] = "no"
           /\ row[t].status = "success" => row'[t].status = "success"
           /\ row'[t].status = "success" => Settled(t)'
  <1>1. Unasked /\ ~Disturb("cancel") /\ ~Disturb("unread")
    BY SparedBefore DEF Unasked
  <1>2. /\ \A u \in Tasks : cancelling[u] = "no"
        /\ row[t].status = "success" => Settled(t)
    BY <1>1 DEF FinalInv
  <1>3. Quiet' /\ Calm'
    BY DEF Unasked, Quiet, Calm, Spared, Redelivery
  <1>4. \A x \in Procs : proc[x] = "up"
    BY <1>3, CalmNext
  <1>5. /\ Placed /\ Single
        /\ \/ \E u \in Tasks : Starting(u)
           \/ \E x \in Procs : Read(x) \/ Handling(x) \/ Ack(x)
           \/ \E tm \in timers : FireTimer(tm)
           \/ Context
    BY <1>3, QuietNext
  <1>6. ASSUME NEW x \in Procs, Handling(x)
        PROVE  /\ cancelling' = cancelling
               /\ row[t].status = "success" => row'[t].status = "success"
               /\ row'[t].status = "success" => Settled(t)'
    BY <1>1, <1>2, <1>4, <1>5, <1>6, FinalHandle
  <1> QED
    BY <1>1, <1>2, <1>5, <1>6, FinalOther

LEMMA FinalInit == Init => FinalInv
  <1> SUFFICES ASSUME Init, NEW t \in Tasks PROVE cancelling[t] = "no" /\ row[t].status # "success"
    BY DEF FinalInv
  <1>1. row[t].status = "absent"
    BY DEF Init, RunInit
  <1> QED
    BY <1>1 DEF Init, RunInit

\* A task that has succeeded stays a success: its handler is over, nothing of
\* it waits, and the worker that stored the result finds no failure to retry.
\* Only a CancelTask call or a second delivery can change the row.
THEOREM SuccessStays == Spec => SuccessIsFinal
  <1> DEFINE Inv == QueueTypeOK /\ Upright /\ Named /\ SingleInv
  <1>1. Inv /\ FinalInv /\ [Next]_vars => FinalInv'
    BY FinalStep DEF FinalInv
  <1>2. Spec => []FinalInv
    BY <1>1, CalmInv, FinalInit, PTL DEF Spec
  <1>3. Inv /\ FinalInv /\ [Next]_vars =>
            (Spared(Redelivery \cup {"cancel", "unread"})' =>
                \A t \in Tasks : row[t].status = "success" => row'[t].status = "success")
    BY FinalStep DEF Unasked
  <1> QED
    BY <1>2, <1>3, CalmInv, PTL DEF Spec, SuccessIsFinal

-----------------------------------------------------------------------------
(* One diagnosis per pod.                                                  *)

\* No lease runs out in use, nothing is delivered twice.
Unlapsed == Spared(Redelivery \cup {"expire"})

\* Task t is about to use lease k, or uses it.
Holding(t, k) ==
    \/ start[t].pc \in {"locked", "created"} /\ start[t].token = k
    \/ \E m \in Waiting : m.task = t /\ ~NeedsLock(m) /\ m.token = k
    \/ \E x \in Procs : /\ run[x].task = t
                        /\ \/ run[x].pc = "acquire" /\ ~NeedsLock(msg[x]) /\ msg[x].token = k
                           \/ run[x].pc \in Executing /\ run[x].token = k

\* Leases are numbered in the order they are granted, and one that is held has
\* neither been released nor run out.
Granted == (\A p \in Pods : lock[p] < nextToken) /\ (\A k \in freed : k < nextToken)
HeldInv == Unlapsed => Granted /\ \A t \in Tasks, k \in freed : ~Holding(t, k)

LEMMA HoldingLease ==
    ASSUME QueueTypeOK, NEW t \in Tasks, NEW k, Holding(t, k)
    PROVE  <<t, k>> \in Leases
  <1>1. ASSUME NEW m \in Waiting, m.task = t, ~NeedsLock(m), m.token = k PROVE <<t, k>> \in Leases
    BY <1>1, LeaseOf, EntryPlaces
  <1>2. ASSUME NEW x \in Procs, run[x].task = t, run[x].pc = "acquire", ~NeedsLock(msg[x]), msg[x].token = k
        PROVE  <<t, k>> \in Leases
    BY <1>2, LeaseOf, EntryPlaces, BusyHasTask
  <1> QED
    BY <1>1, <1>2, LeaseOf DEF Holding

\* Whoever starts to hold a lease was given it by somebody who held it, or has
\* just acquired it.
LEMMA HoldingHandle ==
    ASSUME QueueTypeOK, NEW x \in Procs, Handling(x), NEW t \in Tasks, NEW k, Holding(t, k)'
    PROVE  Holding(t, k) \/ k = nextToken
  <1>0. /\ run \in [Procs -> RunType] /\ UNCHANGED <<stream, msg, start>>
        /\ run'[x].task = run[x].task /\ run[x].pc # "idle"
        /\ \A y \in Procs \ {x} : run'[y] = run[y]
    BY WorkerEntry DEF QueueTypeOK
  <1>1. \A m \in Waiting' : m \in Waiting \/ NeedsLock(m)
    <2>1. timers' = timers \/ \E tm \in Timer : Successor(x, tm)
      BY WorkerEntry
    <2> QED
      BY <1>0, <2>1, WaitingKept DEF Successor
  <1>2. run'[x].pc # "acquire"
    BY <1>0 DEF Handling, AcquireExecutionLock, RunStep, Load, Work, Persist, Finish,
           Release, TaskFailedRead, TaskFailedWrite, RetryOrBury, Goto, Conclude, RunType
  <1>3. ASSUME run'[x].pc \in Executing
        PROVE  \/ run[x].pc \in Executing /\ run'[x].token = run[x].token
               \/ run[x].pc = "acquire" /\ ~NeedsLock(msg[x]) /\ run'[x].token = msg[x].token
               \/ run'[x].token = nextToken
    <2>1. CASE AcquireExecutionLock(x)
      BY <1>0, <1>3, <2>1 DEF AcquireExecutionLock, Goto, RunType, Executing
    <2>2. CASE RunStep(x)
      BY <1>0, <1>3, <2>2 DEF RunStep, Load, Work, Persist, Finish, Release, Goto, Conclude, RunType, Executing
    <2>3. CASE TaskFailedRead(x) \/ TaskFailedWrite(x) \/ RetryOrBury(x)
      BY <1>0, <1>3, <2>3 DEF TaskFailedRead, TaskFailedWrite, RetryOrBury, Goto, Conclude, RunType, Executing
    <2> QED
      BY <2>1, <2>2, <2>3 DEF Handling
  <1>4. ASSUME NEW y \in Procs, run'[y].task = t,
               \/ run'[y].pc = "acquire" /\ ~NeedsLock(msg[y]) /\ msg[y].token = k
               \/ run'[y].pc \in Executing /\ run'[y].token = k
        PROVE  Holding(t, k) \/ k = nextToken
    <2>1. CASE y # x
      BY <1>0, <1>4, <2>1 DEF Holding
    <2>2. CASE y = x
      BY <1>0, <1>2, <1>3, <1>4, <2>2 DEF Holding, Executing
    <2> QED
      BY <2>1, <2>2
  <1> QED
    BY <1>0, <1>1, <1>4 DEF Holding

LEMMA HoldingOther ==
    ASSUME QueueTypeOK,
           \/ \E u \in Tasks : Starting(u)
           \/ \E x \in Procs : Read(x) \/ Ack(x)
           \/ \E tm \in timers : FireTimer(tm)
           \/ Context,
           NEW t \in Tasks, NEW k, Holding(t, k)'
    PROVE  Holding(t, k) \/ k = nextToken
  <1>0. start \in [Tasks -> StartType] /\ stream \in Seq(Message)
    BY DEF QueueTypeOK
  <1>1. ASSUME NEW u \in Tasks, Starting(u) PROVE Holding(t, k) \/ k = nextToken
    <2>1. UNCHANGED <<timers, run, msg>> /\ \A v \in Tasks \ {u} : start'[v] = start[v]
      BY <1>1, StartEntry
    <2>2. start'[t].pc \in {"locked", "created"} =>
              \/ start[t].pc \in {"locked", "created"} /\ start'[t].token = start[t].token
              \/ start'[t].token = nextToken
      <3>1. CASE t = u
        BY <1>0, <1>1, <3>1 DEF Starting, StartLock, StartRefused, StartStep, StartCreate, StartEnqueue,
              Over, StartType
      <3> QED
        BY <2>1, <3>1
    <2>3. \A m \in Waiting' : \/ m \in Waiting
                             \/ /\ start[u].pc = "created" /\ m.task = u /\ m.token = start[u].token
      <3>1. \/ stream' = stream
            \/ /\ start[u].pc = "created" /\ FirstEntry(u) \in Message
               /\ stream' = Append(stream, FirstEntry(u))
        BY <1>1, StartEntry DEF Fresh
      <3>2. CASE stream' = stream
        BY <2>1, <3>2, WaitingKept
      <3>3. CASE /\ start[u].pc = "created" /\ FirstEntry(u) \in Message
                 /\ stream' = Append(stream, FirstEntry(u))
        <4>1. Waiting' = Waiting \cup {FirstEntry(u)}
          BY <2>1, <3>3, WaitingKept
        <4> QED
          BY <3>3, <4>1 DEF FirstEntry
      <3> QED
        BY <3>1, <3>2, <3>3
    <2> QED
      BY <2>1, <2>2, <2>3 DEF Holding
  <1>2. ASSUME NEW x \in Procs, Read(x) PROVE Holding(t, k)
    <2> DEFINE m == Head(stream)
    <2>1. /\ m \in Message /\ run[x].pc = "idle" /\ Handle(x, m) /\ m \in Elems(stream)
          /\ Elems(stream) = Elems(stream') \cup {m} /\ UNCHANGED <<timers, start>>
      BY <1>2, ReadEntry
    <2>2. /\ run'[x].pc = "acquire" /\ run'[x].task = m.task /\ msg'[x] = m
          /\ \A y \in Procs \ {x} : run'[y] = run[y] /\ msg'[y] = msg[y]
      BY <2>1, TakeEntry
    <2>3. Waiting' \subseteq Waiting /\ m \in Waiting
      BY <2>1 DEF Waiting
    <2> HIDE DEF m
    <2> QED
      BY <2>1, <2>2, <2>3 DEF Holding, Executing
  <1>3. ASSUME NEW x \in Procs, Ack(x) PROVE Holding(t, k)
    <2>1. /\ run'[x] = Idle /\ \A y \in Procs \ {x} : run'[y] = run[y] /\ msg'[y] = msg[y]
          /\ UNCHANGED <<stream, timers, start>>
      BY <1>3, AckEntry
    <2>2. run'[x].task # t /\ Waiting' = Waiting
      BY <2>1, NoTaskType DEF Idle, Waiting, Elems
    <2> QED
      BY <2>1, <2>2 DEF Holding
  <1>4. ASSUME NEW tm \in timers, FireTimer(tm) PROVE Holding(t, k)
    <2>1. /\ timers' = timers \ {tm} /\ UNCHANGED <<run, msg, start>>
          /\ stream' = stream \/ Elems(stream') = Elems(stream) \cup {tm.entry}
      BY <1>4, FireEntry
    <2>2. Waiting' \subseteq Waiting
      BY <2>1 DEF Waiting, Elems
    <2> QED
      BY <2>1, <2>2 DEF Holding
  <1>5. CASE Context
    <2>1. /\ UNCHANGED <<start, msg>> /\ Waiting' = Waiting
          /\ \A y \in Procs : /\ run'[y].pc = run[y].pc /\ run'[y].task = run[y].task
                              /\ run'[y].token = run[y].token
      BY <1>5, ContextStep, EntriesSame DEF queueVars
    <2> QED
      BY <2>1 DEF Holding
  <1> QED
    BY <1>1, <1>2, <1>3, <1>4, <1>5

\* A lease is released by the one who holds it, alone with its task; one that
\* runs out is held by nobody.
LEMMA FreedHeld ==
    ASSUME QueueTypeOK, LeaseInv, Placed, Single, Granted, ~Disturb("expire"),
           \/ \E u \in Tasks : Starting(u)
           \/ \E x \in Procs : Read(x) \/ Handling(x) \/ Ack(x)
           \/ \E tm \in timers : FireTimer(tm)
           \/ Context,
           NEW k \in freed', k \notin freed
    PROVE  k < nextToken /\ \A t \in Tasks : ~Holding(t, k)'
  <1>0. start \in [Tasks -> StartType] /\ run \in [Procs -> RunType] /\ nextToken \in Nat
    BY DEF QueueTypeOK, RunTypeOK
  <1>1. \A u \in Tasks : <<u, k>> \in Leases =>
            /\ k < nextToken
            /\ \A t \in Tasks : Holding(t, k) => t = u
    <2> SUFFICES ASSUME NEW u \in Tasks, <<u, k>> \in Leases
                 PROVE  k < nextToken /\ \A t \in Tasks : Holding(t, k) => t = u
      OBVIOUS
    <2> DEFINE l == <<u, k>>
    <2>1. l[1] = u /\ l[2] = k /\ l \in Leases
      OBVIOUS
    <2>2. k < nextToken
      <3>1. l[2] \in 1..(nextToken - 1)
        BY <2>1 DEF LeaseInv
      <3> QED
        BY <1>0, <2>1, <3>1
    <2>3. ASSUME NEW t \in Tasks, Holding(t, k) PROVE t = u
      <3> DEFINE h == <<t, k>>
      <3>1. h[1] = t /\ h[2] = k /\ h \in Leases
        BY <2>3, HoldingLease
      <3> HIDE DEF h, l
      <3> QED
        BY <2>1, <3>1 DEF LeaseInv
    <2> QED
      BY <2>2, <2>3
  <1>2. ASSUME NEW u \in Tasks, Starting(u) PROVE k < nextToken /\ \A t \in Tasks : ~Holding(t, k)'
    <2>1. /\ start[u].pc \in {"locked", "created"} /\ k = start[u].token
          /\ start' = [start EXCEPT ![u] = Over("refused")] /\ stream' = stream
      BY <1>0, <1>2 DEF Starting, StartLock, StartRefused, StartStep, StartCreate, StartEnqueue, Unlock, runVars
    <2>2. UNCHANGED <<timers, run, msg>> /\ Waiting' = Waiting
      BY <1>2, <2>1, StartEntry, WaitingKept
    <2>3. <<u, k>> \in Leases
      BY <2>1, LeaseOf
    <2>4. ASSUME NEW t \in Tasks, Holding(t, k)' PROVE FALSE
      <3>1. start'[u].pc = "refused"
        BY <1>0, <2>1 DEF Over
      <3>2. Holding(t, k)
        BY <1>0, <2>1, <2>2, <2>4, <3>1 DEF Holding
      <3>3. t = u
        BY <1>1, <2>3, <3>2
      <3>4. \A m \in Entries : m.task # u
        BY <2>1 DEF Single
      <3>5. \A m \in Waiting : m.task # u
        BY <3>4, EntryPlaces
      <3>6. \A x \in Procs : run[x].pc # "idle" => run[x].task # u
        BY <3>4, EntryPlaces, BusyHasTask
      <3> QED
        BY <2>2, <2>4, <3>1, <3>3, <3>5, <3>6 DEF Holding, Executing
    <2> QED
      BY <1>1, <2>3, <2>4
  <1>3. ASSUME NEW x \in Procs, Handling(x) PROVE k < nextToken /\ \A t \in Tasks : ~Holding(t, k)'
    <2>1. Release(x, "check") /\ run[x].pc = "release" /\ k = run[x].token
      BY <1>3 DEF Handling, AcquireExecutionLock, RunStep, Load, Work, Persist, Finish, Release,
         TaskFailedRead, TaskFailedWrite, RetryOrBury, Unlock
    <2> DEFINE u == run[x].task
    <2>2. /\ u \in Tasks /\ start[u].pc \notin {"locked", "created"} /\ \A m \in Waiting : m.task # u
          /\ \A y \in Procs \ {x} : run[y].task = u => run[y].pc = "ack"
      BY <2>1, AloneAtWork
    <2>3. <<u, k>> \in Leases
      BY <2>1, LeaseOf DEF Executing
    <2>4. /\ UNCHANGED <<stream, start, msg>> /\ run'[x].pc = "check" /\ run'[x].task = u
          /\ \A y \in Procs \ {x} : run'[y] = run[y]
      BY <1>0, <1>3, <2>1, WorkerEntry DEF Release, Goto, RunType
    <2>5. Waiting' = Waiting
      <3>1. timers' = timers
        BY <1>3, <2>1, WorkerEntry
      <3> QED
        BY <2>4, <3>1, WaitingKept
    <2>6. ASSUME NEW t \in Tasks, Holding(t, k)' PROVE FALSE
      <3>1. Holding(t, k)
        BY <2>4, <2>5, <2>6 DEF Holding, Executing
      <3>2. t = u
        BY <1>1, <2>2, <2>3, <3>1
      <3> QED
        BY <2>2, <2>4, <2>5, <2>6, <3>2 DEF Holding, Executing
    <2> QED
      BY <1>1, <2>2, <2>3, <2>6
  <1>4. ASSUME NEW p \in Pods, ExpireLease(p) PROVE k < nextToken /\ \A t \in Tasks : ~Holding(t, k)'
    <2>1. k = lock[p] /\ ~Relied(k) /\ UNCHANGED <<run, start, stream, timers, msg>>
      BY <1>4 DEF ExpireLease, Expire, queueVars
    <2>2. ASSUME NEW t \in Tasks, Holding(t, k)' PROVE FALSE
      <3>1. Holding(t, k)
        BY <2>1, <2>2, EntriesSame DEF Holding, Waiting, Elems
      <3>2. <<t, k>> \in Leases
        BY <3>1, HoldingLease
      <3> DEFINE h == <<t, k>>
      <3>3. h \in Leases /\ h[2] = k
        BY <3>2
      <3> HIDE DEF h
      <3> QED
        BY <2>1, <3>3 DEF Relied
    <2> QED
      BY <2>1, <2>2 DEF Granted
  <1>5. CASE \/ \E x \in Procs : Read(x) \/ Ack(x)
             \/ \E tm \in timers : FireTimer(tm)
    BY <1>5, ReadEntry, AckEntry, FireEntry
  <1>6. CASE Context
    BY <1>4, <1>6 DEF Context, Cancel, CancelRead, CancelSignal, CancelWrite, Timeout, vars, runVars
  <1> QED
    BY <1>2, <1>3, <1>5, <1>6

LEMMA GrantedKept ==
    ASSUME QueueTypeOK, Granted,
           \/ \E u \in Tasks : Starting(u)
           \/ \E x \in Procs : Read(x) \/ Handling(x) \/ Ack(x)
           \/ \E tm \in timers : FireTimer(tm)
           \/ Context
    PROVE  nextToken' \in Nat /\ nextToken <= nextToken' /\ \A p \in Pods : lock'[p] < nextToken'
  <1> DEFINE Kept == nextToken' \in Nat /\ nextToken <= nextToken' /\ \A p \in Pods : lock'[p] < nextToken'
  <1>0. lock \in [Pods -> Nat] /\ nextToken \in Nat \ {0} /\ freed \subseteq Nat
    BY DEF QueueTypeOK, RunTypeOK
  <1>1. ASSUME UNCHANGED <<lock, nextToken>> PROVE Kept
    BY <1>0, <1>1 DEF Granted
  <1>2. ASSUME NEW p \in Pods, Acquire(p) PROVE Kept
    BY <1>0, <1>2 DEF Granted, Acquire
  <1>3. ASSUME nextToken' = nextToken, NEW p \in Pods, NEW k, Unlock(p, k) PROVE Kept
    BY <1>0, <1>3 DEF Granted, Unlock, NoToken
  <1>4. ASSUME NEW u \in Tasks, Starting(u) PROVE Kept
    <2>1. PodOf[u] \in Pods
      BY PodOfType
    <2> QED
      BY <1>1, <1>2, <1>3, <1>4, <2>1 DEF Starting, StartLock, StartRefused, StartStep, StartCreate,
         StartEnqueue, runVars
  <1>5. ASSUME NEW x \in Procs, Handling(x) PROVE Kept
    <2>1. /\ PodOf[run[x].task] \in Pods /\ PodOf[msg[x].task] \in Pods
      BY <1>5, WorkerEntry, BusyHasTask, PodOfType
    <2>2. CASE AcquireExecutionLock(x)
      BY <1>1, <1>2, <2>1, <2>2 DEF AcquireExecutionLock, ScheduleRetry
    <2>3. CASE Release(x, "check")
      BY <1>1, <1>3, <2>1, <2>3 DEF Release
    <2> QED
      BY <1>1, <1>5, <2>2, <2>3 DEF Handling, RunStep, Load, Work, Persist, Finish,
         TaskFailedRead, TaskFailedWrite, RetryOrBury
  <1>6. ASSUME NEW p \in Pods, ExpireLease(p) PROVE Kept
    BY <1>0, <1>6 DEF Granted, ExpireLease, Expire, NoToken
  <1>7. CASE \/ \E x \in Procs : Read(x) \/ Ack(x)
             \/ \E tm \in timers : FireTimer(tm)
    BY <1>1, <1>7, ReadEntry, AckEntry, FireEntry
  <1>8. CASE Context
    BY <1>1, <1>6, <1>8 DEF Context, Cancel, CancelRead, CancelSignal, CancelWrite, Timeout, vars, runVars
  <1> QED
    BY <1>4, <1>5, <1>7, <1>8

LEMMA HeldNext ==
    QueueTypeOK /\ Upright /\ Named /\ SingleInv /\ LeaseInv /\ HeldInv /\ [Next]_vars => HeldInv'
  <1> SUFFICES ASSUME QueueTypeOK, Upright, Named, SingleInv, LeaseInv, HeldInv, [Next]_vars, Unlapsed'
               PROVE  Granted' /\ \A t \in Tasks, k \in freed' : ~Holding(t, k)'
    BY DEF HeldInv
  <1>1. Unlapsed /\ ~Disturb("expire")
    BY SparedBefore DEF Unlapsed
  <1>2. Granted /\ \A t \in Tasks, k \in freed : ~Holding(t, k)
    BY <1>1 DEF HeldInv
  <1>3. Quiet'
    BY DEF Unlapsed, Quiet, Spared
  <1>4. /\ Placed /\ Single
        /\ \/ \E u \in Tasks : Starting(u)
           \/ \E x \in Procs : Read(x) \/ Handling(x) \/ Ack(x)
           \/ \E tm \in timers : FireTimer(tm)
           \/ Context
    BY <1>3, QuietNext
  <1>5. nextToken' \in Nat /\ nextToken <= nextToken' /\ \A p \in Pods : lock'[p] < nextToken'
    BY <1>2, <1>4, GrantedKept
  <1>6. ASSUME NEW k \in freed', k \notin freed PROVE k < nextToken /\ \A t \in Tasks : ~Holding(t, k)'
    BY <1>1, <1>2, <1>4, <1>6, FreedHeld
  <1>7. freed' \subseteq Nat /\ nextToken \in Nat
    <2>1. QueueTypeOK'
      BY TypeNext
    <2> QED
      BY <2>1 DEF QueueTypeOK, RunTypeOK
  <1>8. \A k \in freed' : k < nextToken
    BY <1>2, <1>6 DEF Granted
  <1>9. ASSUME NEW t \in Tasks, NEW k \in freed, Holding(t, k)' PROVE FALSE
    <2>1. Holding(t, k) \/ k = nextToken
      BY <1>4, <1>9, HoldingHandle, HoldingOther
    <2> QED
      BY <1>2, <1>7, <2>1 DEF Granted
  <1> QED
    BY <1>5, <1>6, <1>7, <1>8, <1>9 DEF Granted

LEMMA HeldInit == Init => HeldInv
  BY DEF Init, RunInit, HeldInv, Granted, NoToken

LEMMA HeldExcludes == QueueTypeOK /\ SingleInv /\ OneLease /\ HeldInv => ExclusiveExecution
  <1> SUFFICES ASSUME QueueTypeOK, SingleInv, OneLease, HeldInv, Unlapsed,
                      NEW x \in Procs, NEW y \in Procs, x # y,
                      run[x].pc \in Executing, run[y].pc \in Executing,
                      PodOf[run[x].task] = PodOf[run[y].task]
               PROVE  FALSE
    BY DEF ExclusiveExecution, Unlapsed
  <1>1. Placed /\ Single
    BY DEF SingleInv, Unlapsed, Quiet, Spared
  <1>2. run[x].task \in Tasks /\ run[y].task \in Tasks
    BY BusyHasTask DEF Executing
  <1>3. run[x].token \notin freed /\ run[y].token \notin freed
    BY <1>2 DEF HeldInv, Holding
  <1>4. run[x].task = run[y].task
    BY <1>3 DEF OneLease
  <1>5. run[y].pc = "ack"
    BY <1>1, <1>4, AloneAtWork DEF Executing
  <1> QED
    BY <1>5 DEF Executing

\* With the redis lock a pod is never diagnosed twice at once, until a lease
\* runs out in use or a first attempt is delivered again: no release, refusal,
\* cancellation, time-out, failed write or retry lets a second run in.
THEOREM ExclusiveSafe ==
    ASSUME TokenLock
    PROVE  Spec => []ExclusiveExecution
  <1>1. Spec => []HeldInv
    BY HeldNext, HeldInit, CalmInv, LeaseSafe, PTL DEF Spec
  <1> QED
    BY <1>1, HeldExcludes, CalmInv, LeaseSafe, PTL

-----------------------------------------------------------------------------
(* No task is dropped.                                                     *)

\* Nothing happens but leases that run out and slow workers.
Plain == Spared(FaultKinds \ {"expire", "slow"})

\* An entry waits, or a worker is not past the point where it decides about a
\* retry: behind the run, it counts as long as the row says failed.
Ward(t) ==
    \/ \E m \in Waiting : m.task = t
    \/ \E x \in Procs : /\ run[x].task = t /\ run[x].pc \notin {"idle", "ack"}
                        /\ run[x].pc \in {"release", "check"} => TaskFailed(t)

SeenTo(t) == row[t].status = "success" \/ t \in deadLetters \/ Ward(t)

Undimmed == (\A t \in Tasks : cancelling[t] = "no") /\ \A x \in Procs : run[x].ctx = "live"

PlainInv ==
    Plain => /\ Undimmed
             /\ \A m \in Entries : start[m.task].pc = "accepted"
             /\ \A t \in Tasks : start[t].pc = "accepted" => SeenTo(t)

\* The steps of a system without disturbances that matter here.
LEMMA PlainNext ==
    ASSUME QueueTypeOK, Upright, PlainInv, [Next]_vars, Plain'
    PROVE  /\ Plain /\ \A x \in Procs : proc[x] = "up"
           /\ \A k \in {"cancel", "timeout", "db", "unread", "redis"} : ~Disturb(k)
           /\ \/ \E t \in Tasks : Starting(t)
              \/ \E x \in Procs : Read(x) \/ ClaimAny(x) \/ Handling(x) \/ Ack(x)
              \/ \E tm \in timers : FireTimer(tm)
              \/ Context
  <1>1. Plain /\ \A k \in FaultKinds \ {"expire", "slow"} : ~Disturb(k)
    BY SparedBefore DEF Plain
  <1>2. Calm'
    BY DEF Plain, Calm, Spared, FaultKinds
  <1> QED
    BY <1>1, <1>2, CalmNext DEF FaultKinds

LEMMA PlainHandle ==
    ASSUME QueueTypeOK, NEW x \in Procs, Handling(x), proc[x] = "up", run[x].ctx = "live",
           ~Disturb("db"), ~Disturb("unread"), NEW t \in Tasks, SeenTo(t)
    PROVE  SeenTo(t)'
  <1>0. /\ run \in [Procs -> RunType] /\ row \in [Tasks -> [status: Status, cause: Cause]]
        /\ stream' = stream /\ run'[x].task = run[x].task
        /\ run[x].pc \notin {"idle", "ack"} /\ \A y \in Procs \ {x} : run'[y] = run[y]
        /\ timers' = timers \/ \E tm \in Timer : Successor(x, tm)
    BY WorkerEntry DEF QueueTypeOK, RunTypeOK
  <1>1. /\ run[x].task \in Tasks /\ run[x].task = msg[x].task /\ Waiting \subseteq Waiting'
        /\ deadLetters \subseteq deadLetters'
    <2>1. Waiting \subseteq Waiting'
      BY <1>0, WaitingKept DEF Successor
    <2> QED
      BY <1>0, <2>1, BusyHasTask DEF Handling, AcquireExecutionLock, RunStep, TaskFailedRead, TaskFailedWrite,
         RetryOrBury, Bury, queueVars
  <1>2. ASSUME NEW tm \in Timer, Successor(x, tm), run[x].task = t PROVE SeenTo(t)'
    <2>1. tm.entry \in Waiting' /\ tm.entry.task = t
      BY <1>0, <1>1, <1>2, WaitingKept DEF Successor
    <2> QED
      BY <2>1 DEF SeenTo, Ward
  <1>3. CASE run[x].task # t
    <2>1. row'[t] = row[t]
      BY <1>0, <1>1, <1>3 DEF Handling, AcquireExecutionLock, RunStep, Load, Work, Persist, Finish,
           Release, TaskFailedRead, TaskFailedWrite, RetryOrBury, Save
    <2> QED
      BY <1>0, <1>1, <1>3, <2>1 DEF SeenTo, Ward, TaskFailed
  <1>4. ASSUME run[x].task = t,
               run'[x].pc \notin {"idle", "ack"}, run'[x].pc \in {"release", "check"} => TaskFailed(t)'
        PROVE  SeenTo(t)'
    BY <1>0, <1>4 DEF SeenTo, Ward
  <1>5. CASE run[x].task = t /\ AcquireExecutionLock(x)
    <2>1. run'[x].pc = "load" \/ \E tm \in Timer : Successor(x, tm)
      BY <1>5, WorkerEntry DEF AcquireExecutionLock
    <2> QED
      BY <1>2, <1>4, <1>5, <2>1
  <1>6. CASE run[x].task = t /\ (Load(x) \/ Work(x) \/ Persist(x))
    <2>1. run'[x].pc \in {"work", "persist", "finish"}
      BY <1>0, <1>6 DEF Load, Work, Persist, Goto, Conclude, RunType, Fails
    <2> QED
      BY <1>4, <1>6, <2>1
  <1>7. CASE run[x].task = t /\ Finish(x)
    <2>1. run'[x].pc = "release" /\ row'[t].status \in {"success", "failed"}
      BY <1>0, <1>7 DEF Finish, Save, FinalStatus, Goto, RunType, Fails
    <2> QED
      BY <1>4, <1>7, <2>1 DEF SeenTo, TaskFailed
  <1>8. CASE run[x].task = t /\ (Release(x, "check") \/ TaskFailedRead(x))
    <2>1. /\ row' = row /\ run[x].pc \in {"release", "check"}
          /\ TaskFailed(t) => run'[x].pc \in {"check", "requeue"}
      BY <1>0, <1>8 DEF Release, TaskFailedRead, Unreached, Goto, Conclude, RunType
    <2>2. CASE TaskFailed(t)
      BY <1>4, <1>8, <2>1, <2>2 DEF TaskFailed
    <2>3. CASE ~TaskFailed(t)
      BY <1>0, <1>1, <1>8, <2>1, <2>3 DEF SeenTo, Ward, TaskFailed
    <2> QED
      BY <2>2, <2>3
  <1>9. CASE run[x].task = t /\ TaskFailedWrite(x)
    <2>1. run'[x].pc = "retry"
      BY <1>0, <1>9 DEF TaskFailedWrite, Goto, RunType
    <2> QED
      BY <1>4, <1>9, <2>1
  <1>10. CASE run[x].task = t /\ RetryOrBury(x)
    <2>1. ~Retryable(msg[x]) \/ \E tm \in Timer : Successor(x, tm)
      BY <1>10, WorkerEntry DEF RetryOrBury
    <2>2. ~Retryable(msg[x]) => t \in deadLetters'
      BY <1>1, <1>10 DEF RetryOrBury, Bury, Unreached
    <2> QED
      BY <1>2, <1>10, <2>1, <2>2 DEF SeenTo
  <1> QED
    BY <1>3, <1>5, <1>6, <1>7, <1>8, <1>9, <1>10 DEF Handling, RunStep

LEMMA PlainOther ==
    ASSUME QueueTypeOK, Undimmed, \A k \in {"cancel", "timeout", "db", "unread", "redis"} : ~Disturb(k),
           \/ \E u \in Tasks : Starting(u)
           \/ \E x \in Procs : Read(x) \/ ClaimAny(x) \/ Ack(x)
           \/ \E tm \in timers : FireTimer(tm)
           \/ Context,
           NEW t \in Tasks, start[t].pc = "accepted" => SeenTo(t), start'[t].pc = "accepted"
    PROVE  SeenTo(t)'
  <1>1. ASSUME NEW u \in Tasks, Starting(u) PROVE SeenTo(t)'
    <2>1. UNCHANGED <<timers, run, deadLetters>> /\ start[u].pc # "accepted"
      BY <1>1, StartEntry
    <2>2. CASE t = u
      <3>1. FirstEntry(t) \in Message /\ FirstEntry(t).task = t /\ stream' = Append(stream, FirstEntry(t))
        BY <1>1, <2>2, StartEntry DEF Fresh, FirstEntry
      <3>2. FirstEntry(t) \in Waiting'
        BY <2>1, <3>1, WaitingKept
      <3> QED
        BY <3>1, <3>2 DEF SeenTo, Ward
    <2>3. CASE t # u
      <3>1. row'[t] = row[t] /\ start'[t] = start[t]
        BY <1>1, <2>3, StartEntry
      <3>2. Waiting \subseteq Waiting'
        BY <1>1, <2>1, StartEntry, WaitingKept DEF Fresh
      <3> QED
        BY <2>1, <3>1, <3>2 DEF SeenTo, Ward, TaskFailed
    <2> QED
      BY <2>2, <2>3
  <1>2. ASSUME NEW x \in Procs, NEW m \in Message, run[x].pc = "idle", Handle(x, m),
               UNCHANGED <<timers, row, start, deadLetters>>, Elems(stream) \subseteq Elems(stream') \cup {m}
        PROVE  SeenTo(t)'
    <2>1. /\ run'[x].task = m.task /\ run'[x].pc = "acquire" /\ \A y \in Procs \ {x} : run'[y] = run[y]
      BY <1>2, TakeEntry
    <2>2. \A n \in Waiting : n \in Waiting' \/ n = m
      BY <1>2 DEF Waiting
    <2> QED
      BY <1>2, <2>1, <2>2 DEF SeenTo, Ward, TaskFailed
  <1>3. ASSUME NEW x \in Procs, Read(x) PROVE SeenTo(t)'
    BY <1>2, <1>3, ReadEntry
  <1>4. ASSUME NEW x \in Procs, ClaimAny(x) PROVE SeenTo(t)'
    BY <1>2, <1>4 DEF ClaimAny, Claim, WorkerIdle, QueueTypeOK, Elems
  <1>5. ASSUME NEW x \in Procs, Ack(x) PROVE SeenTo(t)'
    <2>1. /\ run[x].pc = "ack" /\ \A y \in Procs \ {x} : run'[y] = run[y]
          /\ UNCHANGED <<stream, timers, row, start, deadLetters>>
      BY <1>5, AckEntry
    <2> QED
      BY <2>1 DEF SeenTo, Ward, TaskFailed, Waiting, Elems
  <1>6. ASSUME NEW tm \in timers, FireTimer(tm) PROVE SeenTo(t)'
    <2>1. /\ timers' = timers \ {tm} /\ Elems(stream') = Elems(stream) \cup {tm.entry}
          /\ UNCHANGED <<run, row, start, deadLetters>>
      BY <1>6, FireEntry
    <2>2. Waiting \subseteq Waiting'
      BY <2>1 DEF Waiting
    <2> QED
      BY <2>1, <2>2 DEF SeenTo, Ward, TaskFailed
  <1>7. CASE Context
    <2>1. /\ UNCHANGED queueVars /\ Waiting' = Waiting
          /\ \A y \in Procs : run'[y].pc = run[y].pc /\ run'[y].task = run[y].task
      BY <1>7, ContextStep, EntriesSame DEF queueVars
    <2>2. row' = row
      BY <1>7 DEF Undimmed, Context, Cancel, CancelRead, CancelSignal, CancelWrite, Timeout, ExpireLease,
             Expire, vars, runVars
    <2> QED
      BY <2>1, <2>2 DEF SeenTo, Ward, TaskFailed, queueVars
  <1> QED
    BY <1>1, <1>3, <1>4, <1>5, <1>6, <1>7

\* Contexts stay alive, and only an accepted task has entries.
LEMMA PlainFrame ==
    ASSUME QueueTypeOK, Undimmed, \A m \in Entries : start[m.task].pc = "accepted",
           \A k \in {"cancel", "timeout", "db", "unread", "redis"} : ~Disturb(k),
           \/ \E u \in Tasks : Starting(u)
           \/ \E x \in Procs : Read(x) \/ ClaimAny(x) \/ Handling(x) \/ Ack(x)
           \/ \E tm \in timers : FireTimer(tm)
           \/ Context
    PROVE  /\ Undimmed'
           /\ \A t \in Tasks : start[t].pc = "accepted" => start'[t].pc = "accepted"
           /\ \A m \in Entries' : start'[m.task].pc = "accepted"
  <1>0. run \in [Procs -> RunType] /\ stream \in Seq(Message)
    BY DEF QueueTypeOK
  <1>1. Undimmed'
    <2>1. ASSUME NEW u \in Tasks, Starting(u) PROVE Undimmed'
      BY <2>1, StartEntry DEF Undimmed
    <2>2. ASSUME NEW x \in Procs, Handling(x) PROVE Undimmed'
      <3>1. cancelling' = cancelling /\ \A y \in Procs \ {x} : run'[y] = run[y]
        BY <2>2, WorkerEntry DEF Handling, AcquireExecutionLock, RunStep, Load, Work, Persist, Finish, Release,
           TaskFailedRead, TaskFailedWrite, RetryOrBury
      <3>2. run'[x].ctx = run[x].ctx
        BY <1>0, <2>2 DEF Handling, AcquireExecutionLock, RunStep, Load, Work, Persist, Finish, Release,
           TaskFailedRead, TaskFailedWrite, RetryOrBury, Goto, Conclude, RunType
      <3> QED
        BY <3>1, <3>2 DEF Undimmed
    <2>3. ASSUME NEW x \in Procs, NEW m \in Message, run[x].pc = "idle", Handle(x, m), cancelling' = cancelling
          PROVE  Undimmed'
      <3>1. run'[x].ctx = "live" /\ \A y \in Procs \ {x} : run'[y] = run[y]
        BY <2>3, TakeEntry
      <3> QED
        BY <2>3, <3>1 DEF Undimmed
    <2>4. ASSUME NEW x \in Procs, Read(x) \/ ClaimAny(x) PROVE Undimmed'
      BY <2>3, <2>4, ReadEntry DEF ClaimAny, Claim, WorkerIdle, QueueTypeOK
    <2>5. ASSUME NEW x \in Procs, Ack(x) PROVE Undimmed'
      BY <2>5, AckEntry DEF Undimmed, Idle
    <2>6. ASSUME NEW tm \in timers, FireTimer(tm) PROVE Undimmed'
      BY <2>6, FireEntry DEF Undimmed
    <2>7. CASE Context
      BY <2>7 DEF Undimmed, Context, Cancel, CancelRead, CancelSignal, CancelWrite, Timeout, ExpireLease,
             Expire, vars, runVars
    <2> QED
      BY <2>1, <2>2, <2>4, <2>5, <2>6, <2>7
  <1>2. ASSUME NEW u \in Tasks, Starting(u)
        PROVE  /\ \A t \in Tasks : start[t].pc = "accepted" => start'[t].pc = "accepted"
               /\ \A m \in Entries' : start'[m.task].pc = "accepted"
    <2>1. /\ UNCHANGED <<pending, timers, msg>> /\ start[u].pc # "accepted"
          /\ \A v \in Tasks \ {u} : start'[v] = start[v]
      BY <1>2, StartEntry
    <2>2. \A m \in Entries' : m \in Entries \/ (m.task = u /\ start'[u].pc = "accepted")
      <3>1. CASE stream' = stream
        BY <2>1, <3>1, EntriesSame
      <3>2. CASE /\ start'[u].pc = "accepted" /\ Fresh(FirstEntry(u))
                 /\ stream' = Append(stream, FirstEntry(u))
        <4>1. Elems(stream') = Elems(stream) \cup {FirstEntry(u)} /\ FirstEntry(u).task = u
          BY <1>0, <3>2, AppendElems DEF Fresh, FirstEntry
        <4> QED
          BY <2>1, <3>2, <4>1 DEF Entries
      <3> QED
        BY <1>2, <3>1, <3>2, StartEntry
    <2>3. \A m \in Entries : m.task \in Tasks /\ m.task # u
      BY <2>1, EntryPlaces DEF Message
    <2> QED
      BY <2>1, <2>2, <2>3
  <1>3. ASSUME NEW x \in Procs, Handling(x)
        PROVE  start' = start /\ \A m \in Entries' : start'[m.task].pc = "accepted"
    <2>1. UNCHANGED <<stream, pending, msg, start>> /\ run[x].pc # "idle"
      BY <1>3, WorkerEntry
    <2>2. CASE timers' = timers
      BY <2>1, <2>2, EntriesSame
    <2>3. ASSUME NEW tm \in Timer, Successor(x, tm) PROVE \A m \in Entries' : start'[m.task].pc = "accepted"
      <3>1. \A m \in Entries' : m \in Entries \/ m = tm.entry
        BY <2>1, <2>3 DEF Successor, Entries, Elems
      <3>2. msg[x] \in Entries /\ tm.entry.task = msg[x].task
        BY <2>1, <2>3, EntryPlaces DEF Successor
      <3> QED
        BY <2>1, <3>1, <3>2
    <2> QED
      BY <1>3, <2>1, <2>2, <2>3, WorkerEntry
  <1>4. CASE \/ \E x \in Procs : Read(x) \/ ClaimAny(x) \/ Ack(x)
             \/ \E tm \in timers : FireTimer(tm)
             \/ Context
    <2>1. start' = start
      BY <1>4, ReadEntry, AckEntry, FireEntry, ContextStep DEF ClaimAny, Claim, queueVars
    <2>2. ASSUME NEW x \in Procs, NEW m \in Entries, run[x].pc = "idle", Handle(x, m),
                 timers' = timers, pending' \subseteq pending \cup {m}, Elems(stream') \subseteq Elems(stream)
          PROVE  Entries' \subseteq Entries
      <3>1. msg'[x] = m /\ \A y \in Procs \ {x} : msg'[y] = msg[y]
        BY <2>2, EntryPlaces, TakeEntry
      <3> QED
        BY <2>2, <3>1 DEF Entries
    <2>3. ASSUME NEW x \in Procs, Read(x) PROVE Entries' \subseteq Entries
      BY <2>2, <2>3, ReadEntry DEF Entries
    <2>4. ASSUME NEW x \in Procs, ClaimAny(x) PROVE Entries' \subseteq Entries
      BY <2>2, <2>4 DEF ClaimAny, Claim, WorkerIdle, Entries, Elems
    <2>5. ASSUME NEW x \in Procs, Ack(x) PROVE Entries' \subseteq Entries
      BY <2>5, AckEntry DEF Entries, Elems
    <2>6. ASSUME NEW tm \in timers, FireTimer(tm) PROVE Entries' \subseteq Entries
      BY <2>6, FireEntry DEF Entries, Elems
    <2>7. ASSUME Context PROVE Entries' \subseteq Entries
      BY <2>7, ContextStep, EntriesSame DEF queueVars
    <2>8. Entries' \subseteq Entries
      BY <1>4, <2>3, <2>4, <2>5, <2>6, <2>7
    <2> QED
      BY <1>1, <2>1, <2>8
  <1> QED
    BY <1>1, <1>2, <1>3, <1>4

LEMMA PlainInit == Init => PlainInv
  <1> SUFFICES ASSUME Init
               PROVE  /\ Undimmed
                      /\ \A m \in Entries : start[m.task].pc = "accepted"
                      /\ \A t \in Tasks : start[t].pc # "accepted"
    BY DEF PlainInv
  <1>1. Entries = {}
    BY DEF Init, Entries, Elems
  <1> QED
    BY <1>1 DEF Init, RunInit, Undimmed, Idle, Over

LEMMA PlainKept == QueueTypeOK /\ Upright /\ PlainInv /\ [Next]_vars => PlainInv'
  <1> SUFFICES ASSUME QueueTypeOK, Upright, PlainInv, [Next]_vars, Plain'
               PROVE  /\ Undimmed'
                      /\ \A m \in Entries' : start'[m.task].pc = "accepted"
                      /\ \A t \in Tasks : start'[t].pc = "accepted" => SeenTo(t)'
    BY DEF PlainInv
  <1>1. /\ Plain /\ \A x \in Procs : proc[x] = "up"
        /\ \A k \in {"cancel", "timeout", "db", "unread", "redis"} : ~Disturb(k)
        /\ \/ \E u \in Tasks : Starting(u)
           \/ \E x \in Procs : Read(x) \/ ClaimAny(x) \/ Handling(x) \/ Ack(x)
           \/ \E tm \in timers : FireTimer(tm)
           \/ Context
    BY PlainNext
  <1>2. /\ Undimmed
        /\ \A m \in Entries : start[m.task].pc = "accepted"
        /\ \A t \in Tasks : start[t].pc = "accepted" => SeenTo(t)
    BY <1>1 DEF PlainInv
  <1>3. ASSUME NEW t \in Tasks, start'[t].pc = "accepted", NEW x \in Procs, Handling(x) PROVE SeenTo(t)'
    <2>1. start' = start /\ run[x].ctx = "live"
      BY <1>2, <1>3, WorkerEntry DEF Undimmed
    <2> QED
      BY <1>1, <1>2, <1>3, <2>1, PlainHandle
  <1>4. \A t \in Tasks : start'[t].pc = "accepted" => SeenTo(t)'
    BY <1>1, <1>2, <1>3, PlainOther
  <1> QED
    BY <1>1, <1>2, <1>4, PlainFrame

\* Exhausted retries are written to the dead letter table: while no store
\* fails and nobody cancels, crashes or drains, a task that was accepted is a
\* success, or in the table, or has an entry some worker still answers for, so
\* an entry that is acknowledged after its last attempt leaves none behind.
THEOREM ExhaustedSafe == Spec => ExhaustedIsDeadLettered
  <1> DEFINE Step ==
        Spared(FaultKinds \ {"expire", "slow"})' =>
          \A m \in pending \ pending' :
              ~Retryable(m) /\ row'[m.task].status # "success"
                  => \/ m.task \in deadLetters'
                     \/ \E n \in Entries' : n.task = m.task
  <1>1. Spec => []PlainInv
    BY PlainKept, PlainInit, CalmInv, PTL DEF Spec
  <1>2. QueueTypeOK /\ Upright /\ PlainInv /\ [Next]_vars => Step
    <2> SUFFICES ASSUME QueueTypeOK, Upright, PlainInv, [Next]_vars, Plain', NEW m \in pending,
                        row'[m.task].status # "success", m.task \notin deadLetters'
                 PROVE  \E n \in Entries' : n.task = m.task
      BY DEF Plain
    <2> DEFINE t == m.task
    <2>1. m \in Entries /\ t \in Tasks
      BY EntryPlaces DEF Message
    <2>2. start[t].pc = "accepted" /\ start'[t].pc = "accepted"
      <3>1. Plain
        BY PlainNext
      <3>2. /\ Undimmed /\ \A n \in Entries : start[n.task].pc = "accepted"
        BY <3>1 DEF PlainInv
      <3> QED
        BY <2>1, <3>2, PlainNext, PlainFrame
    <2>3. QueueTypeOK' /\ PlainInv'
      BY TypeNext, PlainKept
    <2>4. Ward(t)'
      BY <2>1, <2>2, <2>3 DEF PlainInv, SeenTo
    <2>5. Waiting' \subseteq Entries'
      BY DEF Waiting, Entries
    <2>6. ASSUME NEW x \in Procs, run'[x].task = t, run'[x].pc # "idle"
          PROVE  msg'[x] \in Entries' /\ msg'[x].task = t
      BY <2>3, <2>6, MessageIdType DEF QueueTypeOK, Matches, Entries
    <2> QED
      BY <2>4, <2>5, <2>6 DEF Ward
  <1> QED
    BY <1>1, <1>2, CalmInv, PTL DEF Spec, ExhaustedIsDeadLettered

-----------------------------------------------------------------------------
(* The queue implements TaskLifecycle: as long as nothing but running-out  *)
(* leases disturbs it, every step of a handler, a worker or a timer is a   *)
(* step of the lifecycle of one task, or changes no task's lifecycle. That *)
(* every task ends is liveness, and stays with the model checker.          *)

\* Nothing happens but leases that run out.
Serene == Spared(FaultKinds \ {"expire"})

LEMMA SereneIs ==
    ASSUME Serene
    PROVE  Plain /\ Quiet /\ Unasked /\ Calm
  BY SparedFewer DEF Serene, Plain, Quiet, Unasked, Calm, FaultKinds, Redelivery

\* A task in the dead letter table is over: nothing of it waits, and the worker
\* that buried it has only its acknowledgement left.
Interred(t) ==
    /\ start[t].pc \notin {"no", "locked", "created"}
    /\ \A m \in Waiting : m.task # t
    /\ \A x \in Procs : run[x].task = t => run[x].pc = "ack"

InterredInv == Serene => \A t \in deadLetters : Interred(t)

LifeInv == /\ QueueTypeOK /\ Upright /\ Named /\ SingleInv
           /\ FinalInv /\ PlainInv /\ InterredInv

\* What LifeInv says of a serene system.
LEMMA SereneState ==
    ASSUME LifeInv, Serene
    PROVE  /\ QueueTypeOK /\ Named /\ Placed /\ Single /\ Undimmed
           /\ \A x \in Procs : proc[x] = "up"
           /\ \A m \in Entries : start[m.task].pc = "accepted"
           /\ \A t \in Tasks : start[t].pc = "accepted" => SeenTo(t)
           /\ \A t \in Tasks : row[t].status = "success" => Settled(t)
           /\ \A t \in deadLetters : Interred(t)
  BY SereneIs DEF LifeInv, SingleInv, FinalInv, PlainInv, InterredInv, Upright

\* The steps of a serene system.
LEMMA SereneNext ==
    ASSUME LifeInv, [Next]_vars, Serene'
    PROVE  /\ Serene /\ \A k \in FaultKinds \ {"expire"} : ~Disturb(k)
           /\ \/ \E t \in Tasks : Starting(t)
              \/ \E x \in Procs : Read(x) \/ Handling(x) \/ Ack(x)
              \/ \E tm \in timers : FireTimer(tm)
              \/ Context
  <1>1. Serene /\ \A k \in FaultKinds \ {"expire"} : ~Disturb(k)
    BY SparedBefore DEF Serene, LifeInv
  <1>2. Quiet'
    BY DEF Serene, Quiet, Spared, FaultKinds, Redelivery
  <1> QED
    BY <1>1, <1>2, QuietNext DEF LifeInv

\* The worker of a task that is not over has its only entry in hand.
LEMMA WorkerAlone ==
    ASSUME LifeInv, Serene, NEW x \in Procs, run[x].pc \notin {"idle", "ack"}
    PROVE  /\ run[x].task \in Tasks /\ run[x].task = msg[x].task
           /\ start[run[x].task].pc = "accepted" /\ run[x].task \notin deadLetters
           /\ Live(run[x].task) = {msg[x]} /\ msg[x] \in Message
           /\ run[x].pc \notin {"release", "check"} => row[run[x].task].status # "success"
           /\ run[x].pc \in {"release", "check"} /\ row[run[x].task].status # "success"
                  => TaskFailed(run[x].task)
  <1> DEFINE t == run[x].task
  <1>1. /\ msg[x] \in Entries /\ msg[x] \in Message /\ t \in Tasks /\ t = msg[x].task /\ QueueTypeOK
        /\ msg[x] # NoMsg
    BY SereneState, EntryPlaces, BusyHasTask DEF InHand
  <1>2. start[t].pc = "accepted"
    BY <1>1, SereneState
  <1>3. t \notin deadLetters
    BY SereneState DEF Interred
  <1>4. Live(t) = {msg[x]}
    <2>1. ~Superseded(msg[x])
      BY <1>1, SereneState DEF Superseded, Placed
    <2>2. msg[x] \in Live(t)
      BY <1>1, <2>1 DEF Live
    <2> QED
      BY <1>1, <2>2, SereneState DEF Single
  <1>5. run[x].pc \notin {"release", "check"} => row[t].status # "success"
    BY <1>1, SereneState DEF Settled
  <1>6. ASSUME run[x].pc \in {"release", "check"}, row[t].status # "success" PROVE TaskFailed(t)
    <2>1. Ward(t)
      BY <1>1, <1>2, <1>3, <1>6, SereneState DEF SeenTo
    <2> QED
      BY <1>6, <2>1, SereneState, AloneAtWork DEF Ward
  <1> QED
    BY <1>1, <1>2, <1>3, <1>4, <1>5, <1>6

-----------------------------------------------------------------------------
(* A buried task stays buried.                                             *)

LEMMA InterredHandle ==
    ASSUME LifeInv, Serene, NEW x \in Procs, Handling(x), NEW t \in deadLetters'
    PROVE  Interred(t)'
  <1>0. /\ stream' = stream /\ start' = start /\ QueueTypeOK
        /\ run[x].pc \notin {"idle", "ack"} /\ run'[x].task = run[x].task
        /\ \A y \in Procs \ {x} : run'[y] = run[y]
        /\ \/ timers' = timers
           \/ run[x].pc \in {"acquire", "retry"} /\ \E tm \in Timer : Successor(x, tm)
    BY SereneState, WorkerEntry
  <1>1. /\ run[x].task \in Tasks /\ run[x].task = msg[x].task /\ run[x].task \notin deadLetters
    BY <1>0, WorkerAlone
  <1>2. CASE t \in deadLetters
    <2>1. Interred(t) /\ run[x].task # t
      BY <1>1, <1>2, SereneState
    <2>2. \A m \in Waiting' : m \in Waiting \/ m.task # t
      BY <1>0, <1>1, <2>1, WaitingKept DEF Successor
    <2> QED
      BY <1>0, <2>1, <2>2 DEF Interred
  <1>3. CASE t \notin deadLetters
    <2>1. RetryOrBury(x) /\ Bury(msg[x].task) /\ timers' = timers /\ run'[x].pc = "ack"
      <3>1. deadLetters' # deadLetters
        BY <1>3
      <3>2. RetryOrBury(x) /\ run \in [Procs -> RunType]
        BY <1>0, <3>1 DEF Handling, AcquireExecutionLock, RunStep, TaskFailedRead, TaskFailedWrite, queueVars,
           QueueTypeOK
      <3> QED
        BY <1>0, <3>1, <3>2 DEF RetryOrBury, Goto, RunType
    <2>2. t = run[x].task
      BY <1>1, <1>3, <2>1 DEF Bury
    <2>3. /\ start[t].pc = "accepted" /\ \A m \in Waiting : m.task # t
          /\ \A y \in Procs \ {x} : run[y].task = t => run[y].pc = "ack"
      BY <1>0, <2>2, WorkerAlone, SereneState, AloneAtWork
    <2>4. Waiting' = Waiting
      BY <1>0, <2>1, WaitingKept
    <2> QED
      BY <1>0, <2>1, <2>3, <2>4 DEF Interred
  <1> QED
    BY <1>2, <1>3

LEMMA InterredOther ==
    ASSUME LifeInv, Serene,
           \/ \E u \in Tasks : Starting(u)
           \/ \E x \in Procs : Read(x) \/ Ack(x)
           \/ \E tm \in timers : FireTimer(tm)
           \/ Context,
           NEW t \in deadLetters'
    PROVE  Interred(t)'
  <1>0. QueueTypeOK
    BY SereneState
  <1>1. ASSUME NEW u \in Tasks, Starting(u) PROVE Interred(t)'
    <2>1. /\ UNCHANGED <<timers, run, deadLetters>> /\ start[u].pc \in {"no", "locked", "created"}
          /\ \A v \in Tasks \ {u} : start'[v] = start[v]
          /\ \/ stream' = stream
             \/ FirstEntry(u) \in Message /\ FirstEntry(u).task = u /\ stream' = Append(stream, FirstEntry(u))
      BY <1>0, <1>1, StartEntry DEF Fresh, FirstEntry
    <2>2. t \in deadLetters /\ Interred(t) /\ t # u /\ t \in Tasks
      BY <1>0, <2>1, SereneState DEF Interred, QueueTypeOK
    <2>3. \A m \in Waiting' : m \in Waiting \/ m.task # t
      <3>1. CASE stream' = stream
        BY <1>0, <2>1, <3>1, WaitingKept
      <3>2. CASE FirstEntry(u) \in Message /\ FirstEntry(u).task = u /\ stream' = Append(stream, FirstEntry(u))
        <4>1. Waiting' = Waiting \cup {FirstEntry(u)}
          BY <1>0, <2>1, <3>2, WaitingKept
        <4> QED
          BY <2>2, <3>2, <4>1
      <3> QED
        BY <2>1, <3>1, <3>2
    <2> QED
      BY <2>1, <2>2, <2>3 DEF Interred
  <1>2. ASSUME NEW x \in Procs, Read(x) PROVE Interred(t)'
    <2>1. /\ Head(stream) \in Message /\ run[x].pc = "idle" /\ Handle(x, Head(stream))
          /\ Elems(stream) = Elems(stream') \cup {Head(stream)}
          /\ UNCHANGED <<timers, start, deadLetters>>
      BY <1>0, <1>2, ReadEntry
    <2>2. run'[x].task = Head(stream).task /\ \A y \in Procs \ {x} : run'[y] = run[y]
      BY <1>0, <2>1, TakeEntry
    <2>3. Waiting' \subseteq Waiting /\ Head(stream) \in Waiting
      BY <2>1 DEF Waiting
    <2> QED
      BY <2>1, <2>2, <2>3, SereneState DEF Interred
  <1>3. ASSUME NEW x \in Procs, Ack(x) PROVE Interred(t)'
    <2>1. /\ run'[x] = Idle /\ \A y \in Procs \ {x} : run'[y] = run[y]
          /\ UNCHANGED <<stream, timers, start, deadLetters>>
      BY <1>0, <1>3, AckEntry
    <2>2. run'[x].task # t
      BY <1>0, <2>1, NoTaskType DEF Idle, QueueTypeOK
    <2> QED
      BY <2>1, <2>2, SereneState DEF Interred, Waiting, Elems
  <1>4. ASSUME NEW tm \in timers, FireTimer(tm) PROVE Interred(t)'
    <2>1. /\ timers' = timers \ {tm}
          /\ stream' = stream \/ Elems(stream') = Elems(stream) \cup {tm.entry}
          /\ UNCHANGED <<run, start, deadLetters>>
      BY <1>0, <1>4, FireEntry
    <2>2. Waiting' \subseteq Waiting
      BY <2>1 DEF Waiting, Elems
    <2> QED
      BY <2>1, <2>2, SereneState DEF Interred
  <1>5. CASE Context
    <2>1. /\ UNCHANGED queueVars /\ Waiting' = Waiting
          /\ \A y \in Procs : run'[y].pc = run[y].pc /\ run'[y].task = run[y].task
      BY <1>0, <1>5, ContextStep, EntriesSame DEF queueVars
    <2> QED
      BY <2>1, SereneState DEF Interred, queueVars
  <1> QED
    BY <1>1, <1>2, <1>3, <1>4, <1>5

\* The invariant the refinement rests on.
LEMMA LifeAlways == Spec => []LifeInv
  <1> DEFINE Inv == QueueTypeOK /\ Upright /\ Named /\ SingleInv
  <1>1. Inv /\ FinalInv /\ [Next]_vars => FinalInv'
    BY FinalStep DEF FinalInv
  <1>2. Inv /\ PlainInv /\ [Next]_vars => PlainInv'
    BY PlainKept
  <1>3. LifeInv /\ [Next]_vars => InterredInv'
    <2> SUFFICES ASSUME LifeInv, [Next]_vars, Serene', NEW t \in deadLetters' PROVE Interred(t)'
      BY DEF InterredInv
    <2> QED
      BY SereneNext, InterredHandle, InterredOther
  <1>4. Init => InterredInv
    BY DEF Init, InterredInv
  <1>5. Inv /\ FinalInv /\ PlainInv /\ InterredInv <=> LifeInv
    BY DEF LifeInv
  <1> HIDE DEF Inv
  <1>6. Spec => []Inv
    BY CalmInv, PTL DEF Inv
  <1> QED
    BY <1>1, <1>2, <1>3, <1>4, <1>5, <1>6, FinalInit, PlainInit, PTL DEF Spec

-----------------------------------------------------------------------------
(* The refinement mapping.                                                 *)

LEMMA PhaseIs ==
    ASSUME NEW t \in Tasks
    PROVE  /\ row[t].status = "success" => Phase(t) = "success"
           /\ row[t].status # "success" /\ t \in deadLetters => Phase(t) = "buried"
           /\ row[t].status # "success" /\ t \notin deadLetters /\ start[t].pc # "accepted"
                  => Phase(t) = "absent"
           /\ row[t].status # "success" /\ t \notin deadLetters /\ start[t].pc = "accepted"
                  => Phase(t) = "open"
  BY DEF Phase

LEMMA AttemptIs ==
    ASSUME NEW t \in Tasks
    PROVE  /\ Phase(t) # "open" => Attempt(t) = 0
           /\ \A m : Phase(t) = "open" /\ Live(t) = {m} => Attempt(t) = m.attempts
  BY DEF Attempt

\* The lifecycle of t, as one step of the queue changes it.
Same(t)      == Phase(t)' = Phase(t) /\ Attempt(t)' = Attempt(t)
Accepted(t)  == Phase(t) = "absent" /\ Phase(t)' = "open" /\ Attempt(t)' = Attempt(t)
Retried(t)   == Phase(t) = "open" /\ Phase(t)' = "open"
                    /\ Attempt(t) < MaxRetry /\ Attempt(t)' = Attempt(t) + 1
Succeeded(t) == Phase(t) = "open" /\ Phase(t)' = "success" /\ Attempt(t)' = 0
Buried(t)    == Phase(t) = "open" /\ Attempt(t) = MaxRetry /\ Phase(t)' = "buried" /\ Attempt(t)' = 0
Moved(t)     == Same(t) \/ Accepted(t) \/ Retried(t) \/ Succeeded(t) \/ Buried(t)

LEMMA SameWhen ==
    ASSUME NEW t \in Tasks, Live(t)' = Live(t),
           row'[t].status = "success" <=> row[t].status = "success",
           t \in deadLetters' <=> t \in deadLetters,
           start'[t].pc = "accepted" <=> start[t].pc = "accepted"
    PROVE  Same(t)
  <1>1. Phase(t)' = Phase(t)
    BY PhaseIs DEF Phase
  <1> QED
    BY <1>1 DEF Same, Attempt

\* A step that moves one task, and leaves the others where they are, is a step
\* of the lifecycle or changes nothing in it.
LEMMA StepMaps ==
    ASSUME NEW t \in Tasks, Moved(t), \A u \in Tasks \ {t} : Same(u)
    PROVE  [Lifecycle!Next]_(Lifecycle!taskVars)
  <1> DEFINE phase == [u \in Tasks |-> Phase(u)]
             attempt == [u \in Tasks |-> Attempt(u)]
  <1>1. CASE Same(t)
    <2>1. phase' = phase /\ attempt' = attempt
      BY <1>1 DEF Same
    <2> QED
      BY <2>1 DEF Lifecycle!taskVars
  <1>2. CASE Accepted(t)
    <2>1. phase' = [phase EXCEPT ![t] = "open"] /\ attempt' = attempt /\ phase[t] = "absent"
      BY <1>2 DEF Same, Accepted
    <2> QED
      BY <2>1 DEF Lifecycle!Next, Lifecycle!Accept
  <1>3. CASE Retried(t)
    <2>1. phase' = phase /\ attempt' = [attempt EXCEPT ![t] = @ + 1] /\ phase[t] = "open"
          /\ attempt[t] < MaxRetry
      BY <1>3 DEF Same, Retried
    <2> QED
      BY <2>1 DEF Lifecycle!Next, Lifecycle!Retry
  <1>4. CASE Succeeded(t)
    <2>1. phase' = [phase EXCEPT ![t] = "success"] /\ attempt' = [attempt EXCEPT ![t] = 0]
          /\ phase[t] = "open"
      BY <1>4 DEF Same, Succeeded
    <2> QED
      BY <2>1 DEF Lifecycle!Next, Lifecycle!Succeed, Lifecycle!End
  <1>5. CASE Buried(t)
    <2>1. phase' = [phase EXCEPT ![t] = "buried"] /\ attempt' = [attempt EXCEPT ![t] = 0]
          /\ phase[t] = "open" /\ attempt[t] = MaxRetry
      BY <1>5 DEF Same, Buried
    <2> QED
      BY <2>1 DEF Lifecycle!Next, Lifecycle!Bury, Lifecycle!End
  <1> QED
    BY <1>1, <1>2, <1>3, <1>4, <1>5 DEF Moved

-----------------------------------------------------------------------------
(* Steps that move no task.                                                *)

\* Starting a diagnosis: nothing until the entry is in the stream.
LEMMA LifeStart ==
    ASSUME LifeInv, Serene, ~Disturb("redis"), NEW t \in Tasks, Starting(t)
    PROVE  Moved(t) /\ \A u \in Tasks \ {t} : Same(u)
  <1>0. /\ QueueTypeOK /\ stream \in Seq(Message) /\ row \in [Tasks -> [status: Status, cause: Cause]]
        /\ UNCHANGED <<pending, timers, msg, run, deadLetters>>
        /\ start[t].pc \in {"no", "locked", "created"}
        /\ \A u \in Tasks \ {t} : start'[u] = start[u] /\ row'[u] = row[u]
    BY SereneState, StartEntry DEF QueueTypeOK, RunTypeOK
  <1>1. t \notin deadLetters /\ row[t].status # "success" /\ Phase(t) = "absent"
    BY <1>0, SereneState, PhaseIs DEF Interred, Settled
  <1>2. \A m : Superseded(m)' <=> Superseded(m)
    BY <1>0 DEF Superseded
  <1>3. row'[t].status # "success"
    BY <1>0, <1>1 DEF Starting, StartLock, StartRefused, StartStep, StartCreate, StartEnqueue, Save, runVars
  <1>4. CASE stream' = stream /\ start'[t].pc # "accepted"
    <2>1. Entries' = Entries
      BY <1>0, <1>4, EntriesSame
    <2>2. \A u \in Tasks : Live(u)' = Live(u)
      BY <1>2, <2>1 DEF Live
    <2> QED
      BY <1>0, <1>1, <1>3, <1>4, <2>2, SameWhen DEF Moved
  <1>5. CASE /\ start'[t].pc = "accepted" /\ Fresh(FirstEntry(t))
             /\ stream' = Append(stream, FirstEntry(t))
    <2> DEFINE e == FirstEntry(t)
    <2>1. e \in Message /\ e.task = t /\ e.attempts = 0 /\ e \notin Entries
      BY <1>5 DEF Fresh, FirstEntry
    <2>2. Entries' = Entries \cup {e}
      <3>1. Elems(stream') = Elems(stream) \cup {e}
        BY <1>0, <1>5, <2>1, AppendElems
      <3> QED
        BY <1>0, <3>1 DEF Entries
    <2>3. ~Superseded(e)
      BY <1>0, <2>1, EntryPlaces DEF Superseded, InHand
    <2>4. Live(t)' = {e}
      <3>1. \A m \in Entries : m.task # t
        BY <1>0, SereneState DEF Single
      <3> QED
        BY <1>2, <2>1, <2>2, <2>3, <3>1 DEF Live
    <2>5. \A u \in Tasks \ {t} : Live(u)' = Live(u)
      BY <1>2, <2>1, <2>2 DEF Live
    <2>6. Phase(t)' = "open"
      BY <1>0, <1>1, <1>3, <1>5 DEF Phase
    <2>7. Attempt(t)' = 0
      BY <2>1, <2>4, <2>6 DEF Attempt
    <2> HIDE DEF e
    <2>8. Accepted(t)
      BY <1>1, <2>6, <2>7, AttemptIs DEF Accepted
    <2> QED
      BY <1>0, <2>5, <2>8, SameWhen DEF Moved
  <1> QED
    BY <1>0, <1>4, <1>5, StartEntry

\* Entries that move, or are dropped after a successor was scheduled.
LEMMA LifeOther ==
    ASSUME LifeInv, Serene, \A k \in {"cancel", "timeout", "redis", "unacked"} : ~Disturb(k),
           \/ \E x \in Procs : Read(x) \/ Ack(x)
           \/ \E tm \in timers : FireTimer(tm)
           \/ Context,
           NEW t \in Tasks
    PROVE  Same(t)
  <1>0. QueueTypeOK /\ Named /\ Placed /\ Undimmed
    BY SereneState
  <1>1. ASSUME NEW x \in Procs, Read(x) PROVE Same(t)
    <2> DEFINE m == Head(stream)
    <2>1. /\ m \in Message /\ run[x].pc = "idle" /\ Handle(x, m) /\ pending' = pending \cup {m}
          /\ m \in Elems(stream) /\ Elems(stream) = Elems(stream') \cup {m}
          /\ UNCHANGED <<timers, row, start, deadLetters>>
      BY <1>0, <1>1, ReadEntry
    <2>2. /\ msg[x] = NoMsg /\ msg'[x] = m /\ run'[x].pc = "acquire"
          /\ \A y \in Procs \ {x} : msg'[y] = msg[y] /\ run'[y] = run[y]
      BY <1>0, <2>1, TakeEntry
    <2> HIDE DEF m
    <2>3. InHand' = InHand \cup {m}
      BY <1>0, <2>1, <2>2, EntryPlaces DEF InHand
    <2>4. Entries' = Entries
      BY <2>1, <2>3 DEF Entries, InHand
    <2>5. \A n \in Entries : Superseded(n)' <=> Superseded(n)
      BY <2>1, <2>2 DEF Superseded
    <2> QED
      BY <2>1, <2>4, <2>5, SameWhen DEF Live
  <1>2. ASSUME NEW x \in Procs, Ack(x) PROVE Same(t)
    <2>1. /\ run[x].pc = "ack" /\ msg[x] \in Message /\ msg'[x] = NoMsg /\ run'[x].pc = "idle"
          /\ \A y \in Procs \ {x} : msg'[y] = msg[y] /\ run'[y] = run[y]
          /\ pending' = {m \in pending : m.id # msg[x].id}
          /\ UNCHANGED <<stream, timers, row, start, deadLetters>>
      BY <1>0, <1>2, SereneState, AckEntry DEF Idle
    <2>2. msg[x] # NoMsg /\ msg[x] \in Entries
      BY <1>0, <2>1, EntryPlaces DEF InHand
    <2>3. Entries' \subseteq Entries /\ \A m \in Entries : m = msg[x] \/ m \in Entries'
      <3>1. \A m \in InHand : m = msg[x] \/ m \in InHand'
        BY <2>1 DEF InHand
      <3>2. \A m \in InHand' : m \in InHand
        BY <2>1 DEF InHand
      <3>3. \A m \in pending : m = msg[x] \/ m \in pending'
        BY <1>0, <2>1, <2>2 DEF Named, Entries
      <3> QED
        BY <2>1, <3>1, <3>2, <3>3 DEF Entries, InHand, Elems
    <2>4. msg[x] \notin Entries'
      <3>1. msg[x] \notin Elems(stream) /\ msg[x] \notin Timed /\ msg[x] \in InHand
        BY <1>0, <2>1, <2>2, EntryPlaces DEF Placed
      <3>2. \A y \in Procs : msg'[y] # msg[x]
        BY <1>0, <2>1, <2>2 DEF Placed
      <3> QED
        BY <2>1, <3>1, <3>2 DEF Entries, Timed, Elems
    <2>5. \A m \in Entries' : Superseded(m)' <=> Superseded(m)
      BY <2>1, <2>4 DEF Superseded
    <2>6. Superseded(msg[x])
      BY <2>1 DEF Superseded
    <2>7. Live(t)' = Live(t)
      BY <2>3, <2>5, <2>6 DEF Live
    <2> QED
      BY <2>1, <2>7, SameWhen
  <1>3. ASSUME NEW tm \in timers, FireTimer(tm) PROVE Same(t)
    <2>1. /\ timers' = timers \ {tm} /\ Elems(stream') = Elems(stream) \cup {tm.entry}
          /\ UNCHANGED <<run, row, start, deadLetters, pending, msg>>
      BY <1>0, <1>3, FireEntry
    <2>2. Entries' = Entries
      BY <2>1 DEF Entries
    <2>3. \A n : Superseded(n)' <=> Superseded(n)
      BY <2>1 DEF Superseded
    <2> QED
      BY <2>1, <2>2, <2>3, SameWhen DEF Live
  <1>4. CASE Context
    <2>1. /\ UNCHANGED queueVars /\ Entries' = Entries
          /\ \A y \in Procs : run'[y].pc = run[y].pc
      BY <1>0, <1>4, ContextStep, EntriesSame DEF queueVars
    <2>2. row' = row
      BY <1>0, <1>4 DEF Undimmed, Context, Cancel, CancelRead, CancelSignal, CancelWrite, Timeout, ExpireLease,
             Expire, vars, runVars
    <2>3. \A n : Superseded(n)' <=> Superseded(n)
      BY <2>1 DEF Superseded, queueVars
    <2> QED
      BY <2>1, <2>2, <2>3, SameWhen DEF Live, queueVars
  <1> QED
    BY <1>1, <1>2, <1>3, <1>4

-----------------------------------------------------------------------------
(* Steps of a worker that handles an entry.                                *)

\* Only the task of the entry can move.
LEMMA LifeOthers ==
    ASSUME LifeInv, Serene, NEW x \in Procs, Handling(x), NEW u \in Tasks, u # run[x].task
    PROVE  Same(u)
  <1>0. /\ QueueTypeOK /\ UNCHANGED <<stream, pending, msg, start>>
        /\ run[x].pc \notin {"idle", "ack"} /\ \A y \in Procs \ {x} : run'[y] = run[y]
        /\ timers' = timers \/ \E tm \in Timer : Successor(x, tm)
        /\ row \in [Tasks -> [status: Status, cause: Cause]]
        /\ run[x].task \in Tasks /\ run[x].task = msg[x].task /\ msg[x] \in Message
    BY SereneState, WorkerEntry, WorkerAlone DEF QueueTypeOK, RunTypeOK
  <1>1. row'[u] = row[u] /\ (u \in deadLetters' <=> u \in deadLetters)
    BY <1>0 DEF Handling, AcquireExecutionLock, RunStep, Load, Work, Persist, Finish, Release,
       TaskFailedRead, TaskFailedWrite, RetryOrBury, Bury, Save, queueVars
  <1>2. \A m : m.task = u => (m \in Entries' <=> m \in Entries)
    <2>1. CASE timers' = timers
      BY <1>0, <2>1, EntriesSame
    <2>2. ASSUME NEW tm \in Timer, Successor(x, tm)
          PROVE  \A m : m.task = u => (m \in Entries' <=> m \in Entries)
      <3>1. Entries' = Entries \cup {tm.entry} /\ tm.entry.task # u
        BY <1>0, <2>2 DEF Successor, Entries, Elems
      <3> QED
        BY <3>1
    <2> QED
      BY <1>0, <2>1, <2>2
  <1>3. \A m : m.task = u => (Superseded(m)' <=> Superseded(m))
    BY <1>0 DEF Superseded
  <1>4. Live(u)' = Live(u)
    BY <1>2, <1>3 DEF Live
  <1> QED
    BY <1>0, <1>1, <1>4, SameWhen

\* As long as the worker neither schedules nor buries, its entry stays the one.
LEMMA LifeWorks ==
    ASSUME LifeInv, Serene, NEW x \in Procs, Handling(x), timers' = timers, run'[x].pc # "ack",
           NEW t \in Tasks
    PROVE  Live(t)' = Live(t)
  <1>0. /\ QueueTypeOK /\ UNCHANGED <<stream, pending, msg, start>>
        /\ run[x].pc \notin {"idle", "ack"} /\ \A y \in Procs \ {x} : run'[y] = run[y]
    BY SereneState, WorkerEntry
  <1>1. Entries' = Entries
    BY <1>0, EntriesSame
  <1>2. \A m : Superseded(m)' <=> Superseded(m)
    BY <1>0 DEF Superseded
  <1> QED
    BY <1>1, <1>2 DEF Live

\* The entry a worker schedules takes the place of the one it gives up.
LEMMA LifeSucceeds ==
    ASSUME LifeInv, Serene, NEW x \in Procs, Handling(x), run'[x].pc = "ack",
           NEW tm \in Timer, Successor(x, tm), NEW t \in Tasks, t = run[x].task
    PROVE  Live(t)' = {tm.entry}
  <1> DEFINE e == tm.entry
  <1>0. /\ QueueTypeOK /\ Placed /\ UNCHANGED <<stream, pending, msg, start>>
        /\ run[x].pc \notin {"idle", "ack"} /\ \A y \in Procs \ {x} : run'[y] = run[y]
        /\ t = msg[x].task /\ msg[x] \in Message /\ Live(t) = {msg[x]}
    BY SereneState, WorkerEntry, WorkerAlone
  <1>1. e \in Message /\ e.task = t /\ e \notin Entries /\ Entries' = Entries \cup {e}
    BY <1>0 DEF Successor, Fresh, Entries, Elems
  <1>2. \A m \in Entries : m.task = t /\ m # msg[x] => Superseded(m)
    BY <1>0 DEF Live
  <1>3. \A m : Superseded(m) => Superseded(m)'
    BY <1>0 DEF Superseded
  <1>4. Superseded(msg[x])'
    BY <1>0 DEF Superseded
  <1>5. ~Superseded(e)'
    <2>1. \A y \in Procs : msg[y] # e
      <3>1. e # NoMsg
        BY <1>0, <1>1, EntryPlaces
      <3> QED
        BY <1>1, <3>1 DEF Entries
    <2> QED
      BY <1>0, <2>1 DEF Superseded
  <1>6. e \in Live(t)'
    BY <1>1, <1>5 DEF Live
  <1>7. \A n \in Live(t)' : n = e
    <2> SUFFICES ASSUME NEW n \in Entries', n.task = t, ~Superseded(n)' PROVE n = e
      BY DEF Live
    <2>1. n \in Entries \/ n = e
      BY <1>1
    <2> QED
      BY <1>0, <1>2, <1>3, <1>4, <2>1
  <1> QED
    BY <1>6, <1>7

LEMMA LifeHandle ==
    ASSUME LifeInv, Serene, NEW x \in Procs, Handling(x), ~Disturb("db"), ~Disturb("unread"),
           NEW t \in Tasks, t = run[x].task
    PROVE  Moved(t)
  <1> DEFINE m == msg[x]
  <1>0. /\ QueueTypeOK /\ UNCHANGED <<stream, pending, msg, start>> /\ run \in [Procs -> RunType]
        /\ run[x].pc \notin {"idle", "ack"} /\ row \in [Tasks -> [status: Status, cause: Cause]]
        /\ t = m.task /\ m \in Message /\ start[t].pc = "accepted" /\ t \notin deadLetters
        /\ Live(t) = {m} /\ proc[x] = "up" /\ run[x].ctx = "live"
    BY SereneState, WorkerEntry, WorkerAlone DEF QueueTypeOK, RunTypeOK, Undimmed
  <1>1. row[t].status # "success" => Phase(t) = "open" /\ Attempt(t) = m.attempts
    BY <1>0, PhaseIs, AttemptIs
  <1>2. ASSUME timers' = timers, run'[x].pc # "ack", row'[t].status = "success" <=> row[t].status = "success",
               deadLetters' = deadLetters
        PROVE  Same(t)
    BY <1>0, <1>2, LifeWorks, SameWhen
  <1>3. ASSUME NEW a \in 0..MaxRetry, NEW k \in Nat, ScheduleRetry(x, m, a, k), a > 0,
               row' = row, deadLetters' = deadLetters, run'[x].pc = "ack", row[t].status # "success"
        PROVE  Phase(t)' = "open" /\ Attempt(t)' = a
    <2> DEFINE e == [id |-> NewId, task |-> m.task, attempts |-> a, token |-> k]
               tm == [at |-> x, entry |-> e]
    <2>1. Fresh(e)
      BY <1>0, <1>3, NewIdFresh DEF ScheduleRetry
    <2>2. tm \in Timer /\ Successor(x, tm) /\ tm.entry.attempts = a
      BY <1>0, <1>3, <2>1 DEF ScheduleRetry, Successor, Fresh, Timer, NeedsLock
    <2> HIDE DEF tm
    <2>3. Live(t)' = {tm.entry}
      BY <1>3, <2>2, LifeSucceeds
    <2>4. Phase(t)' = "open"
      BY <1>0, <1>3 DEF Phase
    <2> QED
      BY <2>2, <2>3, <2>4 DEF Attempt
  <1>4. CASE AcquireExecutionLock(x)
    <2>1. run[x].pc = "acquire" /\ row' = row /\ deadLetters' = deadLetters /\ row[t].status # "success"
      BY <1>4, WorkerAlone DEF AcquireExecutionLock
    <2>2. CASE run'[x].pc # "ack"
      <3>1. timers' = timers
        BY <1>0, <1>4, <2>2 DEF AcquireExecutionLock, Goto, RunType
      <3> QED
        BY <1>2, <2>1, <2>2, <3>1 DEF Moved
    <2>3. CASE run'[x].pc = "ack"
      <3>1. NeedsLock(m) /\ ScheduleRetry(x, m, m.attempts, m.token)
        BY <1>0, <1>4, <2>3 DEF AcquireExecutionLock, RunType
      <3>2. m.attempts \in 0..MaxRetry /\ m.attempts > 0 /\ m.token \in Nat
        BY <1>0, <3>1 DEF Message, NeedsLock
      <3> QED
        BY <1>1, <1>3, <2>1, <2>3, <3>1, <3>2 DEF Moved, Same
    <2> QED
      BY <2>2, <2>3
  <1>5. CASE Load(x) \/ Work(x) \/ Persist(x) \/ Release(x, "check")
    <2>1. CASE RunStep(x)
      <3>1. /\ timers' = timers /\ deadLetters' = deadLetters /\ row' = row
            /\ run'[x].pc \in {"work", "release", "persist", "finish", "check"}
        BY <1>0, <1>5, <2>1 DEF RunStep, Load, Work, Persist, Release, Goto, Conclude, RunType, queueVars, Fails
      <3> QED
        BY <1>2, <3>1 DEF Moved
    <2>2. CASE ~RunStep(x)
      BY <1>5, <2>2 DEF Handling, Load, Work, Persist, Release, RunStep, AcquireExecutionLock,
         TaskFailedRead, TaskFailedWrite, RetryOrBury, Executing
    <2> QED
      BY <2>1, <2>2
  <1>6. CASE RunStep(x) /\ Finish(x)
    <2>1. /\ run[x].pc = "finish" /\ timers' = timers /\ deadLetters' = deadLetters /\ run'[x].pc = "release"
          /\ row'[t].status = FinalStatus(x) /\ row[t].status # "success"
      BY <1>0, <1>6, WorkerAlone DEF RunStep, Finish, Save, Goto, RunType, queueVars, Fails
    <2>2. CASE FinalStatus(x) = "success"
      <3>1. Phase(t)' = "success"
        BY <2>1, <2>2 DEF Phase
      <3>2. Attempt(t)' = 0
        BY <3>1 DEF Attempt
      <3> QED
        BY <1>1, <2>1, <3>1, <3>2 DEF Moved, Succeeded
    <2>3. CASE FinalStatus(x) # "success"
      BY <1>2, <2>1, <2>3 DEF Moved
    <2> QED
      BY <2>2, <2>3
  <1>7. CASE TaskFailedRead(x)
    <2>1. /\ run[x].pc = "check" /\ timers' = timers /\ deadLetters' = deadLetters /\ row' = row
          /\ ~TaskFailed(t) \/ run'[x].pc = "requeue"
      BY <1>0, <1>7 DEF TaskFailedRead, Unreached, Conclude, RunType, queueVars
    <2>2. CASE row[t].status = "success"
      <3>1. Phase(t) = "success" /\ Phase(t)' = "success"
        BY <2>1, <2>2 DEF Phase
      <3> QED
        BY <3>1 DEF Attempt, Moved, Same
    <2>3. CASE row[t].status # "success"
      <3>1. run'[x].pc = "requeue"
        BY <2>1, <2>3, WorkerAlone
      <3> QED
        BY <1>2, <2>1, <3>1 DEF Moved
    <2> QED
      BY <2>2, <2>3
  <1>8. CASE TaskFailedWrite(x)
    <2>1. /\ run[x].pc = "requeue" /\ timers' = timers /\ deadLetters' = deadLetters
          /\ run'[x].pc = "retry" /\ row'[t].status = "running"
      BY <1>0, <1>8 DEF TaskFailedWrite, Unreached, Goto, Save, RunType, queueVars
    <2>2. row[t].status # "success"
      BY <2>1, WorkerAlone
    <2> QED
      BY <1>2, <2>1, <2>2 DEF Moved
  <1>9. CASE RetryOrBury(x)
    <2>1. /\ run[x].pc = "retry" /\ row' = row /\ run'[x].pc = "ack" /\ row[t].status # "success"
          /\ m.attempts \in 0..MaxRetry /\ run[x].token \in Nat
      BY <1>0, <1>9, WorkerAlone DEF RetryOrBury, Goto, RunType, Message
    <2>2. CASE Retryable(m)
      <3>1. ScheduleRetry(x, m, NextAttempt(m), run[x].token) /\ deadLetters' = deadLetters
        BY <1>9, <2>2 DEF RetryOrBury
      <3>2. NextAttempt(m) \in 0..MaxRetry /\ NextAttempt(m) > 0 /\ NextAttempt(m) = m.attempts + 1
            /\ m.attempts < MaxRetry
        BY <2>1, <2>2, MaxRetryType DEF NextAttempt, Retryable
      <3>3. Phase(t)' = "open" /\ Attempt(t)' = NextAttempt(m)
        BY <1>3, <2>1, <3>1, <3>2
      <3> QED
        BY <1>1, <2>1, <3>2, <3>3 DEF Moved, Retried
    <2>3. CASE ~Retryable(m)
      <3>1. t \in deadLetters' /\ m.attempts = MaxRetry
        BY <1>0, <1>9, <2>1, <2>3, MaxRetryType DEF RetryOrBury, Bury, Retryable, Unreached
      <3>2. Phase(t)' = "buried"
        BY <2>1, <3>1 DEF Phase
      <3>3. Attempt(t)' = 0
        BY <3>2 DEF Attempt
      <3> QED
        BY <1>1, <2>1, <3>1, <3>2, <3>3 DEF Moved, Buried
    <2> QED
      BY <2>2, <2>3
  <1> QED
    BY <1>4, <1>5, <1>6, <1>7, <1>8, <1>9 DEF Handling, RunStep

-----------------------------------------------------------------------------
(* The queue implements the lifecycle.                                     *)

LEMMA LifeStep ==
    ASSUME LifeInv, [Next]_vars, Serene'
    PROVE  [Lifecycle!Next]_(Lifecycle!taskVars)
  <1>0. /\ Serene /\ \A k \in {"cancel", "timeout", "redis", "db", "unread", "unacked"} : ~Disturb(k)
        /\ \/ \E t \in Tasks : Starting(t)
           \/ \E x \in Procs : Read(x) \/ Handling(x) \/ Ack(x)
           \/ \E tm \in timers : FireTimer(tm)
           \/ Context
    BY SereneNext DEF FaultKinds
  <1>1. ASSUME NEW t \in Tasks, Starting(t) PROVE [Lifecycle!Next]_(Lifecycle!taskVars)
    BY <1>0, <1>1, LifeStart, StepMaps
  <1>2. ASSUME NEW x \in Procs, Handling(x) PROVE [Lifecycle!Next]_(Lifecycle!taskVars)
    <2>1. run[x].task \in Tasks
      BY <1>0, <1>2, WorkerEntry, WorkerAlone, SereneState
    <2> QED
      BY <1>0, <1>2, <2>1, LifeHandle, LifeOthers, StepMaps
  <1>3. CASE \/ \E x \in Procs : Read(x) \/ Ack(x)
             \/ \E tm \in timers : FireTimer(tm)
             \/ Context
    <2>1. \A t \in Tasks : Same(t)
      BY <1>0, <1>3, LifeOther
    <2>2. /\ [t \in Tasks |-> Phase(t)]' = [t \in Tasks |-> Phase(t)]
          /\ [t \in Tasks |-> Attempt(t)]' = [t \in Tasks |-> Attempt(t)]
      BY <2>1 DEF Same
    <2> QED
      BY <2>2 DEF Lifecycle!taskVars
  <1> QED
    BY <1>0, <1>1, <1>2, <1>3

LEMMA LifeInit == Init => Lifecycle!Init
  <1> SUFFICES ASSUME Init PROVE Lifecycle!Init
    OBVIOUS
  <1>1. \A t \in Tasks : row[t].status = "absent" /\ t \notin deadLetters /\ start[t].pc = "no"
    BY DEF Init, RunInit, Over
  <1>2. \A t \in Tasks : Phase(t) = "absent" /\ Attempt(t) = 0
    BY <1>1, PhaseIs, AttemptIs
  <1> QED
    BY <1>2 DEF Lifecycle!Init

\* Whatever may disturb the system: as long as nothing has but a lease that ran
\* out, every step of the queue is a step in the life of one task (it is
\* accepted, retried, succeeds, or is buried after its last attempt) or changes
\* nothing in any.
THEOREM LifecycleSteps ==
    Spec => /\ Lifecycle!Init
            /\ [][Serene' => [Lifecycle!Next]_(Lifecycle!taskVars)]_vars
  <1>1. LifeInv /\ [Next]_vars => (Serene' => [Lifecycle!Next]_(Lifecycle!taskVars))
    BY LifeStep
  <1> QED
    BY <1>1, LifeInit, LifeAlways, PTL DEF Spec

\* In a system that only leases can disturb, the queue implements the abstract
\* task lifecycle: its initial states are initial there, and every step is a
\* step there or leaves phase and attempts of every task alone.
THEOREM LifecycleRefined ==
    ASSUME Faults \subseteq {"expire"}
    PROVE  Spec => Lifecycle!Spec
  <1>1. QueueTypeOK /\ Serene /\ [Next]_vars => Serene'
    <2> SUFFICES ASSUME QueueTypeOK, Serene, [Next]_vars PROVE Serene'
      OBVIOUS
    <2>1. faults' = faults \/ Disturb("expire")
      BY LogGrows
    <2>2. faults \in Seq(FaultKinds)
      BY DEF QueueTypeOK, RunTypeOK, FaultLog
    <2>3. CASE faults' = faults
      BY <2>3 DEF Serene, Spared
    <2>4. CASE Disturb("expire")
      <3>1. faults' = Append(faults, "expire")
        BY <2>4 DEF Disturb
      <3>2. /\ Len(faults) \in Nat /\ DOMAIN faults' = 1..(Len(faults) + 1)
            /\ faults'[Len(faults) + 1] = "expire"
            /\ \A i \in 1..Len(faults) : faults'[i] = faults[i] /\ i \in DOMAIN faults
        BY <2>2, <3>1 DEF FaultKinds
      <3> QED
        BY <3>2 DEF Serene, Spared
    <2> QED
      BY <2>1, <2>3, <2>4
  <1>2. Init => Serene
    BY DEF Init, RunInit, Serene, Spared
  <1>3. LifeInv => QueueTypeOK
    BY DEF LifeInv
  <1>4. Spec => []Serene
    BY <1>1, <1>2, <1>3, LifeAlways, PTL DEF Spec
  <1>5. UNCHANGED vars => UNCHANGED Lifecycle!taskVars
    <2> SUFFICES ASSUME UNCHANGED vars PROVE UNCHANGED Lifecycle!taskVars
      OBVIOUS
    <2>1. /\ UNCHANGED <<row, deadLetters, start, run, msg, stream, pending, timers>>
      BY DEF vars, runVars, queueVars
    <2>2. Entries' = Entries /\ \A m : Superseded(m)' <=> Superseded(m)
      BY <2>1, EntriesSame DEF Superseded
    <2>3. \A t \in Tasks : Live(t)' = Live(t)
      BY <2>2 DEF Live
    <2>4. \A t \in Tasks : Same(t)
      BY <2>1, <2>3, SameWhen
    <2> QED
      BY <2>4 DEF Same, Lifecycle!taskVars
  <1> QED
    BY <1>4, <1>5, LifecycleSteps, PTL DEF Lifecycle!Spec

=============================================================================
