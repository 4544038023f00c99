------------------------ MODULE DiagnosisDirectProofs -----------------------
(***************************************************************************)
(* Type correctness of DiagnosisDirect, and its lease theorem, which holds *)
(* for the redis lock, and for the local one until a lease runs out in use.*)
(***************************************************************************)
EXTENDS DiagnosisDirect, TLAPS

USE GoroutinePerTask

-----------------------------------------------------------------------------
(* Type correctness.                                                       *)

DirectRun == [pc: {"idle", "spawned", "done"} \cup Executing, task: Tasks \cup {NoTask},
              token: Nat, ctx: {"live", "dead"}, out: Cause]

\* A run belongs to the task whose goroutine it is, which was spawned.
OwnTask == \A t \in Tasks : run[t].pc # "idle" => run[t].task = t /\ start[t].pc = "spawned"

LEMMA TypeUnlock ==
    ASSUME RunTypeOK, NEW p \in Pods, NEW k \in Nat, Unlock(p, k)
    PROVE  lock' \in [Pods -> Nat] /\ freed' \subseteq Nat
  <1>0. lock \in [Pods -> Nat] /\ freed \subseteq Nat
    BY DEF RunTypeOK
  <1>1. CASE OwnsEntry(p, k)
    <2>1. lock' = [lock EXCEPT ![p] = 0] /\ freed' = freed \cup {k} /\ 0 \in Nat
      BY <1>1 DEF Unlock, NoToken
    <2> QED
      BY <1>0, <2>1
  <1>2. CASE ~OwnsEntry(p, k)
    BY <1>0, <1>2 DEF Unlock
  <1> QED
    BY <1>1, <1>2

LEMMA TypeDisturb ==
    ASSUME RunTypeOK, NEW kind, Disturb(kind)
    PROVE  faults' \in FaultLog
  <1>1. faults \in Seq(FaultKinds) /\ kind \in FaultKinds /\ Len(faults) + 1 <= MaxFaults
    BY FaultType DEF Disturb, RunTypeOK, FaultLog
  <1>2. faults' \in Seq(FaultKinds) /\ Len(faults') = Len(faults) + 1
    BY <1>1 DEF Disturb
  <1> QED
    BY <1>1, <1>2 DEF FaultLog

LEMMA TypeInit == Init => DirectTypeOK /\ OwnTask
  <1> SUFFICES ASSUME Init PROVE DirectTypeOK /\ OwnTask
    OBVIOUS
  <1>1. <<>> \in FaultLog
    BY FaultType DEF FaultLog
  <1>2. RunTypeOK
    BY <1>1 DEF Init, RunInit, RunTypeOK, NoToken, Status, Terminal, Cause
  <1> QED
    BY <1>2 DEF Init, RunInit, DirectTypeOK, OwnTask, Idle, NoToken, Cause

LEMMA TypeStart ==
    ASSUME DirectTypeOK, OwnTask, NEW t \in Tasks, StartStep(t)
    PROVE  DirectTypeOK' /\ OwnTask'
  <1>0. RunTypeOK /\ PodOf[t] \in Pods /\ start[t].token \in Nat
    BY PodOfType DEF DirectTypeOK
  <1>1. CASE StartLock(t)
    <2>1. lock' \in [Pods -> Nat] /\ nextToken' \in Nat \ {0}
      BY <1>0, <1>1 DEF StartLock, Acquire, RunTypeOK
    <2>2. start' \in [Tasks -> [pc: {"no", "locked", "spawned", "refused"}, token: Nat]]
      BY <1>0, <1>1 DEF StartLock, DirectTypeOK, RunTypeOK
    <2>3. OwnTask'
      <3>1. start[t].pc = "no" /\ run' = run /\ \A u \in Tasks \ {t} : start'[u] = start[u]
        BY <1>1 DEF StartLock, DirectTypeOK
      <3> QED
        BY <3>1 DEF OwnTask
    <2> QED
      BY <1>1, <2>1, <2>2, <2>3 DEF StartLock, DirectTypeOK, RunTypeOK
  <1>2. CASE StartCreate(t)
    <2>1. start' \in [Tasks -> [pc: {"no", "locked", "spawned", "refused"}, token: Nat]]
      <3>1. \E pc \in {"spawned", "refused"} : start' = [start EXCEPT ![t].pc = pc]
        BY <1>2 DEF StartCreate
      <3>2. start \in [Tasks -> [pc: {"no", "locked", "spawned", "refused"}, token: Nat]]
        BY DEF DirectTypeOK
      <3> QED
        BY <3>1, <3>2
    <2>2. /\ lock' \in [Pods -> Nat] /\ freed' \subseteq Nat /\ faults' \in FaultLog
      <3>1. /\ lock \in [Pods -> Nat] /\ freed \subseteq Nat /\ faults \in FaultLog
        BY <1>0 DEF RunTypeOK
      <3>2. CASE UNCHANGED <<lock, freed, faults>>
        BY <3>1, <3>2
      <3>3. CASE Disturb("db") /\ Unlock(PodOf[t], start[t].token)
        BY <1>0, <3>3, TypeUnlock, TypeDisturb
      <3> QED
        BY <1>2, <3>2, <3>3 DEF StartCreate
    <2>3. row' \in [Tasks -> [status: Status, cause: Cause]]
      BY <1>0, <1>2 DEF StartCreate, Save, RunTypeOK, Status, Cause
    <2>4. run' \in [Tasks -> DirectRun] /\ OwnTask'
      <3>1. run \in [Tasks -> DirectRun]
        BY DEF DirectTypeOK, DirectRun
      <3>0. start[t].pc = "locked" /\ \A u \in Tasks \ {t} : start'[u] = start[u]
        BY <1>2 DEF StartCreate, DirectTypeOK
      <3>2. CASE run' = run
        BY <3>0, <3>1, <3>2 DEF OwnTask
      <3> DEFINE r == [Idle EXCEPT !.pc = "spawned", !.task = t, !.token = start[t].token]
      <3>3. CASE run' = [run EXCEPT ![t] = r] /\ start' = [start EXCEPT ![t].pc = "spawned"]
        <4>1. r \in DirectRun /\ r.task = t
          BY <1>0 DEF Idle, DirectRun, Cause
        <4>2. start'[t].pc = "spawned"
          BY <3>3 DEF DirectTypeOK
        <4> HIDE DEF r
        <4> QED
          BY <3>0, <3>1, <3>3, <4>1, <4>2 DEF OwnTask
      <3> QED
        BY <1>2, <3>2, <3>3 DEF StartCreate
    <2> QED
      BY <1>2, <2>1, <2>2, <2>3, <2>4 DEF StartCreate, DirectTypeOK, RunTypeOK, DirectRun
  <1> QED
    BY <1>1, <1>2 DEF StartStep

LEMMA TypeRun ==
    ASSUME DirectTypeOK, OwnTask, NEW t \in Tasks, Register(t) \/ RunStep(t)
    PROVE  DirectTypeOK' /\ OwnTask'
  <1>0. /\ RunTypeOK /\ run \in [Tasks -> DirectRun] /\ run[t].token \in Nat
        /\ run[t].pc # "idle" /\ run[t].task = t /\ PodOf[t] \in Pods
    BY PodOfType DEF DirectTypeOK, DirectRun, OwnTask, Register, RunStep, Load, Work, Persist, Finish, Release
  <1>1. run' \in [Tasks -> DirectRun] /\ OwnTask'
    BY <1>0 DEF OwnTask, DirectRun, Register, RunStep, Load, Work, Persist, Finish, Release, Goto, Conclude,
       Executing, Cause, directVars
  <1>2. /\ row' \in [Tasks -> [status: Status, cause: Cause]] /\ report' \subseteq Tasks
    BY <1>0 DEF Register, RunStep, Load, Work, Persist, Finish, Release, Save, FinalStatus, RunTypeOK,
       DirectRun, Status, Terminal
  <1>3. lock' \in [Pods -> Nat] /\ freed' \subseteq Nat
    BY <1>0, TypeUnlock DEF Register, RunStep, Load, Work, Persist, Finish, Release, RunTypeOK
  <1>4. UNCHANGED <<nextToken, cancelling, cancelled, start, up>>
    BY DEF Register, RunStep, Load, Work, Persist, Finish, Release, directVars
  <1>5. faults' \in FaultLog
    BY <1>0, TypeDisturb DEF Register, RunStep, Load, Work, Persist, Finish, Release, Served, Fails, RunTypeOK
  <1> QED
    BY <1>0, <1>1, <1>2, <1>3, <1>4, <1>5 DEF DirectTypeOK, RunTypeOK, DirectRun

LEMMA TypeContext ==
    ASSUME DirectTypeOK, OwnTask,
           \/ \E t \in Tasks : Cancel(t) \/ (Timeout(t) /\ UNCHANGED directVars)
           \/ \E p \in Pods : ExpireLease(p)
           \/ Crash \/ Restart \/ UNCHANGED vars
    PROVE  DirectTypeOK' /\ OwnTask'
  <1>0. RunTypeOK /\ run \in [Tasks -> DirectRun]
    BY DEF DirectTypeOK, DirectRun
  <1>1. ASSUME NEW t \in Tasks, Cancel(t) PROVE DirectTypeOK' /\ OwnTask'
    <2>1. CASE CancelRead(t)
      BY <1>0, <1>1, <2>1, TypeDisturb DEF Cancel, CancelRead, DirectTypeOK, RunTypeOK, OwnTask, directVars
    <2>2. CASE CancelSignal(t, Executors)
      <3>1. run' \in [Tasks -> DirectRun] /\ OwnTask'
        BY <1>0, <1>1, <2>2 DEF Cancel, CancelSignal, OwnTask, DirectRun, directVars
      <3> QED
        BY <1>0, <1>1, <2>2, <3>1 DEF Cancel, CancelSignal, DirectTypeOK, RunTypeOK, DirectRun, directVars
    <2>3. CASE CancelWrite(t)
      <3>1. row' \in [Tasks -> [status: Status, cause: Cause]] /\ cancelled' \subseteq Tasks
        BY <1>0, <2>3 DEF CancelWrite, Save, RunTypeOK, Status, Terminal, Cause
      <3>2. faults' \in FaultLog
        BY <1>0, <2>3, TypeDisturb DEF CancelWrite, RunTypeOK
      <3> QED
        BY <1>0, <1>1, <2>3, <3>1, <3>2 DEF Cancel, CancelWrite, DirectTypeOK, RunTypeOK, OwnTask, directVars
    <2> QED
      BY <1>1, <2>1, <2>2, <2>3 DEF Cancel
  <1>2. ASSUME NEW t \in Tasks, Timeout(t), UNCHANGED directVars PROVE DirectTypeOK' /\ OwnTask'
    <2>1. run' \in [Tasks -> DirectRun] /\ OwnTask' /\ faults' \in FaultLog
      BY <1>0, <1>2, TypeDisturb DEF Timeout, OwnTask, DirectRun, directVars
    <2> QED
      BY <1>0, <1>2, <2>1 DEF Timeout, DirectTypeOK, RunTypeOK, DirectRun, directVars
  <1>3. ASSUME NEW p \in Pods, ExpireLease(p) PROVE DirectTypeOK' /\ OwnTask'
    <2>1. /\ lock' \in [Pods -> Nat] /\ freed' \subseteq Nat /\ faults' \in FaultLog
      BY <1>0, <1>3, TypeDisturb DEF ExpireLease, Expire, RunTypeOK, NoToken
    <2> QED
      BY <1>0, <1>3, <2>1 DEF ExpireLease, Expire, DirectTypeOK, RunTypeOK, OwnTask, directVars
  <1>4. CASE Crash
    <2>1. run' \in [Tasks -> DirectRun] /\ OwnTask'
      BY <1>4 DEF Crash, DirectRun, OwnTask, Idle, NoToken, Cause
    <2>2. start' \in [Tasks -> [pc: {"no", "locked", "spawned", "refused"}, token: Nat]]
      BY <1>4 DEF Crash, DirectTypeOK
    <2>3. lock' \in [Pods -> Nat] /\ freed' \subseteq Nat /\ faults' \in FaultLog
      BY <1>0, <1>4, TypeDisturb DEF Crash, RunTypeOK, NoToken
    <2> QED
      BY <1>0, <1>4, <2>1, <2>2, <2>3 DEF Crash, DirectTypeOK, RunTypeOK, DirectRun
  <1>5. CASE Restart
    BY <1>0, <1>5 DEF Restart, DirectTypeOK, RunTypeOK, OwnTask, runVars
  <1>6. CASE UNCHANGED vars
    BY <1>0, <1>6 DEF vars, runVars, directVars, DirectTypeOK, RunTypeOK, OwnTask
  <1> QED
    BY <1>1, <1>2, <1>3, <1>4, <1>5, <1>6

LEMMA TypeNext == DirectTypeOK /\ OwnTask /\ [Next]_vars => (DirectTypeOK /\ OwnTask)'
  <1> SUFFICES ASSUME DirectTypeOK, OwnTask, [Next]_vars PROVE (DirectTypeOK /\ OwnTask)'
    OBVIOUS
  <1> QED
    BY TypeStart, TypeRun, TypeContext DEF Next, Wait

\* The tables, locks and goroutines stay well typed, for any number of tasks.
THEOREM TypeCorrect == Spec => [](DirectTypeOK /\ OwnTask)
  BY TypeInit, TypeNext, PTL DEF Spec

-----------------------------------------------------------------------------
(* The leases.                                                             *)

\* Task t works under lease k: its handler, its goroutine.
Holds(t, k) == \/ start[t].pc = "locked" /\ start[t].token = k
               \/ Working(t) /\ run[t].token = k

Sure == TokenLock \/ Spared({"expire"})

\* Leases are numbered in the order they are granted and each has one holder,
\* whose lock entry it is until it is released or runs out.  With the local
\* lock this needs that no lease that is held has been freed at all.
LeaseInv ==
    /\ \A p \in Pods : lock[p] < nextToken
    /\ \A k \in freed : k < nextToken
    /\ \A t \in Tasks, k \in Nat : Holds(t, k) => k \in 1..(nextToken - 1)
    /\ \A s, t \in Tasks, k \in Nat : Holds(s, k) /\ Holds(t, k) => s = t
    /\ Sure => \A t \in Tasks, k \in Nat : Holds(t, k) /\ k \notin freed => lock[PodOf[t]] = k
    /\ Spared({"expire"}) /\ ~TokenLock => \A t \in Tasks, k \in freed : ~Holds(t, k)

\* Expirations in use are logged and never forgotten.
LEMMA SparedBefore ==
    ASSUME DirectTypeOK, Spared({"expire"})', faults' = faults \/ \E k : Disturb(k)
    PROVE  Spared({"expire"}) /\ (Disturb("expire") => FALSE)
  <1>1. faults \in Seq(FaultKinds)
    BY DEF DirectTypeOK, RunTypeOK, FaultLog
  <1>2. ASSUME NEW k, Disturb(k) PROVE Spared({"expire"}) /\ k # "expire"
    <2>1. k \in FaultKinds /\ faults' = Append(faults, k)
      BY <1>2, FaultType DEF Disturb
    <2>2. /\ Len(faults) \in Nat /\ DOMAIN faults = 1..Len(faults)
          /\ DOMAIN faults' = 1..(Len(faults) + 1)
          /\ faults'[Len(faults) + 1] = k
          /\ \A i \in 1..Len(faults) : faults'[i] = faults[i]
      BY <1>1, <2>1
    <2>3. \A i \in 1..(Len(faults) + 1) : faults'[i] # "expire"
      BY <2>2 DEF Spared
    <2> QED
      BY <2>2, <2>3 DEF Spared
  <1>3. CASE faults' = faults
    <2>1. Spared({"expire"})
      BY <1>3 DEF Spared
    <2> QED
      BY <1>2, <2>1
  <1> QED
    BY <1>2, <1>3

LEMMA HoldsType ==
    ASSUME DirectTypeOK, NEW t \in Tasks, NEW k, Holds(t, k)
    PROVE  k \in Nat /\ Relied(k)
  BY DEF DirectTypeOK, Holds, Working, Relied

\* Releasing a lease, by whoever holds it and then no longer does, or leaving
\* the lock alone, while nobody comes to hold one.
LEMMA LeaseReleased ==
    ASSUME DirectTypeOK, LeaseInv, NEW u \in Tasks, NEW j \in Nat,
           \/ UNCHANGED <<lock, freed>>
           \/ Holds(u, j) /\ Unlock(PodOf[u], j) /\ ~Holds(u, j)',
           nextToken' = nextToken, Spared({"expire"})' => Spared({"expire"}),
           \A t \in Tasks, k \in Nat : Holds(t, k)' => Holds(t, k)
    PROVE  LeaseInv'
  <1>0. /\ lock \in [Pods -> Nat] /\ freed \subseteq Nat /\ nextToken \in Nat \ {0}
        /\ \A t \in Tasks : PodOf[t] \in Pods
    BY PodOfType DEF DirectTypeOK, RunTypeOK
  <1>1. CASE UNCHANGED <<lock, freed>>
    <2>1. (\A p \in Pods : lock'[p] < nextToken') /\ \A k \in freed' : k < nextToken'
      BY <1>1 DEF LeaseInv
    <2>2. \A t \in Tasks, k \in Nat : Holds(t, k)' => k \in 1..(nextToken' - 1)
      BY DEF LeaseInv
    <2>3. \A s, t \in Tasks, k \in Nat : Holds(s, k)' /\ Holds(t, k)' => s = t
      BY DEF LeaseInv
    <2>4. Sure' => \A t \in Tasks, k \in Nat : Holds(t, k)' /\ k \notin freed' => lock'[PodOf[t]] = k
      BY <1>1 DEF LeaseInv, Sure
    <2>5. Spared({"expire"})' /\ ~TokenLock => \A t \in Tasks, k \in freed' : ~Holds(t, k)'
      BY <1>0, <1>1 DEF LeaseInv
    <2> QED
      BY <2>1, <2>2, <2>3, <2>4, <2>5 DEF LeaseInv
  <1>2. CASE Holds(u, j) /\ Unlock(PodOf[u], j) /\ ~Holds(u, j)'
    <2>1. CASE ~OwnsEntry(PodOf[u], j)
      <3>1. UNCHANGED <<lock, freed>>
        BY <1>2, <2>1 DEF Unlock
      <3> QED
        BY <1>1, <3>1
    <2>2. CASE OwnsEntry(PodOf[u], j)
      <3>1. lock' = [lock EXCEPT ![PodOf[u]] = 0] /\ freed' = freed \cup {j} /\ j \in 1..(nextToken - 1)
        BY <1>2, <2>2 DEF Unlock, NoToken, LeaseInv
      <3>2. \A t \in Tasks : ~Holds(t, j)'
        BY <1>2 DEF LeaseInv
      <3>3. ASSUME NEW t \in Tasks, NEW k \in Nat, Holds(t, k)', k \notin freed', Sure'
            PROVE  lock'[PodOf[t]] = k
        <4>1. Sure /\ lock[PodOf[t]] = k /\ Holds(t, k) /\ k # j
          BY <3>1, <3>3 DEF LeaseInv, Sure
        <4>2. CASE TokenLock
          <5>1. lock[PodOf[u]] = j
            BY <2>2, <4>2 DEF OwnsEntry
          <5> QED
            BY <1>0, <3>1, <4>1, <5>1
        <4>3. CASE ~TokenLock
          <5>1. j \notin freed
            BY <1>2, <3>3, <4>3 DEF LeaseInv, Sure
          <5>2. lock[PodOf[u]] = j
            BY <1>2, <4>1, <5>1 DEF LeaseInv
          <5> QED
            BY <1>0, <3>1, <4>1, <5>2
        <4> QED
          BY <4>2, <4>3
      <3>4. \A p \in Pods : lock'[p] < nextToken
        BY <1>0, <3>1 DEF LeaseInv
      <3>5. \A k \in freed' : k < nextToken
        BY <1>0, <3>1 DEF LeaseInv
      <3>6. Spared({"expire"})' /\ ~TokenLock => \A t \in Tasks, k \in freed' : ~Holds(t, k)'
        BY <1>0, <3>1, <3>2 DEF LeaseInv
      <3>7. \A t \in Tasks, k \in Nat : Holds(t, k)' => k \in 1..(nextToken' - 1)
        BY DEF LeaseInv
      <3>8. \A s, t \in Tasks, k \in Nat : Holds(s, k)' /\ Holds(t, k)' => s = t
        BY DEF LeaseInv
      <3> QED
        BY <3>3, <3>4, <3>5, <3>6, <3>7, <3>8 DEF LeaseInv
    <2> QED
      BY <2>1, <2>2
  <1> QED
    BY <1>1, <1>2

\* A lease is granted while nobody's entry stands in its way.
LEMMA LeaseGranted ==
    ASSUME DirectTypeOK, LeaseInv, NEW u \in Tasks, Acquire(PodOf[u]), freed' = freed,
           Spared({"expire"})' => Spared({"expire"}),
           \A t \in Tasks, k \in Nat : Holds(t, k)' => Holds(t, k) \/ (t = u /\ k = nextToken)
    PROVE  LeaseInv'
  <1>0. /\ lock \in [Pods -> Nat] /\ freed \subseteq Nat /\ nextToken \in Nat \ {0}
        /\ \A t \in Tasks : PodOf[t] \in Pods
        /\ lock[PodOf[u]] = 0 /\ lock' = [lock EXCEPT ![PodOf[u]] = nextToken] /\ nextToken' = nextToken + 1
    BY PodOfType DEF DirectTypeOK, RunTypeOK, Acquire, LockFree, NoToken
  <1>1. (\A p \in Pods : lock'[p] < nextToken') /\ \A k \in freed' : k < nextToken'
    BY <1>0 DEF LeaseInv
  <1>2. \A t \in Tasks, k \in Nat : Holds(t, k)' => k \in 1..(nextToken' - 1)
    BY <1>0 DEF LeaseInv
  <1>3. \A s, t \in Tasks, k \in Nat : Holds(s, k)' /\ Holds(t, k)' => s = t
    BY <1>0 DEF LeaseInv
  <1>4. ASSUME NEW t \in Tasks, NEW k \in Nat, Holds(t, k)', k \notin freed', Sure'
        PROVE  lock'[PodOf[t]] = k
    <2>1. CASE t = u /\ k = nextToken
      BY <1>0, <2>1
    <2>2. CASE Holds(t, k)
      <3>1. lock[PodOf[t]] = k /\ k # 0
        BY <1>0, <1>4, <2>2 DEF LeaseInv, Sure
      <3> QED
        BY <1>0, <3>1
    <2> QED
      BY <1>4, <2>1, <2>2
  <1>5. Spared({"expire"})' /\ ~TokenLock => \A t \in Tasks, k \in freed' : ~Holds(t, k)'
    BY <1>0 DEF LeaseInv
  <1> QED
    BY <1>1, <1>2, <1>3, <1>4, <1>5 DEF LeaseInv

LEMMA LeaseStart ==
    ASSUME DirectTypeOK, OwnTask, LeaseInv, NEW t \in Tasks, StartStep(t),
           Spared({"expire"})' => Spared({"expire"})
    PROVE  LeaseInv'
  <1>0. /\ start \in [Tasks -> [pc: {"no", "locked", "spawned", "refused"}, token: Nat]]
        /\ run \in [Tasks -> DirectRun] /\ nextToken \in Nat
    BY DEF DirectTypeOK, DirectRun, RunTypeOK
  <1>1. ASSUME StartLock(t), Acquire(PodOf[t]) PROVE LeaseInv'
    <2>1. \/ start' = [start EXCEPT ![t] = [pc |-> "locked", token |-> nextToken]]
          \/ ~LockFree(PodOf[t])
      BY <1>1 DEF StartLock
    <2>2. \A u \in Tasks, k \in Nat : Holds(u, k)' => Holds(u, k) \/ (u = t /\ k = nextToken)
      BY <1>0, <1>1, <2>1 DEF StartLock, Acquire, Holds, Working
    <2> QED
      BY <1>1, <2>2, LeaseGranted DEF StartLock
  <1>2. ASSUME StartLock(t), start' = [start EXCEPT ![t].pc = "refused"], UNCHANGED <<lock, nextToken>>
        PROVE  LeaseInv'
    <2>1. \A u \in Tasks, k \in Nat : Holds(u, k)' => Holds(u, k)
      BY <1>0, <1>2 DEF StartLock, Holds, Working
    <2> QED
      BY <1>0, <1>2, <2>1, LeaseReleased DEF StartLock
  <1>3. CASE StartCreate(t)
    <2>1. start[t].pc = "locked" /\ Holds(t, start[t].token) /\ start[t].token \in Nat /\ nextToken' = nextToken
      BY <1>0, <1>3 DEF StartCreate, Holds
    <2>2. CASE /\ run' = [run EXCEPT ![t] = [Idle EXCEPT !.pc = "spawned", !.task = t, !.token = start[t].token]]
               /\ start' = [start EXCEPT ![t].pc = "spawned"] /\ UNCHANGED <<lock, freed>>
      <3>1. run'[t].token = start[t].token /\ \A u \in Tasks \ {t} : run'[u] = run[u] /\ start'[u] = start[u]
        BY <1>0, <2>2 DEF Idle
      <3>2. start'[t].pc = "spawned"
        BY <1>0, <2>2
      <3>3. \A u \in Tasks, k \in Nat : Holds(u, k)' => Holds(u, k)
        BY <2>1, <3>1, <3>2 DEF Holds, Working
      <3> QED
        BY <2>1, <2>2, <3>3, LeaseReleased
    <2>3. CASE /\ Unlock(PodOf[t], start[t].token) /\ start' = [start EXCEPT ![t].pc = "refused"]
               /\ run' = run
      <3> DEFINE j == start[t].token
      <3>1. start'[t].pc = "refused" /\ \A u \in Tasks \ {t} : start'[u] = start[u]
        BY <1>0, <2>3
      <3>2. \A u \in Tasks, k \in Nat : Holds(u, k)' => Holds(u, k)
        BY <2>3, <3>1 DEF Holds, Working
      <3>3. run[t].pc = "idle"
        BY <2>1 DEF OwnTask
      <3>4. ~Holds(t, j)'
        BY <2>3, <3>1, <3>3 DEF Holds, Working, Executing
      <3> QED
        BY <2>1, <2>3, <3>2, <3>4, LeaseReleased
    <2> QED
      BY <1>3, <2>2, <2>3 DEF StartCreate
  <1> QED
    BY <1>1, <1>2, <1>3 DEF StartStep, StartLock

LEMMA LeaseRun ==
    ASSUME DirectTypeOK, OwnTask, LeaseInv, NEW t \in Tasks, Register(t) \/ RunStep(t),
           Spared({"expire"})' => Spared({"expire"})
    PROVE  LeaseInv'
  <1>0. /\ run \in [Tasks -> DirectRun] /\ run[t].token \in Nat /\ run[t].pc # "idle"
        /\ run[t].task = t /\ start[t].pc = "spawned"
    BY DEF DirectTypeOK, DirectRun, OwnTask, Register, RunStep, Load, Work, Persist, Finish, Release
  <1>1. UNCHANGED <<nextToken, start>>
    BY DEF Register, RunStep, Load, Work, Persist, Finish, Release, directVars
  <1>3. \A u \in Tasks, k \in Nat : Holds(u, k)' => Holds(u, k)
    <2>1. /\ \A u \in Tasks \ {t} : run'[u] = run[u]
          /\ run'[t].token = run[t].token
          /\ Working(t)' => Working(t)
      BY <1>0 DEF Register, RunStep, Load, Work, Persist, Finish, Release, Goto, Conclude, Working,
         Executing, DirectRun
    <2> QED
      BY <1>1, <2>1 DEF Holds, Working
  <1>4. CASE Release(t, "done") /\ Unlock(PodOf[t], run[t].token)
    <2> DEFINE j == run[t].token
    <2>1. Holds(t, j) /\ Unlock(PodOf[t], j) /\ j \in Nat
      BY <1>0, <1>4 DEF Release, Holds, Working, Executing
    <2>2. ~(start'[t].pc = "locked" /\ start'[t].token = j)
          /\ ~(run'[t].pc \in Executing \cup {"spawned"} /\ run'[t].token = j)
      BY <1>0, <1>1, <1>4 DEF Release, Goto, Executing
    <2>3. nextToken' = nextToken
      BY <1>1
    <2>4. PICK k \in Nat : k = j /\ Holds(t, k) /\ Unlock(PodOf[t], k) /\ ~Holds(t, k)'
      BY <2>1, <2>2 DEF Holds, Working
    <2> HIDE DEF j
    <2> QED
      BY <1>3, <2>3, <2>4, LeaseReleased
  <1>5. CASE UNCHANGED <<lock, freed>>
    BY <1>0, <1>1, <1>3, <1>5, LeaseReleased
  <1> QED
    BY <1>0, <1>4, <1>5 DEF Register, RunStep, Load, Work, Persist, Finish, Release

\* Nothing is held anew when contexts die, the process does, or time passes.
LEMMA LeaseContext ==
    ASSUME DirectTypeOK, OwnTask, LeaseInv, Spared({"expire"})' => Spared({"expire"}),
           \/ \E t \in Tasks : Cancel(t) \/ (Timeout(t) /\ UNCHANGED directVars)
           \/ Crash \/ Restart \/ UNCHANGED vars
    PROVE  LeaseInv'
  <1>0. /\ run \in [Tasks -> DirectRun] /\ lock \in [Pods -> Nat]
        /\ start \in [Tasks -> [pc: {"no", "locked", "spawned", "refused"}, token: Nat]]
        /\ nextToken \in Nat \ {0}
    BY DEF DirectTypeOK, DirectRun, RunTypeOK
  <1>1. CASE Crash
    <2>1. \A t \in Tasks, k \in Nat : ~Holds(t, k)'
      BY <1>0, <1>1 DEF Crash, Holds, Working, Executing, Idle
    <2>2. nextToken' = nextToken
      BY <1>1 DEF Crash
    <2>3. (\A p \in Pods : lock'[p] < nextToken') /\ \A k \in freed' : k < nextToken'
      BY <1>0, <1>1, <2>2 DEF Crash, LeaseInv, NoToken
    <2>4. freed' \subseteq Nat
      BY <1>0, <1>1 DEF Crash, DirectTypeOK, RunTypeOK
    <2> QED
      BY <2>1, <2>3, <2>4 DEF LeaseInv
  <1>2. ASSUME UNCHANGED <<lock, freed, nextToken, start>>, NEW t \in Tasks,
               \A u \in Tasks : run'[u].pc = run[u].pc /\ run'[u].token = run[u].token
        PROVE  LeaseInv'
    <2>1. \A u \in Tasks, k \in Nat : Holds(u, k)' => Holds(u, k)
      BY <1>2 DEF Holds, Working
    <2> QED
      BY <1>0, <1>2, <2>1, LeaseReleased
  <1>3. ASSUME NEW t \in Tasks, Cancel(t) PROVE LeaseInv'
    BY <1>0, <1>2, <1>3 DEF Cancel, CancelRead, CancelSignal, CancelWrite, directVars, DirectRun
  <1>4. ASSUME NEW t \in Tasks, Timeout(t), UNCHANGED directVars PROVE LeaseInv'
    BY <1>0, <1>2, <1>4 DEF Timeout, directVars, DirectRun
  <1>5. CASE Restart \/ UNCHANGED vars
    <2>1. UNCHANGED <<lock, freed, nextToken, start, run>>
      BY <1>5 DEF Restart, vars, runVars, directVars
    <2>2. \A u \in Tasks, k \in Nat : Holds(u, k)' => Holds(u, k)
      BY <2>1 DEF Holds, Working
    <2>3. CASE Tasks = {}
      BY <1>0, <2>1, <2>3 DEF LeaseInv, DirectTypeOK, RunTypeOK
    <2> QED
      BY <1>0, <2>1, <2>2, <2>3, LeaseReleased
  <1> QED
    BY <1>1, <1>3, <1>4, <1>5

\* A lease that runs out is gone; when somebody relied on it, that is logged.
LEMMA LeaseExpire ==
    ASSUME DirectTypeOK, LeaseInv, NEW p \in Pods, ExpireLease(p),
           Spared({"expire"})' => Spared({"expire"}) /\ ~Disturb("expire")
    PROVE  LeaseInv'
  <1>0. /\ lock \in [Pods -> Nat] /\ freed \subseteq Nat /\ nextToken \in Nat \ {0}
        /\ lock' = [lock EXCEPT ![p] = 0] /\ freed' = freed \cup {lock[p]}
        /\ UNCHANGED <<nextToken, run, start>>
    BY DEF DirectTypeOK, RunTypeOK, ExpireLease, Expire, directVars, NoToken
  <1>1. \A t \in Tasks, k \in Nat : Holds(t, k)' <=> Holds(t, k)
    BY <1>0 DEF Holds, Working
  <1>2. (\A q \in Pods : lock'[q] < nextToken') /\ \A k \in freed' : k < nextToken'
    BY <1>0 DEF LeaseInv
  <1>3. \A t \in Tasks, k \in Nat : Holds(t, k)' => k \in 1..(nextToken' - 1)
    BY <1>0, <1>1 DEF LeaseInv
  <1>4. \A s, t \in Tasks, k \in Nat : Holds(s, k)' /\ Holds(t, k)' => s = t
    BY <1>1 DEF LeaseInv
  <1>5. ASSUME Sure', NEW t \in Tasks, NEW k \in Nat, Holds(t, k)', k \notin freed'
        PROVE  lock'[PodOf[t]] = k
    <2>1. lock[PodOf[t]] = k /\ k # lock[p]
      BY <1>0, <1>1, <1>5 DEF LeaseInv, Sure
    <2>2. PodOf[t] \in Pods
      BY PodOfType
    <2> QED
      BY <1>0, <2>1, <2>2
  <1>6. ASSUME Spared({"expire"})', ~TokenLock, NEW t \in Tasks, NEW k \in freed'
        PROVE  ~Holds(t, k)'
    <2>1. Spared({"expire"}) /\ ~Relied(lock[p])
      BY <1>6 DEF ExpireLease
    <2>2. CASE k = lock[p]
      BY <1>1, <1>0, <2>1, <2>2, HoldsType
    <2>3. CASE k \in freed
      BY <1>0, <1>1, <1>6, <2>1, <2>3 DEF LeaseInv
    <2> QED
      BY <1>0, <1>6, <2>2, <2>3
  <1> QED
    BY <1>2, <1>3, <1>4, <1>5, <1>6 DEF LeaseInv

LEMMA LeaseInit == Init => LeaseInv
  <1> SUFFICES ASSUME Init PROVE LeaseInv
    OBVIOUS
  <1>1. \A t \in Tasks, k \in Nat : ~Holds(t, k)
    BY DEF Init, RunInit, Holds, Working, Executing, Idle
  <1>2. nextToken = 1 /\ freed = {} /\ \A p \in Pods : lock[p] = 0
    BY DEF Init, RunInit, NoToken
  <1> QED
    BY <1>1, <1>2 DEF LeaseInv

LEMMA LeaseNext == DirectTypeOK /\ OwnTask /\ LeaseInv /\ [Next]_vars => LeaseInv'
  <1> SUFFICES ASSUME DirectTypeOK, OwnTask, LeaseInv, [Next]_vars PROVE LeaseInv'
    OBVIOUS
  <1>1. faults' = faults \/ \E k : Disturb(k)
    <2>1. ASSUME NEW t \in Tasks, StartStep(t) PROVE faults' = faults \/ \E k : Disturb(k)
      BY <2>1 DEF StartStep, StartLock, StartCreate
    <2>2. ASSUME NEW t \in Tasks, Register(t) \/ RunStep(t) PROVE faults' = faults \/ \E k : Disturb(k)
      BY <2>2 DEF Register, RunStep, Load, Work, Persist, Finish, Release, Served, Fails
    <2>3. ASSUME NEW t \in Tasks, Cancel(t) \/ Timeout(t) PROVE faults' = faults \/ \E k : Disturb(k)
      BY <2>3 DEF Cancel, CancelRead, CancelSignal, CancelWrite, Timeout
    <2>4. ASSUME NEW p \in Pods, ExpireLease(p) PROVE faults' = faults \/ \E k : Disturb(k)
      BY <2>4 DEF ExpireLease
    <2>5. CASE Crash \/ Restart \/ UNCHANGED vars
      BY <2>5 DEF Crash, Restart, vars, runVars
    <2> QED
      BY <2>1, <2>2, <2>3, <2>4, <2>5 DEF Next, Wait
  <1>2. Spared({"expire"})' => Spared({"expire"}) /\ ~Disturb("expire")
    BY <1>1, SparedBefore
  <1> QED
    BY <1>2, LeaseStart, LeaseRun, LeaseContext, LeaseExpire DEF Next, Wait

\* Two runs on one pod, both with a lease nobody freed, would have one entry.
LEMMA LeaseExcludes == DirectTypeOK /\ LeaseInv => OneLease
  <1> SUFFICES ASSUME DirectTypeOK, LeaseInv, Sure,
                      NEW s \in Tasks, NEW t \in Tasks, s # t, Working(s), Working(t),
                      PodOf[s] = PodOf[t], run[s].token \notin freed, run[t].token \notin freed
               PROVE  FALSE
    BY DEF OneLease, Sure
  <1>1. Holds(s, run[s].token) /\ Holds(t, run[t].token)
    BY DEF Holds
  <1>2. run[s].token \in Nat /\ run[t].token \in Nat
    BY <1>1, HoldsType
  <1>3. run[s].token = run[t].token
    BY <1>1, <1>2 DEF LeaseInv
  <1> QED
    BY <1>1, <1>2, <1>3 DEF LeaseInv

\* Two diagnoses of one pod never work under leases that are both still good:
\* with the redis lock always, with the local one until a lease runs out in use.
THEOREM LeaseSafe == Spec => []OneLease
  <1>1. Spec => [](DirectTypeOK /\ OwnTask)
    BY TypeCorrect
  <1>2. DirectTypeOK /\ OwnTask /\ LeaseInv /\ [Next]_vars => LeaseInv'
    BY LeaseNext
  <1> QED
    BY <1>1, <1>2, LeaseInit, LeaseExcludes, PTL DEF Spec
=============================================================================
