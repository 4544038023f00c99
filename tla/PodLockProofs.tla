----------------------------- MODULE PodLockProofs -----------------------------
(***************************************************************************)
(* What a lease of the pod lock guarantees, for any number of clients and  *)
(* pods, any TTL and any length of stay.                                   *)
(***************************************************************************)
EXTENDS PodLock, TLAPS

USE TTLType, MaxHoldType, NoneType DEF TTLType, MaxHoldType, NoneType

\* The lock is well typed in every reachable state: no lease or entry has more
\* than the TTL left (deleteExpired, SET NX with an expiry).
THEOREM TypeCorrect == Spec => []LockTypeOK
<1>1. Init => LockTypeOK
  <2>1. 0 \in 0..TTL /\ 0 \in 0..MaxHold
    OBVIOUS
  <2>2. /\ NoEntry \in [by: Clients \cup {None}, left: 0..TTL]
        /\ Out \in [pod: Pods \cup {None}, lease: 0..TTL, held: 0..MaxHold]
    BY <2>1 DEF NoEntry, Out
  <2>3. overstayed = FALSE => overstayed \in BOOLEAN
    OBVIOUS
  <2> QED BY <2>2, <2>3 DEF Init, LockTypeOK
<1>2. LockTypeOK /\ [Next]_vars => LockTypeOK'
  <2> SUFFICES ASSUME LockTypeOK, [Next]_vars PROVE LockTypeOK'
    OBVIOUS
  <2> USE DEF LockTypeOK
  <2>1. ASSUME NEW c \in Clients, NEW p \in Pods, TryAcquire(c, p) PROVE LockTypeOK'
    BY <2>1 DEF TryAcquire, NoEntry
  <2>2. ASSUME NEW c \in Clients, Release(c) PROVE LockTypeOK'
    BY <2>2 DEF Release, Holding, NoEntry, Out
  <2>3. CASE Tick
    <3>1. \A n \in 0..TTL : Less(n) \in 0..TTL
      BY DEF Less
    <3>2. \A p \in Pods : Aged(entry[p]) \in [by: Clients \cup {None}, left: 0..TTL]
      BY <3>1 DEF Aged, NoEntry
    <3>3. \A c \in Clients : Holding(c) =>
             [client[c] EXCEPT !.lease = Less(@), !.held = @ + 1]
                \in [pod: Pods \cup {None}, lease: 0..TTL, held: 0..MaxHold]
      <4> SUFFICES ASSUME NEW c \in Clients, Holding(c)
                   PROVE [client[c] EXCEPT !.lease = Less(@), !.held = @ + 1]
                            \in [pod: Pods \cup {None}, lease: 0..TTL, held: 0..MaxHold]
        OBVIOUS
      <4>1. client[c].held \in 0..MaxHold /\ client[c].held < MaxHold
        BY <2>3 DEF Tick
      <4>2. client[c].held + 1 \in 0..MaxHold
        BY <4>1
      <4>3. Less(client[c].lease) \in 0..TTL /\ client[c].pod \in Pods \cup {None}
        BY <3>1
      <4> QED BY <4>2, <4>3
    <3> QED BY <2>3, <3>2, <3>3 DEF Tick
  <2>4. CASE UNCHANGED vars
    BY <2>4 DEF vars
  <2> QED BY <2>1, <2>2, <2>3, <2>4 DEF Next
<1> QED BY <1>1, <1>2, PTL DEF Spec

-----------------------------------------------------------------------------
(* A client whose lease runs is the one the stored entry is about, and the  *)
(* entry has exactly as long to live as the lease.  With the redis lock this *)
(* holds of every client with a lease; with either lock it holds of every    *)
(* client while nobody has overstayed.                                       *)

Owns(c) == entry[client[c].pod] = [by |-> c, left |-> client[c].lease]

LeaseIsEntry ==
    \A c \in Clients :
        Holding(c) /\ (tokenLock \/ ~overstayed) =>
            /\ client[c].lease > 0 => Owns(c)
            /\ ~overstayed => client[c].lease > 0

\* One step keeps it, by what the step does to the lock.
LEMMA LeaseStep == LockTypeOK /\ LeaseIsEntry /\ [Next]_vars => LeaseIsEntry'
<1> SUFFICES ASSUME LockTypeOK, LeaseIsEntry, [Next]_vars PROVE LeaseIsEntry'
  OBVIOUS
<1> USE DEF LockTypeOK
<1>1. ASSUME NEW c \in Clients, NEW p \in Pods, TryAcquire(c, p) PROVE LeaseIsEntry'
  <2> SUFFICES ASSUME NEW d \in Clients, Holding(d)', (tokenLock \/ ~overstayed)'
               PROVE /\ client'[d].lease > 0 => Owns(d)'
                     /\ ~overstayed' => client'[d].lease > 0
    BY DEF LeaseIsEntry
  <2>1. CASE d = c
    BY <1>1, <2>1 DEF TryAcquire, Owns
  <2>2. CASE d # c
    <3>1. client'[d] = client[d] /\ Holding(d) /\ UNCHANGED <<tokenLock, overstayed>>
      BY <1>1, <2>2 DEF TryAcquire, Holding
    <3>2. client[d].lease > 0 => Owns(d)
      BY <3>1 DEF LeaseIsEntry
    <3>3. client[d].lease > 0 => Blocks(client[d].pod) /\ client[d].pod # p
      BY <1>1, <3>2 DEF Owns, Blocks, TryAcquire
    <3>4. client[d].pod \in Pods
      BY <3>1 DEF Holding
    <3>5. client[d].lease > 0 => entry'[client[d].pod] = entry[client[d].pod]
      BY <1>1, <3>3, <3>4 DEF TryAcquire
    <3> QED BY <3>1, <3>2, <3>5 DEF Owns, LeaseIsEntry
  <2> QED BY <2>1, <2>2
<1>2. ASSUME NEW c \in Clients, Release(c) PROVE LeaseIsEntry'
  <2> SUFFICES ASSUME NEW d \in Clients, Holding(d)', (tokenLock \/ ~overstayed)'
               PROVE /\ client'[d].lease > 0 => Owns(d)'
                     /\ ~overstayed' => client'[d].lease > 0
    BY DEF LeaseIsEntry
  <2>1. d # c /\ client'[d] = client[d] /\ Holding(d) /\ UNCHANGED <<tokenLock, overstayed>>
    BY <1>2 DEF Release, Holding, Out
  <2>2. /\ client[d].lease > 0 => Owns(d)
        /\ ~overstayed => client[d].lease > 0
    BY <2>1 DEF LeaseIsEntry
  <2>3. client[d].pod \in Pods /\ client[c].pod \in Pods
    BY <1>2, <2>1 DEF Holding, Release
  <2>4. ASSUME client[d].lease > 0 PROVE entry'[client[d].pod] = entry[client[d].pod]
    <3>1. CASE client[c].pod # client[d].pod
      BY <1>2, <2>3, <3>1 DEF Release
    <3>2. CASE client[c].pod = client[d].pod
      <4>1. entry[client[c].pod].by = d
        BY <2>2, <2>4, <3>2 DEF Owns
      <4>2. CASE tokenLock
        BY <1>2, <2>1, <4>1, <4>2 DEF Release, Deletes
      <4>3. CASE ~overstayed
        \* Then the releaser owns the entry as well, and is d.
        <5>1. Holding(c) /\ client[c].lease > 0 /\ Owns(c)
          BY <1>2, <4>3 DEF Release, LeaseIsEntry
        <5> QED BY <2>1, <4>1, <5>1 DEF Owns
      <4> QED BY <2>1, <4>2, <4>3
    <3> QED BY <3>1, <3>2
  <2> QED BY <2>1, <2>2, <2>4 DEF Owns
<1>3. CASE Tick
  <2> SUFFICES ASSUME NEW d \in Clients, Holding(d)', (tokenLock \/ ~overstayed)'
               PROVE /\ client'[d].lease > 0 => Owns(d)'
                     /\ ~overstayed' => client'[d].lease > 0
    BY DEF LeaseIsEntry
  <2>1. /\ Holding(d) /\ UNCHANGED tokenLock /\ client'[d].pod = client[d].pod
        /\ client'[d].lease = Less(client[d].lease)
    BY <1>3 DEF Tick, Holding
  <2>2. client[d].pod \in Pods /\ client[d].lease \in 0..TTL
    BY <2>1 DEF Holding
  <2>3. ~overstayed' => ~overstayed /\ client[d].lease > 1
    <3>1. ~overstayed' => ~overstayed /\ ~(client[d].lease <= 1)
      BY <1>3, <2>1, Zenon DEF Tick
    <3> QED BY <2>2, <3>1
  <2>4. ASSUME client'[d].lease > 0 PROVE Owns(d)'
    <3>1. client[d].lease > 1 /\ client'[d].lease = client[d].lease - 1
      BY <2>1, <2>2, <2>4 DEF Less
    <3>2. Owns(d)
      BY <2>1, <2>3, <3>1, <2>2 DEF LeaseIsEntry
    <3>3. Aged(entry[client[d].pod]) = [by |-> d, left |-> client[d].lease - 1]
      BY <2>2, <3>1, <3>2 DEF Owns, Aged, Less
    <3> QED BY <1>3, <2>1, <2>2, <3>1, <3>3 DEF Tick, Owns
  <2>5. ~overstayed' => client'[d].lease > 0
    BY <2>1, <2>2, <2>3 DEF Less
  <2> QED BY <2>4, <2>5
<1>4. CASE UNCHANGED vars
  BY <1>4 DEF vars, LeaseIsEntry, Owns, Holding
<1> QED BY <1>1, <1>2, <1>3, <1>4 DEF Next

LEMMA LeaseKept == Spec => []LeaseIsEntry
<1>1. Init => LeaseIsEntry
  BY DEF Init, LeaseIsEntry, Holding, Out
<1> QED BY TypeCorrect, LeaseStep, <1>1, PTL DEF Spec

\* Two clients at work on one pod do not both own its entry.
LEMMA NotBoth ==
    ASSUME LockTypeOK, LeaseIsEntry, NEW c \in Clients, NEW d \in Clients, Together(c, d)
    PROVE  /\ tokenLock => client[c].lease = 0 \/ client[d].lease = 0
           /\ overstayed
<1>1. /\ c # d /\ Holding(c) /\ Holding(d) /\ client[c].pod = client[d].pod
      /\ client[c].lease \in 0..TTL /\ client[d].lease \in 0..TTL /\ overstayed \in BOOLEAN
  BY DEF Together, Holding, LockTypeOK
<1>2. ~(Owns(c) /\ Owns(d))
  BY <1>1 DEF Owns
<1> QED BY <1>1, <1>2 DEF LeaseIsEntry

\* The redis lock (compare and delete, releaseRedisLockScript) never lets two
\* clients hold unexpired leases of one pod, however long they stay and however
\* late they release.
THEOREM LeaseValid == Spec => []OneValidLease
<1>1. LockTypeOK /\ LeaseIsEntry => OneValidLease
  BY NotBoth DEF OneValidLease
<1> QED BY TypeCorrect, LeaseKept, <1>1, PTL

\* With either lock two clients work on one pod only after somebody has stayed
\* beyond the TTL: TryAcquire and Release lose no lease by themselves.
THEOREM WithinTTL == Spec => []ExclusiveWithinTTL
<1>1. LockTypeOK /\ LeaseIsEntry => ExclusiveWithinTTL
  BY NotBoth DEF ExclusiveWithinTTL
<1> QED BY TypeCorrect, LeaseKept, <1>1, PTL
=============================================================================
