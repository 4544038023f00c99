------------------------------- MODULE PodLock ------------------------------
(***************************************************************************)
(* The per-pod diagnosis lock (pod_lock.go), with its clock: the redis     *)
(* lock, an expiring key holding the caller's token, and the local lock, a *)
(* map from pod to expiry time that ignores tokens.  A client is one       *)
(* diagnosis: it acquires, works for as long as it likes (at most MaxHold  *)
(* ticks), releases.  Nothing renews a lease and nothing stops a client    *)
(* whose lease ran out.  A behaviour has one of the two kinds of lock.      *)
(***************************************************************************)
EXTENDS Integers

CONSTANTS
    Clients, Pods,
    None,       \* no client, no pod
    TTL,        \* pod_lock_ttl_seconds, in ticks
    MaxHold     \* bound: the longest time between an acquisition and its release

ASSUME TTLType == TTL \in Nat \ {0}
ASSUME MaxHoldType == MaxHold \in Nat
ASSUME NoneType == None \notin Clients /\ None \notin Pods

VARIABLES
    tokenLock,  \* TRUE: redisPodLock, FALSE: localPodLock
    entry,      \* [Pods -> the stored entry: whose token, time left to live]
    client,     \* [Clients -> pod it works on, lease time left, time held]
    overstayed  \* history: some client kept working when its lease was over

vars == <<tokenLock, entry, client, overstayed>>

NoEntry == [by |-> None, left |-> 0]
Out     == [pod |-> None, lease |-> 0, held |-> 0]

LockTypeOK ==
    /\ tokenLock \in BOOLEAN
    /\ overstayed \in BOOLEAN
    /\ entry \in [Pods -> [by: Clients \cup {None}, left: 0..TTL]]
    /\ client \in [Clients -> [pod: Pods \cup {None}, lease: 0..TTL, held: 0..MaxHold]]

\* newDiagnosisLock: redis when it is configured.
Init ==
    /\ tokenLock \in BOOLEAN
    /\ overstayed = FALSE
    /\ entry = [p \in Pods |-> NoEntry]
    /\ client = [c \in Clients |-> Out]

Holding(c) == client[c].pod # None

BlocksMutant(p) == entry[p].left > 1

\* An entry blocks while its expiry lies after now.
Blocks(p) == entry[p].left > 0

\* TryAcquire, granted.  The local lock drops every expired entry first; Redis
\* has dropped them by itself.
TryAcquire(c, p) ==
    /\ ~Holding(c)
    /\ ~Blocks(p)
    /\ entry' = [q \in Pods |-> IF q = p THEN [by |-> c, left |-> TTL]
                                ELSE IF Blocks(q) THEN entry[q] ELSE NoEntry]
    /\ client' = [client EXCEPT ![c] = [pod |-> p, lease |-> TTL, held |-> 0]]
    /\ UNCHANGED <<tokenLock, overstayed>>

DeletesMutant(c, p) == TRUE

\* Release: the redis script compares the token, the local lock just deletes.
Deletes(c, p) == tokenLock => entry[p].by = c

Release(c) ==
    /\ Holding(c)
    /\ entry' = IF Deletes(c, client[c].pod)
                THEN [entry EXCEPT ![client[c].pod] = NoEntry] ELSE entry
    /\ client' = [client EXCEPT ![c] = Out]
    /\ UNCHANGED <<tokenLock, overstayed>>

Less(n) == IF n > 0 THEN n - 1 ELSE 0

\* An expired redis key is gone; the local map keeps the dead entry.
Aged(e) == IF tokenLock /\ e.left <= 1 THEN NoEntry ELSE [e EXCEPT !.left = Less(@)]

Tick ==
    /\ \A c \in Clients : Holding(c) => client[c].held < MaxHold
    /\ entry' = [p \in Pods |-> Aged(entry[p])]
    /\ client' = [c \in Clients |->
                     IF Holding(c)
                     THEN [client[c] EXCEPT !.lease = Less(@), !.held = @ + 1]
                     ELSE client[c]]
    /\ overstayed' = (overstayed \/ \E c \in Clients : Holding(c) /\ client[c].lease <= 1)
    /\ UNCHANGED tokenLock

Next ==
    \/ \E c \in Clients, p \in Pods : TryAcquire(c, p)
    \/ \E c \in Clients : Release(c)
    \/ Tick

Spec == Init /\ [][Next]_vars

-----------------------------------------------------------------------------
Together(c, d) ==
    /\ c # d
    /\ Holding(c)
    /\ client[c].pod = client[d].pod

\* With the redis lock two clients never hold unexpired leases of one pod,
\* however long they stay and however late the others release.
OneValidLease ==
    tokenLock => \A c, d \in Clients :
                    Together(c, d) => client[c].lease = 0 \/ client[d].lease = 0

\* With either lock, a pod is diagnosed twice at once only after somebody has
\* stayed beyond the TTL.
ExclusiveWithinTTL == ~overstayed => \A c, d \in Clients : ~Together(c, d)
=============================================================================
