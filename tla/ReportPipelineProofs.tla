------------------------ MODULE ReportPipelineProofs ------------------------
(***************************************************************************)
(* Proofs about ReportPipeline, from the pod to the stored diagnosis: the  *)
(* report is of the pod the context was read from, its factors are those   *)
(* of the results the analyzers gave, and what is said of hypotheses       *)
(* before the report is reconciled is still said when it is stored.        *)
(* The folds of the rule engine and of the scores are unrolled into steps  *)
(* by the lemmas of the first part.                                        *)
(***************************************************************************)
EXTENDS ReportPipeline, FiniteSetTheorems, WellFoundedInduction, SequenceTheorems, TLAPS

-----------------------------------------------------------------------------
(* Induction, and folds over the positions of a sequence. *)

(* A set of numbers has a least element. *)
LEMMA Least ==
    ASSUME NEW T, T \subseteq Nat, T # {}
    PROVE  \E n \in T : \A m \in T : n <= m
<1> DEFINE R == {ss \in Nat \X Nat : ss[1] < ss[2]}
<1>1. IsWellFoundedOn(R, Nat)
  BY NatLessThanWellFounded DEF OpToRel
<1>2. \E n \in T : \A m \in T : <<m, n>> \notin R
  <2> HIDE DEF R
  <2> QED BY <1>1, WFMin
<1>3. PICK n \in T : \A m \in T : <<m, n>> \notin R
  BY <1>2
<1>4. ASSUME NEW m \in T PROVE n <= m
  <2>1. ~(m < n) /\ m \in Nat /\ n \in Nat
    BY <1>3
  <2> QED BY <2>1
<1> QED BY <1>4

(* Induction: what holds of 0, and of k whenever it holds of k - 1, holds of all. *)
LEMMA Induction ==
    ASSUME NEW T, 0 \in T, \A k \in Nat : k \in T => k + 1 \in T
    PROVE  Nat \subseteq T
<1> SUFFICES ASSUME Nat \ T # {} PROVE FALSE
  OBVIOUS
<1>1. PICK n \in Nat \ T : \A m \in Nat \ T : n <= m
  BY Least
<1>2. n - 1 \in Nat /\ n - 1 \notin T
  BY <1>1
<1> QED BY <1>1, <1>2

Upto(g, n, S, base, step) ==
    /\ g \in [0..n -> S] /\ g[0] = base
    /\ \A k \in 0..(n - 1) : g[k + 1] = step[g[k]]

Iterates(f, S, base, step) ==
    f \in [Nat -> S] /\ f[0] = base /\ \A n \in Nat : f[n + 1] = step[f[n]]

(* A function can be iterated: the values of the iteration are those of one function. *)
LEMMA Iterated ==
    ASSUME NEW S, NEW base \in S, NEW step \in [S -> S]
    PROVE  \E f : Iterates(f, S, base, step)
<1> DEFINE T == {n \in Nat : \E g : Upto(g, n, S, base, step)}
<1>1. Nat \subseteq T
  <2>1. 0 \in T
    <3>1. Upto([k \in 0..0 |-> base], 0, S, base, step)
      BY DEF Upto
    <3> QED BY <3>1
  <2>2. ASSUME NEW n \in Nat, n \in T PROVE n + 1 \in T
    <3>1. PICK g : Upto(g, n, S, base, step)
      BY <2>2
    <3> DEFINE h == [k \in 0..(n + 1) |-> IF k = n + 1 THEN step[g[n]] ELSE g[k]]
    <3>2. g \in [0..n -> S] /\ g[n] \in S
      BY <3>1 DEF Upto
    <3>3. h \in [0..(n + 1) -> S] /\ h[0] = base
      BY <3>1, <3>2 DEF Upto
    <3>4. ASSUME NEW k \in 0..n PROVE h[k + 1] = step[h[k]]
      <4>1. CASE k = n
        BY <4>1
      <4>2. CASE k < n
        BY <3>1, <4>2 DEF Upto
      <4> QED BY <3>4, <4>1, <4>2
    <3> HIDE DEF h
    <3>5. \A k \in 0..n : h[k + 1] = step[h[k]]
      BY <3>4
    <3>6. \A k \in 0..(n + 1 - 1) : h[k + 1] = step[h[k]]
      <4>1. 0..(n + 1 - 1) = 0..n
        BY <2>2
      <4> QED BY <3>5, <4>1, Zenon
    <3>7. Upto(h, n + 1, S, base, step)
      BY <3>3, <3>6 DEF Upto
    <3> QED BY <3>7
  <2> HIDE DEF T
  <2> QED BY <2>1, <2>2, Induction
<1>2. ASSUME NEW m \in Nat, NEW n \in Nat, m <= n,
             NEW g, Upto(g, m, S, base, step), NEW h, Upto(h, n, S, base, step)
      PROVE  g[m] = h[m]
  <2> DEFINE U == {k \in Nat : k <= m => g[k] = h[k]}
  <2>1. 0 \in U
    BY <1>2 DEF Upto
  <2>2. ASSUME NEW k \in Nat, k \in U PROVE k + 1 \in U
    <3>1. CASE k + 1 <= m
      <4>1. k \in 0..(m - 1) /\ k \in 0..(n - 1)
        BY <1>2, <3>1
      <4>2. g[k + 1] = step[g[k]] /\ h[k + 1] = step[h[k]]
        BY <1>2, <4>1 DEF Upto
      <4> QED BY <2>2, <3>1, <4>2
    <3> QED BY <3>1
  <2>3. Nat \subseteq U
    <3> HIDE DEF U
    <3> QED BY <2>1, <2>2, Induction
  <2> QED BY <2>3
<1> DEFINE pick(n) == CHOOSE g : Upto(g, n, S, base, step)
           f == [n \in Nat |-> pick(n)[n]]
<1>3. \A n \in Nat : Upto(pick(n), n, S, base, step)
  BY <1>1
<1> HIDE DEF pick
<1>4. f \in [Nat -> S]
  <2>1. ASSUME NEW n \in Nat PROVE pick(n)[n] \in S
    BY <1>3 DEF Upto
  <2> QED BY <2>1
<1>5. f[0] = base
  BY <1>3 DEF Upto
<1>6. ASSUME NEW n \in Nat PROVE f[n + 1] = step[f[n]]
  <2>1. pick(n)[n] = pick(n + 1)[n]
    BY <1>2, <1>3
  <2>2. pick(n + 1)[n + 1] = step[pick(n + 1)[n]]
    BY <1>3 DEF Upto
  <2> QED BY <2>1, <2>2
<1> HIDE DEF f
<1> QED BY <1>4, <1>5, <1>6 DEF Iterates

(* The last of a set of positions. *)
LEMMA MaxIn ==
    ASSUME NEW n \in Nat, NEW s \in SUBSET (1..n), s # {}
    PROVE  /\ Max(s) \in s /\ Max(s) \in 1..n /\ s \ {Max(s)} \in SUBSET (1..n)
           /\ \A k \in s : k <= Max(s)
<1> DEFINE T == {n - k : k \in s}
<1>1. T \subseteq Nat /\ T # {}
  <2>1. \A k \in s : n - k \in Nat
    OBVIOUS
  <2> QED BY <2>1
<1>2. PICK t \in T : \A u \in T : t <= u
  <2> HIDE DEF T
  <2> QED BY <1>1, Least
<1>3. PICK k \in s : t = n - k
  BY <1>2
<1>4. \A j \in s : n - k <= n - j
  BY <1>2, <1>3
<1>5. \A j \in s : k >= j
  BY <1>4
<1>6. \E x \in s : \A y \in s : x >= y
  BY <1>5
<1>7. Max(s) \in s /\ \A y \in s : Max(s) >= y
  BY <1>6 DEF Max
<1>8. Max(s) \in 1..n /\ s \ {Max(s)} \in SUBSET (1..n)
  BY <1>7
<1>9. ASSUME NEW j \in s PROVE j <= Max(s)
  <2>1. j \in Int /\ Max(s) \in Int /\ Max(s) >= j
    BY <1>7, <1>8
  <2> QED BY <2>1
<1> QED BY <1>7, <1>8, <1>9

(* A fold over positions: the value of each set of positions is that of the set without its *)
(* last position, one step on.                                                              *)
Folds(g, n, S, base, step) ==
    /\ g \in [SUBSET (1..n) -> S]
    /\ \A s \in SUBSET (1..n) :
          g[s] = IF s = {} THEN base ELSE step[<<Max(s), g[s \ {Max(s)}]>>]

(* A fold over 1..n has a graph, a function over the sets it passes. *)
LEMMA FoldGraph ==
    ASSUME NEW n \in Nat, NEW S, NEW base \in S, NEW step \in [(1..n) \X S -> S]
    PROVE  \E g : Folds(g, n, S, base, step)
<1> DEFINE D == SUBSET (1..n)
           F == [D -> S]
           base0 == [s \in D |-> base]
           next(h) == [s \in D |-> IF s = {} THEN base ELSE step[<<Max(s), h[s \ {Max(s)}]>>]]
           step0 == [h \in F |-> next(h)]
<1>1. ASSUME NEW s \in D, s # {}
      PROVE  Max(s) \in s /\ Max(s) \in 1..n /\ s \ {Max(s)} \in D
  BY <1>1, MaxIn
<1>2. \A h \in F : next(h) \in F
  <2> SUFFICES ASSUME NEW h \in F, NEW s \in D, s # {}
               PROVE  step[<<Max(s), h[s \ {Max(s)}]>>] \in S
    OBVIOUS
  <2>1. h[s \ {Max(s)}] \in S /\ Max(s) \in 1..n
    BY <1>1
  <2> QED BY <2>1
<1>3. base0 \in F /\ step0 \in [F -> F]
  BY <1>2
<1>0. PICK f : Iterates(f, F, base0, step0)
  <2> HIDE DEF D, F, base0, step0
  <2> QED BY <1>3, Iterated
<1>4. f \in [Nat -> F] /\ f[0] = base0 /\ \A k \in Nat : f[k + 1] = step0[f[k]]
  <2> HIDE DEF D, F, base0, step0
  <2> QED BY <1>0 DEF Iterates
<1>5. ASSUME NEW s \in D PROVE IsFiniteSet(s) /\ Cardinality(s) \in Nat
  <2>1. IsFiniteSet(1..n) /\ s \subseteq 1..n
    BY <1>5, FS_Interval
  <2>2. IsFiniteSet(s)
    BY <2>1, FS_Subset
  <2> QED BY <2>2, FS_CardinalityType
<1> DEFINE g == [s \in D |-> f[Cardinality(s)][s]]
<1>6. g \in [D -> S]
  <2>1. ASSUME NEW s \in D PROVE f[Cardinality(s)][s] \in S
    <3>1. f[Cardinality(s)] \in F
      <4> HIDE DEF F
      <4> QED BY <1>4, <1>5
    <3> QED BY <3>1
  <2> QED BY <2>1
<1>7. ASSUME NEW s \in D, s = {} PROVE g[s] = base
  <2>1. Cardinality(s) = 0
    BY <1>7, FS_EmptySet
  <2>2. f[0][s] = base
    BY <1>4
  <2> QED BY <2>1, <2>2
<1>8. ASSUME NEW s \in D, s # {} PROVE g[s] = step[<<Max(s), g[s \ {Max(s)}]>>]
  <2> DEFINE r == s \ {Max(s)}
             k == Cardinality(r)
  <2>1. r \in D /\ k \in Nat /\ Cardinality(s) = k + 1
    <3>1. r \in D /\ Max(s) \in s
      BY <1>1, <1>8
    <3>2. Cardinality(r) = Cardinality(s) - 1
      BY <1>5, <3>1, FS_RemoveElement
    <3>3. k \in Nat /\ Cardinality(s) \in Nat
      BY <1>5, <3>1
    <3> QED BY <3>1, <3>2, <3>3
  <2>2. f[k + 1] = next(f[k])
    BY <1>4, <2>1
  <2>3. f[k + 1][s] = step[<<Max(s), f[k][r]>>]
    BY <1>8, <2>2
  <2> QED BY <2>1, <2>3
<1> HIDE DEF g
<1> QED BY <1>6, <1>7, <1>8 DEF Folds

(* The last of the first k + 1 positions. *)
LEMMA MaxUpto ==
    ASSUME NEW k \in Nat
    PROVE  Max(1..(k + 1)) = k + 1 /\ (1..(k + 1)) \ {k + 1} = 1..k /\ 1..(k + 1) # {}
<1>1. k + 1 \in 1..(k + 1) /\ \A y \in 1..(k + 1) : k + 1 >= y
  OBVIOUS
<1>2. \E x \in 1..(k + 1) : \A y \in 1..(k + 1) : x >= y
  BY <1>1
<1>3. Max(1..(k + 1)) \in 1..(k + 1) /\ \A y \in 1..(k + 1) : Max(1..(k + 1)) >= y
  BY <1>2 DEF Max
<1>4. Max(1..(k + 1)) >= k + 1 /\ Max(1..(k + 1)) <= k + 1 /\ Max(1..(k + 1)) \in Int
  BY <1>1, <1>3
<1> QED BY <1>4

(* What CHOOSE finds for a fold agrees with the steps as long as the values are in S; it is  *)
(* a walk from the base then, a step for each position.                                      *)
Steps(g, n, S, base, step) ==
    /\ g[{}] = base
    /\ \A s \in SUBSET (1..n) :
          s # {} /\ g[s \ {Max(s)}] \in S => g[s] = step[<<Max(s), g[s \ {Max(s)}]>>]
Walks(f, g, n, S, base, step) ==
    /\ f \in [0..n -> S] /\ f[0] = base /\ f[n] = g[1..n]
    /\ \A k \in 0..(n - 1) : f[k + 1] = step[<<k + 1, f[k]>>]

(* The same for a fold whose steps know their position. *)
LEMMA Walked ==
    ASSUME NEW n \in Nat, NEW S, NEW base \in S, NEW step \in [(1..n) \X S -> S],
           NEW g, Steps(g, n, S, base, step)
    PROVE  \E f : Walks(f, g, n, S, base, step)
<1> DEFINE f == [k \in 0..n |-> g[1..k]]
<1>1. f[0] = base
  <2>1. 1..0 = {}
    OBVIOUS
  <2> QED BY <2>1 DEF Steps
<1>2. ASSUME NEW k \in Nat, k + 1 <= n, f[k] \in S
      PROVE  f[k + 1] = step[<<k + 1, f[k]>>] /\ f[k + 1] \in S
  <2> DEFINE x == 1..(k + 1)
  <2>1. x \in SUBSET (1..n) /\ f[k] = g[1..k] /\ f[k + 1] = g[x]
    BY <1>2
  <2>2. x # {} /\ Max(x) = k + 1 /\ x \ {Max(x)} = 1..k
    BY MaxUpto
  <2> HIDE DEF x, f
  <2>3. g[x] = step[<<Max(x), g[x \ {Max(x)}]>>]
    BY <1>2, <2>1, <2>2 DEF Steps
  <2>4. f[k + 1] = step[<<k + 1, f[k]>>]
    BY <2>1, <2>2, <2>3
  <2>5. k + 1 \in 1..n
    BY <1>2
  <2> QED BY <1>2, <2>4, <2>5
<1> DEFINE U == {k \in Nat : k <= n => f[k] \in S}
<1> HIDE DEF f
<1>3. 0 \in U
  BY <1>1
<1>4. ASSUME NEW k \in Nat, k \in U PROVE k + 1 \in U
  <2> SUFFICES ASSUME k + 1 <= n PROVE f[k + 1] \in S
    OBVIOUS
  <2>1. f[k] \in S
    BY <1>4
  <2> QED BY <1>2, <2>1
<1>5. Nat \subseteq U
  <2> HIDE DEF U
  <2> QED BY <1>3, <1>4, Induction
<1>6. f \in [0..n -> S]
  <2>1. \A k \in 0..n : f[k] \in S
    BY <1>5
  <2> QED BY <2>1 DEF f
<1>7. ASSUME NEW k \in 0..(n - 1) PROVE f[k + 1] = step[<<k + 1, f[k]>>]
  <2>1. k \in Nat /\ k + 1 <= n /\ k \in 0..n
    OBVIOUS
  <2> QED BY <1>2, <1>6, <2>1
<1>8. f[n] = g[1..n]
  BY DEF f
<1> QED BY <1>1, <1>6, <1>7, <1>8 DEF Walks

-----------------------------------------------------------------------------
(* The pods. *)

(* What is seen of a pod is a pod; a failing init container keeps its app waiting.          *)
Fields == DOMAIN Healthy
Apps == {"up", "panicked", "exited", "oom", "oomNow", "killed", "stopped", "pulling", "noconfig",
         "failed", "evicted", "lost", "absent", "initializing"}
Inits == {"none", "initFailed", "initPulling", "initRetried"}
Fits(p) ==
    /\ p.app \in Apps /\ p.side \in {"none", "exited", "oom"} /\ p.init \in Inits
    /\ p.init \in {"initFailed", "initPulling"} <=> p.app = "initializing"
PodOK(p) == p = [f \in Fields |-> p[f]] /\ Fits(p)

LEMMA FieldsAre ==
    Fields = {"app", "side", "init", "events", "logs", "node", "topology", "pvc", "memory", "trend",
              "guaranteed", "env", "secret", "probes", "config", "runbook"}
  BY DEF Fields, Healthy

LEMMA HealthyOK == PodOK(Healthy)
  <1>1. Healthy = [f \in DOMAIN Healthy |-> Healthy[f]]
    BY DEF Healthy
  <1>2. Fits(Healthy)
    BY DEF Fits, Healthy, Apps, Inits
  <1> QED BY <1>1, <1>2 DEF PodOK, Fields

LEMMA WorseOK ==
    ASSUME NEW p, PodOK(p), NEW q \in Worse(p)
    PROVE  PodOK(q)
  <1>1. q.init \in {"initFailed", "initPulling"} <=> q.app = "initializing"
    BY DEF Worse, Possible
  <1>2. /\ DOMAIN p = Fields /\ p.app \in Apps /\ p.side \in {"none", "exited", "oom"} /\ p.init \in Inits
        /\ {"app", "side", "init"} \subseteq Fields
    BY FieldsAre DEF PodOK, Fits
  <1> HIDE DEF Fields
  <1>3. \/ \E f, v : q = [p EXCEPT ![f] = v] /\ f \notin {"app", "side", "init"}
        \/ \E k \in Apps : q = [p EXCEPT !.app = k]
        \/ \E k \in {"initFailed", "initPulling"} : q = [p EXCEPT !.init = k, !.app = "initializing"]
        \/ q = [p EXCEPT !.init = "initRetried"]
        \/ \E k \in {"exited", "oom"} : q = [p EXCEPT !.side = k]
        \/ q = [p EXCEPT !.pvc = "Pending", !.app = "absent"]
    <2>1. \/ \E k \in Apps : q = [p EXCEPT !.app = k]
          \/ \E k \in {"initFailed", "initPulling"} : q = [p EXCEPT !.init = k, !.app = "initializing"]
          \/ q = [p EXCEPT !.init = "initRetried"]
          \/ \E k \in {"exited", "oom"} : q = [p EXCEPT !.side = k]
          \/ \E e \in DOMAIN EventOf : q = [p EXCEPT !["events"] = p["events"] \cup {e}]
          \/ \E l \in DOMAIN LineWords : q = [p EXCEPT !["logs"] = p["logs"] \cup {l}]
          \/ \E c \in {"notready", "memory", "disk", "pid", "network"} : q = [p EXCEPT !["node"] = p["node"] \cup {c}]
          \/ q = [p EXCEPT !["pvc"] = "Bound"]
          \/ q = [p EXCEPT !.pvc = "Pending", !.app = "absent"]
          \/ \E k \in {"present", "object_missing", "key_missing", "content_empty"} : q = [p EXCEPT !["config"] = k]
      BY DEF Worse, Apps
    <2> QED BY <2>1
  <1>4. DOMAIN q = Fields /\ q.app \in Apps /\ q.side \in {"none", "exited", "oom"} /\ q.init \in Inits
        /\ q = [f \in Fields |-> q[f]]
    BY <1>2, <1>3 DEF Apps, Inits
  <1> QED BY <1>1, <1>4 DEF PodOK, Fits

LEMMA SettingsOK ==
    ASSUME NEW p, PodOK(p), NEW q \in Settings(p)
    PROVE  PodOK(q)
  <1>1. DOMAIN p = Fields /\ p = [f \in Fields |-> p[f]] /\ Fits(p)
    BY DEF PodOK
  <1>2. q = p \/ \E f, v : q = [p EXCEPT ![f] = v] /\ f \notin {"app", "side", "init"}
    <2>1. \/ q = p
          \/ \E m \in {"unset", "empty"} \cup DOMAIN Curves : q = [p EXCEPT !["memory"] = m]
          \/ \E t \in {"memory growth", "memory spike", "restart growth"} : q = [p EXCEPT !["trend"] = t]
          \/ \E w \in {"config", "timeout", "secret"} : q = [p EXCEPT !["env"] = {w}]
          \/ \E b \in {"quick", "slow"} : q = [p EXCEPT !["probes"] = b]
          \/ \E w \in {"init", "pvc", "evict"} : q = [p EXCEPT !["runbook"] = {w}]
          \/ q = [p EXCEPT !["topology"] = FALSE]
          \/ q = [p EXCEPT !["guaranteed"] = TRUE]
          \/ q = [p EXCEPT !["secret"] = TRUE]
      BY DEF Settings
    <2> QED BY <2>1
  <1>3. q.app = p.app /\ q.side = p.side /\ q.init = p.init /\ q = [f \in Fields |-> q[f]]
    BY <1>1, <1>2, FieldsAre
  <1> QED BY <1>1, <1>3 DEF PodOK, Fits

Similar(q, p) == DOMAIN q = Fields /\ q.app = p.app /\ q.side = p.side /\ q.init = p.init

(* Whatever a run does not read of a pod, it sees the containers. *)
LEMMA KnownIs ==
    ASSUME NEW p, PodOK(p), NEW sections
    PROVE  PodOK(Known(p, sections)) /\ Similar(Known(p, sections), p)
  <1>1. DOMAIN p = Fields /\ Fits(p)
    BY DEF PodOK
  <1>2. {"app", "side", "init"} \cap DOMAIN Unread = {} /\ {"app", "side", "init"} \subseteq Fields
    BY FieldsAre DEF Unread
  <1>3. Known(p, sections) = [f \in Fields |-> Known(p, sections)[f]] /\ Similar(Known(p, sections), p)
    BY <1>1, <1>2 DEF Known, Similar
  <1> QED BY <1>1, <1>3 DEF PodOK, Fits, Similar

LEMMA MergeIs ==
    ASSUME NEW p, PodOK(p), NEW ctx, NEW sections
    PROVE  Similar(MergeContext(ctx, p, sections), p)
  <1>1. DOMAIN p = Fields
    BY DEF PodOK
  <1>2. {"app", "side", "init"} \cap DOMAIN Unread = {} /\ {"app", "side", "init"} \subseteq Fields
    BY FieldsAre DEF Unread
  <1> QED BY <1>1, <1>2 DEF MergeContext, Similar

LEMMA ReadableIs ==
    ASSUME NEW p, PodOK(p), NEW first
    PROVE  PodOK(Readable(p, first)) /\ Similar(Readable(p, first), p)
  <1> DEFINE q == Known(p, UNION {Section(t) : t \in first \cup Refreshes})
             r == Readable(p, first)
  <1>1. PodOK(q) /\ Similar(q, p)
    BY KnownIs
  <1> HIDE DEF q
  <1>2. \E a, b : r = [q EXCEPT !["node"] = a, !["memory"] = b]
    BY DEF Readable, q
  <1> HIDE DEF r
  <1>3. r = [f \in Fields |-> r[f]] /\ r.app = q.app /\ r.side = q.side /\ r.init = q.init
    BY <1>1, <1>2, FieldsAre DEF Similar
  <1> QED BY <1>1, <1>3 DEF PodOK, Fits, Similar, r

-----------------------------------------------------------------------------
(* The results of the analyzers. *)

LEMMA ConcatRange ==
    ASSUME NEW S, NEW s \in Seq(S), NEW t \in Seq(S)
    PROVE  s \o t \in Seq(S) /\ Range(s \o t) = Range(s) \cup Range(t)
  <1>1. s \o t \in Seq(S) /\ Len(s \o t) = Len(s) + Len(t)
    OBVIOUS
  <1>2. \A i \in 1..Len(s) : (s \o t)[i] = s[i]
    OBVIOUS
  <1>3. \A i \in 1..Len(t) : (s \o t)[Len(s) + i] = t[i]
    OBVIOUS
  <1>4. DOMAIN s = 1..Len(s) /\ DOMAIN t = 1..Len(t) /\ DOMAIN (s \o t) = 1..(Len(s) + Len(t))
    OBVIOUS
  <1>5. Len(s) \in Nat /\ Len(t) \in Nat
    OBVIOUS
  <1>6. ASSUME NEW x \in Range(s \o t) PROVE x \in Range(s) \cup Range(t)
    <2>1. PICK i \in 1..(Len(s) + Len(t)) : x = (s \o t)[i]
      BY <1>4, <1>6 DEF Range
    <2>2. CASE i <= Len(s)
      BY <1>2, <1>4, <1>5, <2>1, <2>2 DEF Range
    <2>3. CASE i > Len(s)
      <3>1. i - Len(s) \in 1..Len(t) /\ i = Len(s) + (i - Len(s))
        BY <1>5, <2>1, <2>3
      <3>2. x = t[i - Len(s)]
        BY <1>3, <2>1, <3>1
      <3> QED BY <1>4, <3>1, <3>2 DEF Range
    <2> QED BY <1>5, <2>1, <2>2, <2>3
  <1>7. ASSUME NEW x \in Range(s) PROVE x \in Range(s \o t)
    <2>1. PICK i \in 1..Len(s) : x = s[i]
      BY <1>4, <1>7 DEF Range
    <2>2. x = (s \o t)[i] /\ i \in DOMAIN (s \o t)
      BY <1>2, <1>4, <1>5, <2>1
    <2> QED BY <2>2 DEF Range
  <1>8. ASSUME NEW x \in Range(t) PROVE x \in Range(s \o t)
    <2>1. PICK i \in 1..Len(t) : x = t[i]
      BY <1>4, <1>8 DEF Range
    <2>2. x = (s \o t)[Len(s) + i] /\ Len(s) + i \in DOMAIN (s \o t)
      BY <1>3, <1>4, <1>5, <2>1
    <2> QED BY <2>2 DEF Range
  <1> QED BY <1>1, <1>6, <1>7, <1>8

Optional(b, r) == IF b THEN <<r>> ELSE << >>
Chosen(b, r) == IF b THEN {r} ELSE {}

LEMMA OptionalIs ==
    ASSUME NEW S, NEW r \in S, NEW b
    PROVE  Optional(b, r) \in Seq(S) /\ Range(Optional(b, r)) = Chosen(b, r)
  <1>1. CASE b
    <2>1. <<r>> \in Seq(S) /\ Range(<<r>>) = {r}
      BY DEF Range
    <2> QED BY <1>1, <2>1 DEF Optional, Chosen
  <1>2. CASE ~b
    <2>1. << >> \in Seq(S) /\ Range(<< >>) = {}
      BY DEF Range
    <2> QED BY <1>2, <2>1 DEF Optional, Chosen
  <1> QED BY <1>1, <1>2

Candidates(p) == {AnalyzeOOM(p), AnalyzeCrashLoop(p), AnalyzeImagePull(p), AnalyzeInit(p), AnalyzeEvicted(p),
                  AnalyzePending(p), AnalyzeProbe(p), AnalyzeNodeNotReady(p)}
Found(p) ==
    Chosen(MatchOOM(p), AnalyzeOOM(p)) \cup Chosen(MatchCrashLoop(p), AnalyzeCrashLoop(p))
    \cup Chosen(MatchImagePull(p), AnalyzeImagePull(p)) \cup Chosen(MatchInit(p), AnalyzeInit(p))
    \cup Chosen(MatchEvicted(p), AnalyzeEvicted(p)) \cup Chosen(MatchPending(p), AnalyzePending(p))
    \cup Chosen(MatchProbe(p), AnalyzeProbe(p)) \cup Chosen(MatchNodeNotReady(p), AnalyzeNodeNotReady(p))

LEMMA ResultsAre ==
    ASSUME NEW p
    PROVE  Results(p) \in Seq(Candidates(p)) /\ Range(Results(p)) = Found(p)
  <1> DEFINE S == Candidates(p)
             a == Optional(MatchOOM(p), AnalyzeOOM(p))
             b == Optional(MatchCrashLoop(p), AnalyzeCrashLoop(p))
             c == Optional(MatchImagePull(p), AnalyzeImagePull(p))
             d == Optional(MatchInit(p), AnalyzeInit(p))
             e == Optional(MatchEvicted(p), AnalyzeEvicted(p))
             f == Optional(MatchPending(p), AnalyzePending(p))
             g == Optional(MatchProbe(p), AnalyzeProbe(p))
             h == Optional(MatchNodeNotReady(p), AnalyzeNodeNotReady(p))
  <1>1. Results(p) = a \o b \o c \o d \o e \o f \o g \o h
    BY DEF Results, Optional
  <1>2. /\ AnalyzeOOM(p) \in S /\ AnalyzeCrashLoop(p) \in S /\ AnalyzeImagePull(p) \in S /\ AnalyzeInit(p) \in S
        /\ AnalyzeEvicted(p) \in S /\ AnalyzePending(p) \in S /\ AnalyzeProbe(p) \in S /\ AnalyzeNodeNotReady(p) \in S
    BY DEF Candidates
  <1> HIDE DEF S
  <1>3. /\ a \in Seq(S) /\ b \in Seq(S) /\ c \in Seq(S) /\ d \in Seq(S)
        /\ e \in Seq(S) /\ f \in Seq(S) /\ g \in Seq(S) /\ h \in Seq(S)
    BY <1>2, OptionalIs
  <1>4. Found(p) = Range(a) \cup Range(b) \cup Range(c) \cup Range(d) \cup Range(e) \cup Range(f)
                   \cup Range(g) \cup Range(h)
    BY <1>2, OptionalIs DEF Found
  <1> HIDE DEF a, b, c, d, e, f, g, h
  <1> DEFINE ab == a \o b
             abc == ab \o c
             abcd == abc \o d
             abcde == abcd \o e
             abcdef == abcde \o f
             abcdefg == abcdef \o g
             all == abcdefg \o h
  <1>5. ab \in Seq(S) /\ Range(ab) = Range(a) \cup Range(b)
    BY <1>3, ConcatRange
  <1>x. Results(p) = all
    BY <1>1
  <1> HIDE DEF ab
  <1>6. abc \in Seq(S) /\ Range(abc) = Range(ab) \cup Range(c)
    BY <1>3, <1>5, ConcatRange
  <1> HIDE DEF abc
  <1>7. abcd \in Seq(S) /\ Range(abcd) = Range(abc) \cup Range(d)
    BY <1>3, <1>6, ConcatRange
  <1> HIDE DEF abcd
  <1>8. abcde \in Seq(S) /\ Range(abcde) = Range(abcd) \cup Range(e)
    BY <1>3, <1>7, ConcatRange
  <1> HIDE DEF abcde
  <1>9. abcdef \in Seq(S) /\ Range(abcdef) = Range(abcde) \cup Range(f)
    BY <1>3, <1>8, ConcatRange
  <1> HIDE DEF abcdef
  <1>10. abcdefg \in Seq(S) /\ Range(abcdefg) = Range(abcdef) \cup Range(g)
    BY <1>3, <1>9, ConcatRange
  <1> HIDE DEF abcdefg
  <1>11. all \in Seq(S) /\ Range(all) = Range(abcdefg) \cup Range(h)
    BY <1>3, <1>10, ConcatRange
  <1> HIDE DEF all
  <1>12. Range(all) = Found(p)
    BY <1>4, <1>5, <1>6, <1>7, <1>8, <1>9, <1>10, <1>11
  <1> QED BY <1>x, <1>11, <1>12 DEF S

FaultNames == {"OOMKilled", "CrashLoopBackOff", "ImagePullBackOff", "InitError", "Evicted", "PodPending",
               "ProbeFailed", "NodeNotReady"}

LEMMA AnalyzersAre ==
    ASSUME NEW p
    PROVE  /\ AnalyzeOOM(p).name = "OOMKilledAnalyzer" /\ AnalyzeOOM(p).fault = "OOMKilled"
           /\ AnalyzeCrashLoop(p).name = "CrashLoopBackOffAnalyzer" /\ AnalyzeCrashLoop(p).fault = "CrashLoopBackOff"
           /\ AnalyzeImagePull(p).name = "ImagePullBackOffAnalyzer" /\ AnalyzeImagePull(p).fault = "ImagePullBackOff"
           /\ AnalyzeInit(p).name = "InitErrorAnalyzer" /\ AnalyzeInit(p).fault = "InitError"
           /\ AnalyzeEvicted(p).name = "EvictedAnalyzer" /\ AnalyzeEvicted(p).fault = "Evicted"
           /\ AnalyzePending(p).name = "PendingAnalyzer" /\ AnalyzePending(p).fault = "PodPending"
           /\ AnalyzeProbe(p).name = "ProbeFailedAnalyzer" /\ AnalyzeProbe(p).fault = "ProbeFailed"
           /\ AnalyzeNodeNotReady(p).name = "" /\ AnalyzeNodeNotReady(p).fault = "NodeNotReady"
  <1>1. AnalyzeOOM(p).name = "OOMKilledAnalyzer" /\ AnalyzeOOM(p).fault = "OOMKilled"
    BY ZenonT(20) DEF AnalyzeOOM, Result
  <1>2. AnalyzeCrashLoop(p).name = "CrashLoopBackOffAnalyzer" /\ AnalyzeCrashLoop(p).fault = "CrashLoopBackOff"
    BY ZenonT(20) DEF AnalyzeCrashLoop, Result
  <1>3. AnalyzeImagePull(p).name = "ImagePullBackOffAnalyzer" /\ AnalyzeImagePull(p).fault = "ImagePullBackOff"
    BY ZenonT(20) DEF AnalyzeImagePull, Result
  <1>4. AnalyzeInit(p).name = "InitErrorAnalyzer" /\ AnalyzeInit(p).fault = "InitError"
    BY ZenonT(20) DEF AnalyzeInit, Result
  <1>5. AnalyzeEvicted(p).name = "EvictedAnalyzer" /\ AnalyzeEvicted(p).fault = "Evicted"
    BY ZenonT(20) DEF AnalyzeEvicted, Result
  <1>6. AnalyzePending(p).name = "PendingAnalyzer" /\ AnalyzePending(p).fault = "PodPending"
    BY ZenonT(20) DEF AnalyzePending, Result
  <1>7. AnalyzeProbe(p).name = "ProbeFailedAnalyzer" /\ AnalyzeProbe(p).fault = "ProbeFailed"
    BY ZenonT(20) DEF AnalyzeProbe, Result
  <1>8. AnalyzeNodeNotReady(p).name = "" /\ AnalyzeNodeNotReady(p).fault = "NodeNotReady"
    BY ZenonT(20) DEF AnalyzeNodeNotReady, Result
  <1> QED BY <1>1, <1>2, <1>3, <1>4, <1>5, <1>6, <1>7, <1>8

LEMMA FoundIs ==
    ASSUME NEW p
    PROVE  /\ \A r \in Found(p) : r.fault \in FaultNames /\ r \in Candidates(p)
           /\ Results(p) = << >> <=> Found(p) = {}
           /\ \A i \in DOMAIN Results(p) : Results(p)[i] \in Found(p)
  <1>0. /\ Found(p) \subseteq Candidates(p)
        /\ \A r \in Candidates(p) : \/ r = AnalyzeOOM(p) \/ r = AnalyzeCrashLoop(p) \/ r = AnalyzeImagePull(p)
                                    \/ r = AnalyzeInit(p) \/ r = AnalyzeEvicted(p) \/ r = AnalyzePending(p)
                                    \/ r = AnalyzeProbe(p) \/ r = AnalyzeNodeNotReady(p)
    BY DEF Found, Chosen, Candidates
  <1>1. ASSUME NEW r \in Found(p) PROVE r.fault \in FaultNames /\ r \in Candidates(p)
    <2>1. r \in Candidates(p)
      BY <1>0
    <2>2. r.fault \in FaultNames
      BY <1>0, <2>1, AnalyzersAre DEF FaultNames
    <2> QED BY <2>1, <2>2
  <1>2. Results(p) \in Seq(Candidates(p)) /\ Range(Results(p)) = Found(p)
    BY ResultsAre
  <1> HIDE DEF Candidates
  <1>3. Results(p) = << >> <=> Range(Results(p)) = {}
    <2> DEFINE s == Results(p)
    <2>1. s \in Seq(Candidates(p))
      BY <1>2
    <2> HIDE DEF s
    <2>2. s = << >> <=> DOMAIN s = {}
      BY <2>1
    <2>3. s = << >> <=> Range(s) = {}
      BY <2>2 DEF Range
    <2> QED BY <2>3 DEF s
  <1>4. \A i \in DOMAIN Results(p) : Results(p)[i] \in Found(p)
    BY <1>2 DEF Range
  <1> QED BY <1>1, <1>2, <1>3, <1>4

ReportFields == {"faults", "conf", "risk", "primary", "factors", "ev"}

LEMMA ReportsAre ==
    ASSUME NEW p, NEW r \in Reports(p)
    PROVE  /\ DOMAIN r = ReportFields
           /\ r.faults = {"unknown"} => Found(p) = {}
           /\ Found(p) = {} => r = NoResultReport(p)
           /\ Found(p) # {} => \E best \in Bests(Results(p)) : \E edge : r = AggregateReport(p, Results(p), best, edge)
  <1>1. CASE Results(p) = << >>
    <2>1. r = NoResultReport(p)
      BY <1>1 DEF Reports
    <2> QED BY <1>1, <2>1, FoundIs DEF NoResultReport, ReportFields
  <1>2. CASE Results(p) # << >>
    <2>1a. PICK best \in Bests(Results(p)) : \E edge : r = AggregateReport(p, Results(p), best, edge)
      BY <1>2 DEF Reports
    <2>1. PICK edge : r = AggregateReport(p, Results(p), best, edge)
      BY <2>1a
    <2>2. DOMAIN r = ReportFields /\ r.faults = {Results(p)[i].fault : i \in DOMAIN Results(p)}
      BY <2>1 DEF AggregateReport, ReportFields
    <2>3. PICK x \in Found(p) : TRUE
      BY <1>2, FoundIs
    <2>4. PICK i \in DOMAIN Results(p) : Results(p)[i] = x
      BY ResultsAre DEF Range
    <2>5. Results(p)[i].fault \in r.faults /\ Results(p)[i].fault # "unknown"
      BY <2>2, <2>4, FoundIs DEF FaultNames
    <2> QED BY <1>2, <2>1, <2>2, <2>5, FoundIs
  <1> QED BY <1>1, <1>2

(* What the analyzers look at in the states of the containers. *)
LEMMA StatesAre ==
    /\ \A k \in {"panicked", "exited", "stopped"} :
          /\ ContainerStates[k].place = "last" /\ ContainerStates[k].code # 137
          /\ ContainerStates[k].why = "Error" /\ ContainerStates[k].restarts > 0
    /\ \A k \in {"oom", "oomNow"} : ContainerStates[k].place # "none" /\ ContainerStates[k].why = "OOMKilled"
    /\ ContainerStates["killed"].place = "last" /\ ContainerStates["killed"].code = 137
    /\ ContainerStates["killed"].why = "Error"
    /\ \A k \in {"failed", "lost"} : ContainerStates[k].place = "now"
  <1>1. \E w : ContainerStates["panicked"] = [wait |-> w, code |-> 2, why |-> "Error", restarts |-> 6, place |-> "last"]
    BY DEF ContainerStates, Status
  <1>2. \E w : ContainerStates["exited"] = [wait |-> w, code |-> 1, why |-> "Error", restarts |-> 2, place |-> "last"]
    BY DEF ContainerStates, Status
  <1>3. \E w : ContainerStates["stopped"] = [wait |-> w, code |-> 143, why |-> "Error", restarts |-> 1, place |-> "last"]
    BY DEF ContainerStates, Status
  <1>4. \E w : ContainerStates["oom"] = [wait |-> w, code |-> 137, why |-> "OOMKilled", restarts |-> 4, place |-> "last"]
    BY DEF ContainerStates, Status
  <1>5. \E w : ContainerStates["oomNow"] =
           [wait |-> w, code |-> 137, why |-> "OOMKilled", restarts |-> 0, place |-> "now"]
    BY DEF ContainerStates, Status
  <1>6. \E w : ContainerStates["killed"] = [wait |-> w, code |-> 137, why |-> "Error", restarts |-> 2, place |-> "last"]
    BY DEF ContainerStates, Status
  <1>7. ASSUME NEW k \in {"panicked", "exited", "stopped"}
        PROVE  /\ ContainerStates[k].place = "last" /\ ContainerStates[k].code # 137
               /\ ContainerStates[k].why = "Error" /\ ContainerStates[k].restarts > 0
    <2>1. CASE k = "panicked"
      BY <1>1, <2>1
    <2>2. CASE k = "exited"
      BY <1>2, <2>2
    <2>3. CASE k = "stopped"
      BY <1>3, <2>3
    <2> QED BY <2>1, <2>2, <2>3
  <1>8. ASSUME NEW k \in {"oom", "oomNow"}
        PROVE  ContainerStates[k].place # "none" /\ ContainerStates[k].why = "OOMKilled"
    <2>1. CASE k = "oom"
      BY <1>4, <2>1
    <2>2. CASE k = "oomNow"
      BY <1>5, <2>2
    <2> QED BY <2>1, <2>2
  <1>9. /\ ContainerStates["killed"].place = "last" /\ ContainerStates["killed"].code = 137
        /\ ContainerStates["killed"].why = "Error"
    BY <1>6
  <1>10. \E w : ContainerStates["failed"] = [wait |-> w, code |-> 1, why |-> "Error", restarts |-> 0, place |-> "now"]
    BY DEF ContainerStates, Status
  <1>11. \E w, y : ContainerStates["lost"] = [wait |-> w, code |-> 137, why |-> y, restarts |-> 0, place |-> "now"]
    BY DEF ContainerStates, Status
  <1>12. \A k \in {"failed", "lost"} : ContainerStates[k].place = "now"
    BY <1>10, <1>11
  <1> QED BY <1>7, <1>8, <1>9, <1>12

(* The analyzers divide the pods between them: where none matches nothing failed, but for   *)
(* a container that was killed and nothing says by what, and one that is terminated now.    *)
LEMMA NothingFound ==
    ASSUME NEW p, Fits(p), Found(p) = {}, NEW s \in Containers(p)
    PROVE  \/ s = ContainerStates.up \/ (Unclaimed(s) /\ ~OOMSignal(p))
           \/ s.place = "now" /\ ~IndicatesOOM(p, s)
  <1>1. ~MatchOOM(p) /\ ~MatchCrashLoop(p) /\ ~MatchImagePull(p) /\ ~MatchEvicted(p) /\ ~MatchPending(p)
    BY DEF Found, Chosen
  <1>2. PICK k \in {p.app, p.side} \ {"none", "absent"} : s = ContainerStates[k]
    BY DEF Containers
  <1>3. k \in Apps \cup {"exited", "oom"} /\ (k # p.app => k \in {"exited", "oom"})
    BY <1>2 DEF Fits
  <1>4. ~IndicatesOOM(p, s)
    BY <1>1 DEF MatchOOM
  <1>5. OOMLike(s) \/ ~(s.wait = "CrashLoopBackOff" \/ (s.restarts > 0 /\ s.place = "last"))
    BY <1>1 DEF MatchCrashLoop
  <1>6. ~Pulling(s) /\ \A t \in Containers(p) \cup InitStatuses(p) : ~Pulling(t)
    BY <1>1 DEF MatchImagePull
  <1>7. Phase(p) # "Pending" /\ p.app # "evicted"
    BY <1>1, <1>6 DEF MatchPending, MatchEvicted
  <1>8. p.app \notin {"absent", "initializing", "pulling", "noconfig"}
    BY <1>7 DEF Phase
  <1>9. CASE k \in {"panicked", "exited", "stopped"}
    <2>1. s.place = "last" /\ s.code # 137 /\ s.why = "Error" /\ s.restarts > 0
      BY <1>2, <1>9, StatesAre
    <2> QED BY <1>5, <2>1 DEF OOMLike
  <1>10. CASE k \in {"oom", "oomNow"}
    <2>1. s.place # "none" /\ s.why = "OOMKilled"
      BY <1>2, <1>10, StatesAre
    <2> QED BY <1>4, <2>1 DEF IndicatesOOM
  <1>11. CASE k = "killed"
    <2>1. s.place = "last" /\ s.code = 137 /\ s.why = "Error"
      BY <1>2, <1>11, StatesAre
    <2> QED BY <1>4, <2>1 DEF IndicatesOOM, Unclaimed
  <1>12. CASE k = "up"
    BY <1>2, <1>12
  <1>13. CASE k \in {"failed", "lost"}
    BY <1>2, <1>4, <1>13, StatesAre
  <1> QED BY <1>2, <1>3, <1>7, <1>8, <1>9, <1>10, <1>11, <1>12, <1>13 DEF Apps

-----------------------------------------------------------------------------
(* What becomes of a report. *)

LEMMA WithEvidence ==
    ASSUME NEW r, DOMAIN r = ReportFields, NEW ev, NEW q, q = [r EXCEPT !.ev = ev]
    PROVE  /\ DOMAIN q = ReportFields /\ q.ev = ev /\ q.faults = r.faults /\ q.primary = r.primary
           /\ q.conf = r.conf /\ q.factors = r.factors
  BY DEF ReportFields

LEMMA WithFactors ==
    ASSUME NEW r, DOMAIN r = ReportFields, NEW fs, NEW q, q = [r EXCEPT !.factors = fs]
    PROVE  /\ DOMAIN q = ReportFields /\ q.ev = r.ev /\ q.faults = r.faults /\ q.primary = r.primary
           /\ q.conf = r.conf /\ q.factors = fs
  BY DEF ReportFields

(* A hypothesis that has a fault names it. *)
LEMMA FaultOfIs == \A type : FaultOf(type) # "unknown"
  BY DEF FaultOf

(* AlignReportWithHypotheses keeps the evidence, and keeps faults and primary or names the  *)
(* fault of the primary hypothesis where the analyzers are no authority.                    *)
Renamed(q, r, h) ==
    /\ h.status = "confirmed" /\ FaultOf(h.type) # "" /\ ~AnalyzerPrimaryAuthoritative(r)
    /\ q.faults = {FaultOf(h.type)} /\ q.conf = 10 * h.conf
    /\ q.primary = FactorOf(h, "primary")

LEMMA AlignedIs ==
    ASSUME NEW r, DOMAIN r = ReportFields, NEW hyps
    PROVE  LET q == Aligned(r, hyps)
           IN  /\ DOMAIN q = ReportFields /\ q.ev = r.ev
               /\ \/ q.faults = r.faults /\ q.primary = r.primary /\ q.conf = r.conf
                  \/ SelectPrimary(hyps) # << >> /\ Renamed(q, r, SelectPrimary(hyps)[1])
  <1> DEFINE best == SelectPrimary(hyps)
             h == best[1]
             q == Aligned(r, hyps)
  <1>1. CASE best = << >>
    BY <1>1 DEF Aligned
  <1>2. CASE best # << >> /\ (h.status # "confirmed" \/ FaultOf(h.type) \in r.faults \cup {""})
    BY <1>2 DEF Aligned
  <1>3. CASE best # << >> /\ ~(h.status # "confirmed" \/ FaultOf(h.type) \in r.faults \cup {""})
    <2>1. CASE AnalyzerPrimaryAuthoritative(r)
      <3>1. PICK fs : q = r \/ q = [r EXCEPT !.factors = fs]
        BY <1>3, <2>1 DEF Aligned
      <3> HIDE DEF q, h
      <3>2. DOMAIN q = ReportFields /\ q.ev = r.ev /\ q.faults = r.faults /\ q.primary = r.primary /\ q.conf = r.conf
        BY <3>1, WithFactors
      <3> QED BY <3>2 DEF q
    <2>2. CASE ~AnalyzerPrimaryAuthoritative(r)
      <3>1. q = [r EXCEPT !.faults = {FaultOf(h.type)}, !.conf = 10 * h.conf, !.primary = FactorOf(h, "primary"),
                          !.factors = AlignedFactors(r.factors, hyps, h)]
        BY <1>3, <2>2 DEF Aligned
      <3> HIDE DEF q, h
      <3>2. /\ DOMAIN q = ReportFields /\ q.ev = r.ev /\ q.faults = {FaultOf(h.type)} /\ q.conf = 10 * h.conf
            /\ q.primary = FactorOf(h, "primary")
        BY <3>1 DEF ReportFields
      <3> USE DEF h
      <3>3. FaultOf(h.type) # "" /\ h.status = "confirmed"
        BY <1>3
      <3> QED BY <1>3, <2>2, <3>2, <3>3 DEF Renamed, q
    <2> QED BY <2>1, <2>2
  <1> QED BY <1>1, <1>2, <1>3

-----------------------------------------------------------------------------
(* Failures are named. *)

Reported == {"analyzed", "aligned", "remediated", "stored", "legacy"}

NameInv ==
    /\ PodOK(pod) /\ stage \in Stages
    /\ stage # "cluster" => Similar(context, pod)
    /\ stage \in Reported =>
          DOMAIN report = ReportFields /\ (report.faults = {"unknown"} => Found(context) = {})

LEMMA NameInit == Init => NameInv
  BY HealthyOK DEF Init, NameInv, Stages, Reported

LEMMA NameStep == NameInv /\ [Next]_vars => NameInv'
  <1> SUFFICES ASSUME NameInv, [Next]_vars PROVE NameInv'
    OBVIOUS
  <1> USE DEF Stages
  <1>1. CASE Change
    <2>1. stage = "cluster" /\ stage' = "cluster" /\ pod' \in Worse(pod) \cup Settings(pod)
      BY <1>1 DEF Change, Become
    <2>2. PodOK(pod')
      BY <2>1, WorseOK, SettingsOK DEF NameInv
    <2> QED BY <2>1, <2>2 DEF NameInv, Reported
  <1>2. CASE Snapshot
    <2>1. PICK first \in FirstGroups : /\ pod' = Readable(pod, first)
                                       /\ context' = Known(pod', UNION {Section(t) : t \in first})
      BY <1>2 DEF Snapshot
    <2>2. stage' = "observing"
      BY <1>2 DEF Snapshot
    <2>3. PodOK(pod') /\ Similar(context', pod')
      BY <2>1, ReadableIs, KnownIs DEF NameInv
    <2> QED BY <2>2, <2>3 DEF NameInv, Reported
  <1>3. CASE Observe
    <2>1. PICK sections : context' = MergeContext(context, pod, sections)
      BY <1>3 DEF Observe
    <2>2. stage = "observing" /\ UNCHANGED <<pod, stage, report>>
      BY <1>3 DEF Observe
    <2>3. Similar(context', pod)
      BY <2>1, MergeIs DEF NameInv
    <2> QED BY <2>2, <2>3 DEF NameInv, Reported
  <1>4. CASE StopObserving
    BY <1>4 DEF StopObserving, NameInv, Reported
  <1>5. CASE Analyze
    <2>1a. PICK r \in Reports(context) : \E ev : report' = [r EXCEPT !.ev = ev]
      BY <1>5 DEF Analyze
    <2>1. PICK ev : report' = [r EXCEPT !.ev = ev]
      BY <2>1a
    <2>2. stage = "analyzing" /\ stage' = "analyzed" /\ UNCHANGED <<pod, context>>
      BY <1>5 DEF Analyze
    <2>3. DOMAIN report' = ReportFields /\ report'.faults = r.faults
      BY <2>1, ReportsAre, WithEvidence
    <2>4. r.faults = {"unknown"} => Found(context) = {}
      BY <2>1, ReportsAre
    <2> QED BY <2>2, <2>3, <2>4 DEF NameInv, Found
  <1>6. CASE Legacy
    <2>1. stage' = "legacy" /\ context' = pod /\ pod' = pod
      BY <1>6 DEF Legacy
    <2>2a. PICK r \in Reports(context') : \E hits : report' \in Enhanced([r EXCEPT !.ev = r.ev \cup hits])
      BY <1>6 DEF Legacy
    <2>2. PICK hits : report' \in Enhanced([r EXCEPT !.ev = r.ev \cup hits])
      BY <2>2a
    <2> DEFINE q == [r EXCEPT !.ev = r.ev \cup hits]
    <2>3. DOMAIN r = ReportFields /\ (r.faults = {"unknown"} => Found(context') = {})
      BY ReportsAre
    <2>4. DOMAIN q = ReportFields /\ q.faults = r.faults
      BY <2>3, WithEvidence
    <2> HIDE DEF q
    <2>5. PICK ev : report' = q \/ report' = [q EXCEPT !.ev = ev]
      BY <2>2 DEF Enhanced, q
    <2>6. DOMAIN report' = ReportFields /\ report'.faults = r.faults
      BY <2>4, <2>5, WithEvidence
    <2>7. Similar(context', pod')
      BY <2>1 DEF NameInv, PodOK, Similar
    <2>8. PodOK(pod')
      BY <2>1 DEF NameInv
    <2>9. (Found(context) = {})' <=> Found(context') = {}
      BY DEF Found
    <2> QED BY <2>1, <2>3, <2>6, <2>7, <2>8, <2>9 DEF NameInv
  <1>7. CASE Reconcile
    <2>1. PICK ev : report' = Aligned([report EXCEPT !.ev = ev], scores')
      BY <1>7 DEF Reconcile
    <2>2. stage = "analyzed" /\ stage' = "aligned" /\ UNCHANGED <<pod, context>>
      BY <1>7 DEF Reconcile
    <2> DEFINE r == [report EXCEPT !.ev = ev]
    <2>3. DOMAIN r = ReportFields /\ r.faults = report.faults
      BY <2>2, WithEvidence DEF NameInv, Reported
    <2> HIDE DEF r
    <2>4. DOMAIN report' = ReportFields /\ (report'.faults = r.faults \/ \E t : report'.faults = {FaultOf(t)})
      BY <2>1, <2>3, AlignedIs DEF Renamed, r
    <2>5. report'.faults = {"unknown"} => report.faults = {"unknown"}
      BY <2>3, <2>4, FaultOfIs
    <2> QED BY <2>2, <2>4, <2>5 DEF NameInv, Reported, Found
  <1>8. CASE Remediate
    <2>1. stage = "aligned" /\ stage' = "remediated" /\ UNCHANGED <<pod, context>>
      BY <1>8 DEF Remediate
    <2>2. PICK ev : report' = report \/ report' = [report EXCEPT !.ev = ev]
      BY <1>8 DEF Remediate
    <2>3. DOMAIN report' = ReportFields /\ report'.faults = report.faults
      BY <2>1, <2>2, WithEvidence DEF NameInv, Reported
    <2> QED BY <2>1, <2>3 DEF NameInv, Reported, Found
  <1>9. CASE Store
    BY <1>9 DEF Store, NameInv, Reported, Found
  <1>10. CASE UNCHANGED vars
    BY <1>10 DEF vars, NameInv, Found
  <1> QED BY <1>1, <1>2, <1>3, <1>4, <1>5, <1>6, <1>7, <1>8, <1>9, <1>10 DEF Next

LEMMA SimilarPods ==
    ASSUME NEW p, NEW q, Similar(q, p)
    PROVE  Containers(q) = Containers(p) /\ (Fits(p) => Fits(q))
  BY DEF Similar, Containers, Fits

LEMMA NamesHold == NameInv => FailureIsNamed
  <1> SUFFICES ASSUME NameInv, stage \in {"stored", "legacy"}, report.faults = {"unknown"},
                      NEW s \in Containers(pod)
               PROVE  \/ s = ContainerStates.up \/ (Unclaimed(s) /\ ~OOMSignal(context))
                      \/ s.place = "now" /\ ~IndicatesOOM(context, s)
    BY DEF FailureIsNamed
  <1>1. Found(context) = {} /\ Similar(context, pod) /\ PodOK(pod)
    BY DEF NameInv, Reported
  <1>2. Fits(context) /\ s \in Containers(context)
    BY <1>1, SimilarPods DEF PodOK
  <1> QED BY <1>1, <1>2, NothingFound

(* A container that fails is never reported as "unknown", for any pod the changes lead to,  *)
(* any first group of tools and any tools after it: the context a report is made from has   *)
(* the pod's containers, and an analyzer matches each that fails, but for one killed by 137 *)
(* without a word of memory, and one that is terminated now and not for its memory.         *)
THEOREM FailuresAreNamed == Spec => []FailureIsNamed
  <1>1. NameInv /\ [Next]_vars => NameInv'
    BY NameStep
  <1> QED BY <1>1, NameInit, NamesHold, PTL DEF Spec

-----------------------------------------------------------------------------
(* What the scans choose. *)

(* The scan of selectBestResult: after each result, those that may be the best so far. *)
Scan(f, results) ==
    LET n == Len(Tail(results)) IN
    /\ f \in [0..n -> SUBSET Range(results)]
    /\ f[0] = {results[1]} /\ f[n] = Bests(results)
    /\ \A k \in 0..(n - 1) : f[k + 1] = UNION {Preferred(Tail(results)[k + 1], b) : b \in f[k]}

LEMMA BestsScan ==
    ASSUME NEW T, NEW results \in Seq(T), results # << >>
    PROVE  \E f : Scan(f, results)
<1> DEFINE s == Tail(results)
           n == Len(s)
           S == SUBSET Range(results)
           base == {results[1]}
           op(bests, r) == UNION {Preferred(r, b) : b \in bests}
           step == [p \in (1..n) \X S |-> op(p[2], s[p[1]])]
           Graph(g) == g = [x \in SUBSET (1..n) |-> IF x = {} THEN base
                                                   ELSE op(g[x \ {Max(x)}], s[Max(x)])]
<1>0. /\ n \in Nat /\ base \in S /\ DOMAIN s = 1..n
      /\ \A i \in 1..n : s[i] \in Range(results)
  <2>1. Len(results) \in Nat \ {0} /\ n = Len(results) - 1 /\ DOMAIN s = 1..n
    OBVIOUS
  <2>2. \A i \in 1..n : s[i] = results[i + 1] /\ i + 1 \in DOMAIN results
    BY <2>1
  <2>3. 1 \in DOMAIN results
    BY <2>1
  <2> QED BY <2>1, <2>2, <2>3 DEF Range
<1>1. step \in [(1..n) \X S -> S]
  <2>1. ASSUME NEW k \in 1..n, NEW bests \in S PROVE op(bests, s[k]) \in S
    BY <1>0 DEF Preferred
  <2> QED BY <2>1
<1>2. \E g : Graph(g)
  <2>1. PICK g : Folds(g, n, S, base, step)
    <3> HIDE DEF n, S, step, base
    <3> QED BY <1>0, <1>1, FoldGraph
  <2>2. g \in [SUBSET (1..n) -> S] /\ g[{}] = base
    BY <2>1 DEF Folds
  <2>3. ASSUME NEW x \in SUBSET (1..n), x # {}
        PROVE  g[x] = op(g[x \ {Max(x)}], s[Max(x)])
    <3>1. Max(x) \in 1..n /\ x \ {Max(x)} \in SUBSET (1..n)
      BY <1>0, <2>3, MaxIn
    <3>2. g[x] = step[<<Max(x), g[x \ {Max(x)}]>>]
      BY <2>1, <2>3 DEF Folds
    <3>3. g[x \ {Max(x)}] \in S
      BY <2>2, <3>1
    <3> HIDE DEF S, op
    <3> QED BY <3>1, <3>2, <3>3
  <2> HIDE DEF n, S, step, base, op
  <2> QED BY <2>2, <2>3
<1> DEFINE iter == CHOOSE g : Graph(g)
<1>3. Graph(iter)
  <2> HIDE DEF Graph
  <2> QED BY <1>2
<1>4. Bests(results) = iter[1..n]
  BY <1>0 DEF Bests, FoldLeft, MapThenFoldSet, iter
<1> HIDE DEF iter
<1>5. Steps(iter, n, S, base, step)
  <2>1. iter[{}] = base
    BY <1>3
  <2>2. ASSUME NEW x \in SUBSET (1..n), x # {}, iter[x \ {Max(x)}] \in S
        PROVE  iter[x] = step[<<Max(x), iter[x \ {Max(x)}]>>]
    <3>1. Max(x) \in 1..n
      BY <1>0, <2>2, MaxIn
    <3>2. iter[x] = op(iter[x \ {Max(x)}], s[Max(x)])
      <4> HIDE DEF n, S, op
      <4> QED BY <1>3, <2>2
    <3> HIDE DEF S, n, op
    <3> QED BY <2>2, <3>1, <3>2
  <2> HIDE DEF n, S, step, base
  <2> QED BY <2>1, <2>2 DEF Steps
<1>6. PICK f : Walks(f, iter, n, S, base, step)
  <2> HIDE DEF n, S, step, base
  <2> QED BY <1>0, <1>1, <1>5, Walked
<1>7. ASSUME NEW k \in 0..(n - 1) PROVE f[k + 1] = op(f[k], s[k + 1])
  <2>1. f[k + 1] = step[<<k + 1, f[k]>>] /\ f \in [0..n -> S]
    <3> HIDE DEF step, S, n
    <3> QED BY <1>6 DEF Walks
  <2>2. k \in 0..n /\ k + 1 \in 1..n
    <3> HIDE DEF n
    <3> QED BY <1>0
  <2> HIDE DEF op, S, n
  <2>3. f[k] \in S
    BY <2>1, <2>2
  <2> QED BY <2>1, <2>2, <2>3
<1>8. f \in [0..n -> S] /\ f[0] = base /\ f[n] = Bests(results)
  BY <1>4, <1>6 DEF Walks
<1> QED BY <1>7, <1>8 DEF Scan

LEMMA BestsAre ==
    ASSUME NEW T, NEW results \in Seq(T), results # << >>
    PROVE  Bests(results) \subseteq Range(results)
  <1>1. PICK f : Scan(f, results)
    BY BestsScan
  <1>2. Len(Tail(results)) \in Nat
    OBVIOUS
  <1> QED BY <1>1, <1>2 DEF Scan

(* The scan for the primary hypothesis, step by step. *)
Pick(best, h) == IF h.status = "rejected" THEN best
                 ELSE IF best = << >> THEN <<h>>
                 ELSE IF BetterPrimary(h, best[1]) THEN <<h>> ELSE best
Picked(hyps) == {<< >>} \cup {<<h>> : h \in Range(hyps)}
Picks(f, hyps) ==
    /\ f \in [0..Len(hyps) -> Picked(hyps)] /\ f[0] = << >> /\ f[Len(hyps)] = SelectPrimary(hyps)
    /\ \A k \in 0..(Len(hyps) - 1) : f[k + 1] = Pick(f[k], hyps[k + 1])

LEMMA PrimaryScan ==
    ASSUME NEW T, NEW hyps \in Seq(T)
    PROVE  \E f : Picks(f, hyps)
<1> DEFINE s == hyps
           n == Len(s)
           S == {<< >>} \cup {<<h>> : h \in Range(hyps)}
           op(best, h) == IF h.status = "rejected" THEN best
                          ELSE IF best = << >> THEN <<h>>
                          ELSE IF BetterPrimary(h, best[1]) THEN <<h>> ELSE best
           step == [p \in (1..n) \X S |-> op(p[2], s[p[1]])]
           Graph(g) == g = [x \in SUBSET (1..n) |-> IF x = {} THEN << >>
                                                   ELSE op(g[x \ {Max(x)}], s[Max(x)])]
<1>0. n \in Nat /\ << >> \in S /\ DOMAIN s = 1..n /\ \A i \in 1..n : <<s[i]>> \in S
  BY DEF Range
<1>1. step \in [(1..n) \X S -> S]
  <2>1. ASSUME NEW k \in 1..n, NEW best \in S PROVE op(best, s[k]) \in S
    <3>1. <<s[k]>> \in S
      BY <1>0
    <3> HIDE DEF S
    <3> QED BY <3>1
  <2> HIDE DEF S, op
  <2> QED BY <2>1
<1>2. \E g : Graph(g)
  <2>1. PICK g : Folds(g, n, S, << >>, step)
    <3> HIDE DEF n, S, step
    <3> QED BY <1>0, <1>1, FoldGraph
  <2>2. g \in [SUBSET (1..n) -> S] /\ g[{}] = << >>
    BY <2>1 DEF Folds
  <2>3. ASSUME NEW x \in SUBSET (1..n), x # {}
        PROVE  g[x] = op(g[x \ {Max(x)}], s[Max(x)])
    <3>1. Max(x) \in 1..n /\ x \ {Max(x)} \in SUBSET (1..n)
      BY <1>0, <2>3, MaxIn
    <3>2. g[x] = step[<<Max(x), g[x \ {Max(x)}]>>]
      BY <2>1, <2>3 DEF Folds
    <3>3. g[x \ {Max(x)}] \in S
      BY <2>2, <3>1
    <3> HIDE DEF S, op
    <3> QED BY <3>1, <3>2, <3>3
  <2> HIDE DEF n, S, step, op
  <2> QED BY <2>2, <2>3
<1> DEFINE iter == CHOOSE g : Graph(g)
<1>3. Graph(iter)
  <2> HIDE DEF Graph
  <2> QED BY <1>2
<1>4. SelectPrimary(hyps) = iter[1..n]
  BY <1>0 DEF SelectPrimary, FoldLeft, MapThenFoldSet, iter
<1> HIDE DEF iter
<1>5. Steps(iter, n, S, << >>, step)
  <2>1. iter[{}] = << >>
    BY <1>3
  <2>2. ASSUME NEW x \in SUBSET (1..n), x # {}, iter[x \ {Max(x)}] \in S
        PROVE  iter[x] = step[<<Max(x), iter[x \ {Max(x)}]>>]
    <3>1. Max(x) \in 1..n
      BY <1>0, <2>2, MaxIn
    <3>2. iter[x] = op(iter[x \ {Max(x)}], s[Max(x)])
      <4> HIDE DEF n, S, op
      <4> QED BY <1>3, <2>2
    <3> HIDE DEF S, n, op
    <3> QED BY <2>2, <3>1, <3>2
  <2> HIDE DEF n, S, step
  <2> QED BY <2>1, <2>2 DEF Steps
<1>6. PICK f : Walks(f, iter, n, S, << >>, step)
  <2> HIDE DEF n, S, step
  <2> QED BY <1>0, <1>1, <1>5, Walked
<1>7. f \in [0..n -> S] /\ f[0] = << >> /\ f[n] = SelectPrimary(hyps)
  <2> HIDE DEF n, S
  <2> QED BY <1>4, <1>6 DEF Walks
<1>8. ASSUME NEW k \in 0..(n - 1) PROVE f[k + 1] = op(f[k], s[k + 1])
  <2>1. k + 1 \in 1..n /\ k \in 0..n
    BY <1>0
  <2>2. f[k] \in S /\ f[k + 1] = step[<<k + 1, f[k]>>]
    <3> HIDE DEF n, S, step
    <3> QED BY <1>6, <1>7, <2>1 DEF Walks
  <2> HIDE DEF n, S, op, s
  <2> QED BY <2>1, <2>2
<1>9. \A k \in 0..(n - 1) : f[k + 1] = Pick(f[k], s[k + 1])
  BY <1>8 DEF Pick
<1> QED BY <1>7, <1>9 DEF Picks, Picked

LEMMA SelectPrimaryIs ==
    ASSUME NEW T, NEW hyps \in Seq(T)
    PROVE  SelectPrimary(hyps) = << >> \/ \E h \in Range(hyps) : SelectPrimary(hyps) = <<h>>
  <1>1. PICK f : Picks(f, hyps)
    BY PrimaryScan
  <1>2. Len(hyps) \in Nat
    OBVIOUS
  <1> QED BY <1>1, <1>2 DEF Picks, Picked

-----------------------------------------------------------------------------
(* The thirteen hypotheses. *)

(* The root causes in the order of the code, and what makes each of them likely. *)
Types == <<"memory_limit_too_low", "application_memory_leak", "node_memory_pressure", "bad_config",
           "missing_secret_or_configmap", "dependency_unavailable", "probe_misconfigured", "pvc_unbound",
           "scheduling_constraint", "image_pull_failed", "init_container_crash", "node_eviction",
           "node_not_ready">>
Measured(ev) == {Ref(r) : r \in {e \in Live(ev) : e.src = "prometheus"}}
PartsOf(type, p, ev) ==
    LET m(words) == Mentions(p, ev, words) IN
    CASE type = "memory_limit_too_low" ->
             << <<m({"oom"}), 25>>, <<m({"limit_too_low"}), 20>>,
                <<Measured(ev), 10>>, <<m({"limit"}), 5>> >>
      [] type = "application_memory_leak" ->
             << <<m({"oom"}), 20>>, <<m({"memory_leak", "progressive_growth"}), 30>> >>
      [] type = "node_memory_pressure" -> << <<m({"memorypressure"}), 35>> >>
      [] type = "bad_config" -> << <<m({"config", "configmap"}), 30>>, <<m({"backoff"}), 20>>,
                                   <<m({"content_empty"}), 30>> >>
      [] type = "missing_secret_or_configmap" ->
             << <<m({"secret", "configmap"}), 15>>, <<m({"object_missing"}), 45>>, <<m({"key_missing"}), 40>> >>
      [] type = "dependency_unavailable" ->
             << <<m({"refused", "timeout"}), 25>>, <<m({"backoff", "probe"}), 10>> >>
      [] type = "probe_misconfigured" -> << <<m({"probe", "unhealthy"}), 45>> >>
      [] type = "pvc_unbound" -> << <<m({"pvc", "bound"}), 45>> >>
      [] type = "scheduling_constraint" ->
             << <<m({"failedscheduling", "taint", "selector"}), 45>>, <<m({"insufficient"}), 10>> >>
      [] type = "image_pull_failed" -> << <<m({"imagepull"}), 45>>, <<m({"auth", "manifest"}), 15>> >>
      [] type = "init_container_crash" ->
             << <<m({"init"}), 35>>, <<IF m({"init"}) = {} THEN {} ELSE m({"exitcode"}), 20>> >>
      [] type = "node_eviction" ->
             << <<m({"evict"}), 45>>, <<m(Pressures), 15>>, <<m({"ephemeral"}), 8>> >>
      [] type = "node_not_ready" ->
             << <<m({"notready"}), 45>>, <<m(Pressures), 10>>, <<m({"networkunavailable"}), 5>> >>

IsAbout(h, type, p, ev) == \E missing : h = Hypothesis(type, PartsOf(type, p, ev), missing)

LEMMA KeywordsAre ==
    ASSUME NEW p, NEW ev
    PROVE  /\ KeywordScores(p, ev) \in Seq(Range(KeywordScores(p, ev))) /\ Len(KeywordScores(p, ev)) = 13
           /\ \A i \in 1..13 : IsAbout(KeywordScores(p, ev)[i], Types[i], p, ev)
  <1> DEFINE u == KeywordScores(p, ev)
  <1>1. DOMAIN u = 1..13
    BY DEF KeywordScores
  <1>2. u = [i \in 1..13 |-> u[i]]
    BY DEF KeywordScores
  <1>3. u \in Seq(Range(u)) /\ Len(u) = 13
    <2> HIDE DEF u
    <2> QED BY <1>1, <1>2 DEF Range
  <1>4. IsAbout(u[1], "memory_limit_too_low", p, ev)
    BY DEF KeywordScores, PartsOf, IsAbout, Measured
  <1>5. IsAbout(u[2], "application_memory_leak", p, ev)
    BY DEF KeywordScores, PartsOf, IsAbout
  <1>6. IsAbout(u[3], "node_memory_pressure", p, ev)
    BY DEF KeywordScores, PartsOf, IsAbout
  <1>7. IsAbout(u[4], "bad_config", p, ev)
    BY DEF KeywordScores, PartsOf, IsAbout
  <1>8. IsAbout(u[5], "missing_secret_or_configmap", p, ev)
    BY DEF KeywordScores, PartsOf, IsAbout
  <1>9. IsAbout(u[6], "dependency_unavailable", p, ev)
    BY DEF KeywordScores, PartsOf, IsAbout
  <1>10. IsAbout(u[7], "probe_misconfigured", p, ev)
    BY DEF KeywordScores, PartsOf, IsAbout
  <1>11. IsAbout(u[8], "pvc_unbound", p, ev)
    BY DEF KeywordScores, PartsOf, IsAbout
  <1>12. IsAbout(u[9], "scheduling_constraint", p, ev)
    BY DEF KeywordScores, PartsOf, IsAbout
  <1>13. IsAbout(u[10], "image_pull_failed", p, ev)
    BY DEF KeywordScores, PartsOf, IsAbout
  <1>14. IsAbout(u[11], "init_container_crash", p, ev)
    BY DEF KeywordScores, PartsOf, IsAbout
  <1>15. IsAbout(u[12], "node_eviction", p, ev)
    BY DEF KeywordScores, PartsOf, IsAbout
  <1>16. IsAbout(u[13], "node_not_ready", p, ev)
    BY DEF KeywordScores, PartsOf, IsAbout
  <1> HIDE DEF u
  <1>17. \A i \in 1..13 : IsAbout(u[i], Types[i], p, ev)
    BY <1>4, <1>5, <1>6, <1>7, <1>8, <1>9, <1>10, <1>11, <1>12, <1>13, <1>14, <1>15, <1>16 DEF Types
  <1> QED BY <1>3, <1>17 DEF u

(* Without an answer the scores are those of the words. *)
LEMMA NobodyAnswers ==
    ASSUME NEW p, NEW ev
    PROVE  Update(p, ev, NoAnswer) = KeywordScores(p, ev)
  <1> DEFINE u == KeywordScores(p, ev)
  <1>1. u \in Seq(Range(u)) /\ Len(u) = 13
    BY KeywordsAre
  <1>2. Update(p, ev, NoAnswer) = [i \in DOMAIN u |-> Blended(u[i], NoAnswer)]
    BY DEF Update
  <1> HIDE DEF u
  <1>3. \A h : Blended(h, NoAnswer) = h
    BY DEF Blended, NoAnswer
  <1>4. Update(p, ev, NoAnswer) = [i \in DOMAIN u |-> u[i]]
    BY <1>2, <1>3
  <1> QED BY <1>1, <1>4 DEF u

LEMMA ScorerStays == [Next]_vars => scorer' = scorer
  BY DEF Next, Change, Become, Snapshot, Observe, StopObserving, Analyze, Legacy, Reconcile, Remediate,
         Store, vars

LEMMA NoScorer ==
    ASSUME ~scorer, NEW p, NEW ev, NEW answer \in Answers
    PROVE  Update(p, ev, answer) = KeywordScores(p, ev)
  <1>1. answer = NoAnswer
    BY DEF Answers
  <1> QED BY <1>1, NobodyAnswers

LEMMA PrimaryAmong ==
    ASSUME NEW p, NEW ev, NEW answer, SelectPrimary(Update(p, ev, answer)) # << >>
    PROVE  SelectPrimary(Update(p, ev, answer))[1] \in Range(Update(p, ev, answer))
  <1> DEFINE k == KeywordScores(p, ev)
             u == Update(p, ev, answer)
  <1>1. u = [i \in DOMAIN k |-> Blended(k[i], answer)]
    BY DEF Update
  <1>2. DOMAIN k = 1..13
    BY KeywordsAre
  <1> HIDE DEF k, u
  <1>3. u \in Seq(Range(u)) /\ SelectPrimary(u) # << >>
    BY <1>1, <1>2 DEF Range, u
  <1>4. PICK h \in Range(u) : SelectPrimary(u) = <<h>>
    BY <1>3, SelectPrimaryIs
  <1> QED BY <1>4 DEF u

-----------------------------------------------------------------------------
(* The analyzers own the fault. *)

(* Evidence is only added. *)
LEMMA MergedGrows ==
    ASSUME NEW ev, NEW extra, NEW all \in Merged(ev, extra)
    PROVE  /\ ev \subseteq all
           /\ \A r \in extra : \E e \in all : Ref(e) = Ref(r)
  <1> DEFINE new == {Ref(r) : r \in extra} \ {Ref(r) : r \in ev}
  <1>1. PICK f \in [new -> extra] : (\A ref \in new : Ref(f[ref]) = ref) /\ all = ev \cup Range(f)
    BY DEF Merged
  <1>2. ASSUME NEW r \in extra PROVE \E e \in all : Ref(e) = Ref(r)
    <2>1. CASE Ref(r) \in new
      <3>1. Ref(f[Ref(r)]) = Ref(r) /\ f[Ref(r)] \in Range(f)
        BY <1>1, <2>1 DEF Range
      <3> QED BY <1>1, <3>1
    <2>2. CASE Ref(r) \notin new
      BY <1>1, <2>2
    <2> QED BY <2>1, <2>2
  <1> QED BY <1>1, <1>2

LEMMA StaysAuthoritative ==
    ASSUME NEW r, DOMAIN r = ReportFields, NEW ev, r.ev \subseteq ev, AnalyzerPrimaryAuthoritative(r),
           NEW q, q = [r EXCEPT !.ev = ev]
    PROVE  AnalyzerPrimaryAuthoritative(q)
  <1>1. q.ev = ev /\ q.faults = r.faults /\ q.primary = r.primary
    BY WithEvidence
  <1>2. ASSUME NEW fault, Structural(fault, r.ev) PROVE Structural(fault, ev)
    BY <1>2 DEF Structural
  <1> QED BY <1>1, <1>2 DEF AnalyzerPrimaryAuthoritative

(* The node analyzer leaves the record by which its fault is recognized. *)
LEMMA NodeIsStructural ==
    ASSUME NEW p, MatchNodeNotReady(p)
    PROVE  Structural("NodeNotReady", AnalyzeNodeNotReady(p).ev)
  <1> DEFINE r == Record("k8s_topology", "NotReady", TitleWords["NotReady"], "critical")
  <1>1. "notready" \in p.node
    BY DEF MatchNodeNotReady
  <1>2. \E rest : AnalyzeNodeNotReady(p).ev = {r} \cup rest
    BY <1>1, ZenonT(60) DEF AnalyzeNodeNotReady, Result
  <1>3. r \in AnalyzeNodeNotReady(p).ev
    BY <1>2
  <1>4. "node notready" \in TitleWords["NotReady"]
    BY DEF TitleWords
  <1>5. r.src = "k8s_topology" /\ r.title = "NotReady"
    BY DEF Record
  <1> HIDE DEF r
  <1>6. "k8s_topology" \in Structure("NodeNotReady")[1] /\ "node notready" \in Structure("NodeNotReady")[2]
    BY DEF Structure
  <1>7. r.src \in Structure("NodeNotReady")[1] /\ "node notready" \in TitleWords[r.title]
    BY <1>4, <1>5, <1>6
  <1>8. (TitleWords[r.title] \cup r.says) \cap Structure("NodeNotReady")[2] # {}
    BY <1>6, <1>7
  <1> QED BY <1>3, <1>7, <1>8 DEF Structural

(* The engine's report is that of an analyzer, or of none. *)
LEMMA EngineIsAuthoritative ==
    ASSUME NEW p, NEW r \in Reports(p)
    PROVE  r.faults = {"unknown"} \/ AnalyzerPrimaryAuthoritative(r)
  <1>1. CASE Found(p) = {}
    <2>1. r = NoResultReport(p)
      BY <1>1, ReportsAre
    <2> QED BY <2>1 DEF NoResultReport
  <1>2. CASE Found(p) # {}
    <2>1a. PICK best \in Bests(Results(p)) : \E edge : r = AggregateReport(p, Results(p), best, edge)
      BY <1>2, ReportsAre
    <2>1. PICK edge : r = AggregateReport(p, Results(p), best, edge)
      BY <2>1a
    <2>2. best \in Range(Results(p)) /\ best \in Found(p)
      <3>1. Results(p) \in Seq(Candidates(p)) /\ Results(p) # << >> /\ Range(Results(p)) = Found(p)
        BY <1>2, ResultsAre, FoundIs
      <3> HIDE DEF Results, Candidates, Found
      <3> QED BY <2>1, <3>1, BestsAre
    <2>3. PICK i \in DOMAIN Results(p) : Results(p)[i] = best
      BY <2>2 DEF Range
    <2>4. /\ r.primary = Factor(best.name, best.fault, 10 * best.conf, "primary")
          /\ best.ev \subseteq r.ev /\ best.fault \in r.faults
      <3>1. /\ r.primary = Factor(best.name, best.fault, 10 * best.conf, "primary")
            /\ r.faults = {Results(p)[j].fault : j \in DOMAIN Results(p)}
            /\ UNION {Results(p)[j].ev : j \in DOMAIN Results(p)} \subseteq r.ev
        BY <2>1, Zenon DEF AggregateReport
      <3> QED BY <2>3, <3>1
    <2>5. r.primary.by = best.name /\ r.primary.fault = best.fault
      BY <2>4 DEF Factor
    <2>6. r.faults # {"unknown"}
      BY <2>2, <2>4, FoundIs DEF FaultNames
    <2>7. \/ best.name \notin {"", "agent_hypothesis"}
          \/ best = AnalyzeNodeNotReady(p) /\ MatchNodeNotReady(p) /\ best.fault = "NodeNotReady"
      <3>1. \/ best = AnalyzeOOM(p) \/ best = AnalyzeCrashLoop(p) \/ best = AnalyzeImagePull(p)
            \/ best = AnalyzeInit(p) \/ best = AnalyzeEvicted(p) \/ best = AnalyzePending(p)
            \/ best = AnalyzeProbe(p) \/ (best = AnalyzeNodeNotReady(p) /\ MatchNodeNotReady(p))
        <4>1. best \in Found(p)
          BY <2>2
        <4> QED BY <4>1, ZenonT(30) DEF Found, Chosen
      <3>2. CASE best \in {AnalyzeOOM(p), AnalyzeCrashLoop(p), AnalyzeImagePull(p), AnalyzeInit(p)}
        BY <3>2, AnalyzersAre
      <3>3. CASE best \in {AnalyzeEvicted(p), AnalyzePending(p), AnalyzeProbe(p)}
        BY <3>3, AnalyzersAre
      <3>4. CASE best = AnalyzeNodeNotReady(p) /\ MatchNodeNotReady(p)
        BY <3>4, AnalyzersAre
      <3> QED BY <3>1, <3>2, <3>3, <3>4, Zenon
    <2>8. CASE best.name \notin {"", "agent_hypothesis"}
      BY <2>5, <2>6, <2>8 DEF AnalyzerPrimaryAuthoritative
    <2>9. CASE best = AnalyzeNodeNotReady(p) /\ MatchNodeNotReady(p) /\ best.fault = "NodeNotReady"
      <3>1. Structural("NodeNotReady", best.ev)
        BY <2>9, NodeIsStructural
      <3>2. Structural("NodeNotReady", r.ev)
        BY <2>4, <3>1 DEF Structural
      <3> QED BY <2>5, <2>6, <2>9, <3>2 DEF AnalyzerPrimaryAuthoritative
    <2> QED BY <2>7, <2>8, <2>9
  <1> QED BY <1>1, <1>2

OwnerInv ==
    /\ stage \in Reported => DOMAIN report = ReportFields
    /\ stage = "analyzed" => report.faults = {"unknown"} \/ AnalyzerPrimaryAuthoritative(report)

LEMMA OwnerInit == Init => OwnerInv
  BY DEF Init, OwnerInv, Reported

LEMMA OwnerStep == OwnerInv /\ NameInv' /\ [Next]_vars => OwnerInv'
  <1> SUFFICES ASSUME OwnerInv, NameInv', [Next]_vars PROVE OwnerInv'
    OBVIOUS
  <1>1. stage' \in Reported => DOMAIN report' = ReportFields
    BY DEF NameInv
  <1>2. ASSUME stage' = "analyzed"
        PROVE  report'.faults = {"unknown"} \/ AnalyzerPrimaryAuthoritative(report')
    <2>1. CASE Analyze
      <3>1. PICK r \in Reports(context) : \E ev \in Merged(r.ev, seen) : report' = [r EXCEPT !.ev = ev]
        BY <2>1 DEF Analyze
      <3>2. PICK ev \in Merged(r.ev, seen) : report' = [r EXCEPT !.ev = ev]
        BY <3>1
      <3>3. DOMAIN r = ReportFields /\ r.ev \subseteq ev
        BY <3>1, <3>2, ReportsAre, MergedGrows
      <3>4. report'.faults = r.faults
        BY <3>2, <3>3, WithEvidence
      <3>5. CASE r.faults = {"unknown"}
        BY <3>4, <3>5
      <3>6. CASE AnalyzerPrimaryAuthoritative(r)
        BY <3>2, <3>3, <3>6, StaysAuthoritative
      <3> QED BY <3>1, <3>5, <3>6, EngineIsAuthoritative
    <2>2. CASE UNCHANGED vars
      BY <1>2, <2>2 DEF OwnerInv, vars, AnalyzerPrimaryAuthoritative, Structural
    <2> QED
      BY <1>2, <2>1, <2>2 DEF Next, Change, Become, Snapshot, Observe, StopObserving, Legacy, Reconcile, Remediate, Store
  <1> QED BY <1>1, <1>2 DEF OwnerInv

(* A hypothesis names the fault only where no analyzer did. *)
Owned ==
    \/ report'.faults = report.faults /\ report'.primary = report.primary
    \/ /\ report.faults = {"unknown"}
       /\ \E h \in Range(scores') : h.status = "confirmed" /\ report'.faults = {FaultOf(h.type)}

LEMMA ReconcileOwned == OwnerInv /\ Reconcile => Owned
  <1> SUFFICES ASSUME OwnerInv, Reconcile PROVE Owned
    OBVIOUS
  <1>1. PICK ev : /\ report.ev \subseteq ev /\ \E answer : scores' = Update(context, ev, answer)
                  /\ report' = Aligned([report EXCEPT !.ev = ev], scores')
    BY DEF Reconcile
  <1> DEFINE r == [report EXCEPT !.ev = ev]
  <1>2. DOMAIN report = ReportFields /\ (report.faults = {"unknown"} \/ AnalyzerPrimaryAuthoritative(report))
    BY DEF Reconcile, OwnerInv, Reported
  <1>3. DOMAIN r = ReportFields /\ r.faults = report.faults /\ r.primary = report.primary
    BY <1>2, WithEvidence
  <1>4. AnalyzerPrimaryAuthoritative(report) => AnalyzerPrimaryAuthoritative(r)
    BY <1>1, <1>2, StaysAuthoritative
  <1> HIDE DEF r
  <1>5. \/ report'.faults = r.faults /\ report'.primary = r.primary
        \/ SelectPrimary(scores') # << >> /\ Renamed(report', r, SelectPrimary(scores')[1])
    BY <1>1, <1>3, AlignedIs DEF r
  <1>6. CASE SelectPrimary(scores') # << >> /\ Renamed(report', r, SelectPrimary(scores')[1])
    <2>1. SelectPrimary(scores')[1] \in Range(scores')
      BY <1>1, <1>6, PrimaryAmong
    <2>2. report.faults = {"unknown"}
      BY <1>2, <1>4, <1>6 DEF Renamed
    <2> QED BY <1>6, <2>1, <2>2 DEF Renamed, Owned
  <1> QED BY <1>3, <1>5, <1>6 DEF Owned

(* The analyzers own the fault of a report, for any pod, evidence and hypotheses: the       *)
(* primary of the engine's report is an authority from the first (it has a name, or it is   *)
(* the node analyzer's and its record is among the evidence), and merging the evidence of   *)
(* the tools and of the integrity check takes none of it away.                              *)
THEOREM AnalyzersOwnTheFault == Spec => AnalyzerOwnsFault
  <1>1. OwnerInv /\ [Next]_vars => (stage = "analyzed" => Owned) \/ UNCHANGED vars
    BY ReconcileOwned DEF Next, Change, Become, Snapshot, Observe, StopObserving, Analyze, Legacy, Remediate, Store
  <1>2. OwnerInv /\ [Next]_vars => [stage = "analyzed" =>
              \/ report'.faults = report.faults /\ report'.primary = report.primary
              \/ /\ report.faults = {"unknown"}
                 /\ \E h \in Range(scores') : /\ h.status = "confirmed"
                                              /\ report'.faults = {FaultOf(h.type)}]_vars
    BY <1>1 DEF Owned
  <1>3. NameInv /\ [Next]_vars => NameInv'
    BY NameStep
  <1> QED BY <1>2, <1>3, NameInit, OwnerInit, OwnerStep, PTL DEF Spec, AnalyzerOwnsFault

-----------------------------------------------------------------------------
(* More evidence makes a hypothesis more likely. *)

LEMMA MinIs ==
    ASSUME NEW a \in Nat, NEW b \in Nat
    PROVE  Min({a, b}) = IF a <= b THEN a ELSE b
  <1> DEFINE least == IF a <= b THEN a ELSE b
  <1>1. least \in {a, b} /\ \A y \in {a, b} : least <= y
    OBVIOUS
  <1>2. \E x \in {a, b} : \A y \in {a, b} : x <= y
    BY <1>1
  <1>3. Min({a, b}) \in {a, b} /\ \A y \in {a, b} : Min({a, b}) <= y
    BY <1>2 DEF Min
  <1> QED BY <1>3

(* Parts of a hypothesis: references and a weight. *)
IsParts(parts) ==
    /\ parts = [i \in 1..Len(parts) |-> parts[i]] /\ Len(parts) \in Nat
    /\ \A i \in 1..Len(parts) : parts[i][2] \in Nat
Adds(sum, part) == IF part[1] = {} THEN sum ELSE sum + 10 * part[2]
Weighs(f, parts) ==
    LET n == Len(parts) IN
    /\ f \in [0..n -> Nat] /\ f[0] = 300 /\ f[n] = Weight(parts)
    /\ \A k \in 0..(n - 1) : f[k + 1] = Adds(f[k], parts[k + 1])

LEMMA WeightSteps ==
    ASSUME NEW parts, IsParts(parts)
    PROVE  \E f : Weighs(f, parts)
<1> DEFINE s == parts
           n == Len(s)
           S == Nat
           base == 300
           op(sum, a) == IF a[1] = {} THEN sum ELSE sum + 10 * a[2]
           step == [p \in (1..n) \X S |-> op(p[2], s[p[1]])]
           Graph(g) == g = [x \in SUBSET (1..n) |-> IF x = {} THEN base
                                                   ELSE op(g[x \ {Max(x)}], s[Max(x)])]
<1>0. n \in Nat /\ base \in S /\ DOMAIN s = 1..n /\ \A i \in 1..n : s[i][2] \in Nat
  BY DEF IsParts
<1>1. step \in [(1..n) \X S -> S]
  <2>1. ASSUME NEW k \in 1..n, NEW sum \in S PROVE op(sum, s[k]) \in S
    BY <1>0
  <2> HIDE DEF op
  <2> QED BY <2>1
<1>2. \E g : Graph(g)
  <2>1. PICK g : Folds(g, n, S, base, step)
    <3> HIDE DEF n, S, base, step
    <3> QED BY <1>0, <1>1, FoldGraph
  <2>2. g \in [SUBSET (1..n) -> S] /\ g[{}] = base
    BY <2>1 DEF Folds
  <2>3. ASSUME NEW x \in SUBSET (1..n), x # {}
        PROVE  g[x] = op(g[x \ {Max(x)}], s[Max(x)])
    <3>1. Max(x) \in 1..n /\ x \ {Max(x)} \in SUBSET (1..n)
      BY <1>0, <2>3, MaxIn
    <3>2. g[x] = step[<<Max(x), g[x \ {Max(x)}]>>]
      BY <2>1, <2>3 DEF Folds
    <3>3. g[x \ {Max(x)}] \in S
      BY <2>2, <3>1
    <3> HIDE DEF S, op
    <3> QED BY <3>1, <3>2, <3>3
  <2> HIDE DEF n, S, base, step, op
  <2> QED BY <2>2, <2>3
<1> DEFINE iter == CHOOSE g : Graph(g)
<1>3. Graph(iter)
  <2> HIDE DEF Graph
  <2> QED BY <1>2
<1>4. Weight(parts) = iter[1..n]
  BY <1>0 DEF Weight, FoldLeft, MapThenFoldSet, iter
<1> HIDE DEF iter
<1>5. Steps(iter, n, S, base, step)
  <2>1. iter[{}] = base
    BY <1>3
  <2>2. ASSUME NEW x \in SUBSET (1..n), x # {}, iter[x \ {Max(x)}] \in S
        PROVE  iter[x] = step[<<Max(x), iter[x \ {Max(x)}]>>]
    <3>1. Max(x) \in 1..n
      BY <1>0, <2>2, MaxIn
    <3>2. iter[x] = op(iter[x \ {Max(x)}], s[Max(x)])
      <4> HIDE DEF n, S, op
      <4> QED BY <1>3, <2>2
    <3> HIDE DEF S, n, op
    <3> QED BY <2>2, <3>1, <3>2
  <2> HIDE DEF n, S, base, step
  <2> QED BY <2>1, <2>2 DEF Steps
<1>6. PICK f : Walks(f, iter, n, S, base, step)
  <2> HIDE DEF n, S, base, step
  <2> QED BY <1>0, <1>1, <1>5, Walked
<1>7. ASSUME NEW k \in 0..(n - 1) PROVE f[k + 1] = Adds(f[k], s[k + 1])
  <2>1. f[k + 1] = step[<<k + 1, f[k]>>] /\ f \in [0..n -> S]
    <3> HIDE DEF step, S, n
    <3> QED BY <1>6 DEF Walks
  <2>2. k \in 0..n /\ k + 1 \in 1..n
    <3> HIDE DEF n
    <3> QED BY <1>0
  <2>3. op(f[k], s[k + 1]) = Adds(f[k], s[k + 1])
    BY DEF Adds
  <2> HIDE DEF op, S, n
  <2>4. f[k] \in S
    BY <2>1, <2>2
  <2> QED BY <2>1, <2>2, <2>3, <2>4
<1>8. f \in [0..n -> S] /\ f[0] = base /\ f[n] = Weight(parts)
  BY <1>4, <1>6 DEF Walks
<1> QED BY <1>7, <1>8 DEF Weighs

(* Parts that have more references. *)
Grown(more, parts) ==
    /\ IsParts(parts) /\ IsParts(more) /\ Len(more) = Len(parts)
    /\ \A i \in 1..Len(parts) : more[i][2] = parts[i][2] /\ (more[i][1] = {} => parts[i][1] = {})

LEMMA Heavier ==
    ASSUME NEW parts, NEW more, Grown(more, parts)
    PROVE  Weight(parts) \in Nat /\ Weight(more) \in Nat /\ Weight(parts) <= Weight(more)
  <1> DEFINE n == Len(parts)
  <1>1. PICK f : Weighs(f, parts)
    BY WeightSteps DEF Grown
  <1>2. PICK g : Weighs(g, more)
    BY WeightSteps DEF Grown
  <1>3. /\ n \in Nat /\ f \in [0..n -> Nat] /\ g \in [0..n -> Nat]
        /\ f[0] = 300 /\ g[0] = 300 /\ f[n] = Weight(parts) /\ g[n] = Weight(more)
        /\ \A k \in 0..(n - 1) : f[k + 1] = Adds(f[k], parts[k + 1])
        /\ \A k \in 0..(n - 1) : g[k + 1] = Adds(g[k], more[k + 1])
    BY <1>1, <1>2 DEF Weighs, Grown, IsParts
  <1>4. \A i \in 1..n : /\ more[i][2] = parts[i][2] /\ parts[i][2] \in Nat
                        /\ (more[i][1] = {} => parts[i][1] = {})
    BY DEF Grown, IsParts
  <1> HIDE DEF n
  <1> DEFINE T == {k \in Nat : k <= n => f[k] <= g[k]}
  <1>5. 0 \in T
    BY <1>3
  <1>6. ASSUME NEW k \in Nat, k \in T PROVE k + 1 \in T
    <2> SUFFICES ASSUME k + 1 <= n PROVE f[k + 1] <= g[k + 1]
      OBVIOUS
    <2>1. k \in 0..(n - 1) /\ k \in 0..n /\ k + 1 \in 1..n /\ f[k] <= g[k]
      BY <1>3, <1>6
    <2>2. f[k] \in Nat /\ g[k] \in Nat
      BY <1>3, <2>1
    <2>3. f[k + 1] = Adds(f[k], parts[k + 1]) /\ g[k + 1] = Adds(g[k], more[k + 1])
      BY <1>3, <2>1
    <2>4. /\ more[k + 1][2] = parts[k + 1][2] /\ parts[k + 1][2] \in Nat
          /\ (more[k + 1][1] = {} => parts[k + 1][1] = {})
      BY <1>4, <2>1
    <2> QED BY <2>1, <2>2, <2>3, <2>4 DEF Adds
  <1>7. Nat \subseteq T
    <2> HIDE DEF T
    <2> QED BY <1>5, <1>6, Induction
  <1> QED BY <1>3, <1>7

LEMMA StaysConfirmed ==
    ASSUME NEW parts, NEW more, Grown(more, parts), NEW type, NEW m1, NEW m2,
           Hypothesis(type, parts, m1).status = "confirmed"
    PROVE  Hypothesis(type, more, m2).status = "confirmed"
  <1> DEFINE Found1(s) == UNION {s[i][1] : i \in DOMAIN s}
             Conf(s) == IF Found1(s) = {} THEN 150 ELSE Min({Weight(s), 1000})
  <1>1. /\ Hypothesis(type, parts, m1).status = StatusOf(Conf(parts))
        /\ Hypothesis(type, more, m2).status = StatusOf(Conf(more))
    BY DEF Hypothesis
  <1>2. Weight(parts) \in Nat /\ Weight(more) \in Nat /\ Weight(parts) <= Weight(more)
    BY Heavier
  <1>3. /\ Min({Weight(parts), 1000}) = IF Weight(parts) <= 1000 THEN Weight(parts) ELSE 1000
        /\ Min({Weight(more), 1000}) = IF Weight(more) <= 1000 THEN Weight(more) ELSE 1000
    BY <1>2, MinIs
  <1>4. Conf(parts) >= 750
    BY <1>1, <1>2, <1>3 DEF StatusOf
  <1>5. Found1(parts) # {}
    BY <1>4
  <1>6. Found1(more) # {}
    <2>1. DOMAIN parts = DOMAIN more /\ \A i \in DOMAIN parts : more[i][1] = {} => parts[i][1] = {}
      BY DEF Grown, IsParts
    <2> QED BY <1>5, <2>1
  <1> HIDE DEF Found1
  <1>7. Conf(more) >= 750
    BY <1>2, <1>3, <1>4, <1>5, <1>6
  <1> QED BY <1>1, <1>7 DEF StatusOf

(* Evidence that says at least as much. *)
Covers(all, ev) == \A r \in ev : \E e \in all : Ref(e) = Ref(r) /\ Words(r) \subseteq Words(e)

LEMMA CoversMore ==
    ASSUME NEW ev, NEW all, Covers(all, ev)
    PROVE  /\ Measured(ev) \subseteq Measured(all)
           /\ \A p, words : Mentions(p, ev, words) \subseteq Mentions(p, all, words)
  <1>1. ASSUME NEW r \in Live(ev)
        PROVE  \E e \in Live(all) : Ref(e) = Ref(r) /\ e.src = r.src /\ Words(r) \subseteq Words(e)
    <2>1. PICK e \in all : Ref(e) = Ref(r) /\ Words(r) \subseteq Words(e)
      BY DEF Covers, Live
    <2>2. e.src = r.src /\ e.title = r.title
      BY <2>1 DEF Ref
    <2> QED BY <2>1, <2>2 DEF Live
  <1>2. Measured(ev) \subseteq Measured(all)
    <2> SUFFICES ASSUME NEW r \in Live(ev), r.src = "prometheus"
                 PROVE  \E e \in Live(all) : e.src = "prometheus" /\ Ref(e) = Ref(r)
      BY DEF Measured
    <2> QED BY <1>1
  <1>3. ASSUME NEW p, NEW words PROVE Mentions(p, ev, words) \subseteq Mentions(p, all, words)
    <2> SUFFICES ASSUME NEW r \in Live(ev), Words(r) \cap words # {}
                 PROVE  \E e \in Live(all) : Words(e) \cap words # {} /\ Ref(e) = Ref(r)
      BY DEF Mentions
    <2> QED BY <1>1
  <1> QED BY <1>2, <1>3

LEMMA Grown1 ==
    ASSUME NEW a, NEW b,
           NEW t \in Nat,
           b = {} => a = {}
    PROVE  Grown(<< <<b, t>> >>, << <<a, t>> >>)
  BY DEF Grown, IsParts

LEMMA Grown2 ==
    ASSUME NEW a, NEW b, NEW c, NEW d,
           NEW t \in Nat, NEW u \in Nat,
           b = {} => a = {}, d = {} => c = {}
    PROVE  Grown(<< <<b, t>>, <<d, u>> >>, << <<a, t>>, <<c, u>> >>)
  BY DEF Grown, IsParts

LEMMA Grown3 ==
    ASSUME NEW a, NEW b, NEW c, NEW d, NEW e, NEW f,
           NEW t \in Nat, NEW u \in Nat, NEW v \in Nat,
           b = {} => a = {}, d = {} => c = {}, f = {} => e = {}
    PROVE  Grown(<< <<b, t>>, <<d, u>>, <<f, v>> >>, << <<a, t>>, <<c, u>>, <<e, v>> >>)
  BY DEF Grown, IsParts

LEMMA Grown4 ==
    ASSUME NEW a, NEW b, NEW c, NEW d, NEW e, NEW f, NEW g, NEW h,
           NEW t \in Nat, NEW u \in Nat, NEW v \in Nat, NEW w \in Nat,
           b = {} => a = {}, d = {} => c = {}, f = {} => e = {}, h = {} => g = {}
    PROVE  Grown(<< <<b, t>>, <<d, u>>, <<f, v>>, <<h, w>> >>, << <<a, t>>, <<c, u>>, <<e, v>>, <<g, w>> >>)
  BY DEF Grown, IsParts

LEMMA PartsGrow ==
    ASSUME NEW p, NEW ev, NEW all, Covers(all, ev), NEW i \in 1..13
    PROVE  Grown(PartsOf(Types[i], p, all), PartsOf(Types[i], p, ev))
  <1> DEFINE M(e, words) == Mentions(p, e, words)
             More(s, t) == t = {} => s = {}
             Gains(type) == Grown(PartsOf(type, p, all), PartsOf(type, p, ev))
  <1>0. More(Measured(ev), Measured(all)) /\ \A words : More(M(ev, words), M(all, words))
    BY CoversMore
  <1> HIDE DEF M
  <1>1. Gains("memory_limit_too_low")
    <2>1. \A e : PartsOf("memory_limit_too_low", p, e) =
              << <<M(e, {"oom"}), 25>>, <<M(e, {"limit_too_low"}), 20>>, <<Measured(e), 10>>,
                 <<M(e, {"limit"}), 5>> >>
      BY DEF PartsOf, M
    <2>2. /\ More(M(ev, {"oom"}), M(all, {"oom"})) /\ More(M(ev, {"limit_too_low"}), M(all, {"limit_too_low"}))
          /\ More(Measured(ev), Measured(all)) /\ More(M(ev, {"limit"}), M(all, {"limit"}))
      BY <1>0
    <2>3. Grown(<< <<M(all, {"oom"}), 25>>, <<M(all, {"limit_too_low"}), 20>>, <<Measured(all), 10>>,
                   <<M(all, {"limit"}), 5>> >>,
                << <<M(ev, {"oom"}), 25>>, <<M(ev, {"limit_too_low"}), 20>>, <<Measured(ev), 10>>,
                   <<M(ev, {"limit"}), 5>> >>)
      BY <2>2, Grown4
    <2> QED BY <2>1, <2>3
  <1>2. Gains("application_memory_leak")
    <2>1. \A e : PartsOf("application_memory_leak", p, e) =
              << <<M(e, {"oom"}), 20>>, <<M(e, {"memory_leak", "progressive_growth"}), 30>> >>
      BY DEF PartsOf, M
    <2>2. /\ More(M(ev, {"oom"}), M(all, {"oom"}))
          /\ More(M(ev, {"memory_leak", "progressive_growth"}), M(all, {"memory_leak", "progressive_growth"}))
      BY <1>0
    <2>3. Grown(<< <<M(all, {"oom"}), 20>>, <<M(all, {"memory_leak", "progressive_growth"}), 30>> >>,
                << <<M(ev, {"oom"}), 20>>, <<M(ev, {"memory_leak", "progressive_growth"}), 30>> >>)
      BY <2>2, Grown2
    <2> QED BY <2>1, <2>3
  <1>3. Gains("node_memory_pressure")
    <2>1. \A e : PartsOf("node_memory_pressure", p, e) =
              << <<M(e, {"memorypressure"}), 35>> >>
      BY DEF PartsOf, M
    <2>2. More(M(ev, {"memorypressure"}), M(all, {"memorypressure"}))
      BY <1>0
    <2>3. Grown(<< <<M(all, {"memorypressure"}), 35>> >>,
                << <<M(ev, {"memorypressure"}), 35>> >>)
      BY <2>2, Grown1
    <2> QED BY <2>1, <2>3
  <1>4. Gains("bad_config")
    <2>1. \A e : PartsOf("bad_config", p, e) =
              << <<M(e, {"config", "configmap"}), 30>>, <<M(e, {"backoff"}), 20>>,
                 <<M(e, {"content_empty"}), 30>> >>
      BY DEF PartsOf, M
    <2>2. /\ More(M(ev, {"config", "configmap"}), M(all, {"config", "configmap"}))
          /\ More(M(ev, {"backoff"}), M(all, {"backoff"}))
          /\ More(M(ev, {"content_empty"}), M(all, {"content_empty"}))
      BY <1>0
    <2>3. Grown(<< <<M(all, {"config", "configmap"}), 30>>, <<M(all, {"backoff"}), 20>>, <<M(all, {"content_empty"}), 30>> >>,
                << <<M(ev, {"config", "configmap"}), 30>>, <<M(ev, {"backoff"}), 20>>, <<M(ev, {"content_empty"}), 30>> >>)
      BY <2>2, Grown3
    <2> QED BY <2>1, <2>3
  <1>5. Gains("missing_secret_or_configmap")
    <2>1. \A e : PartsOf("missing_secret_or_configmap", p, e) =
              << <<M(e, {"secret", "configmap"}), 15>>, <<M(e, {"object_missing"}), 45>>,
                 <<M(e, {"key_missing"}), 40>> >>
      BY DEF PartsOf, M
    <2>2. /\ More(M(ev, {"secret", "configmap"}), M(all, {"secret", "configmap"}))
          /\ More(M(ev, {"object_missing"}), M(all, {"object_missing"}))
          /\ More(M(ev, {"key_missing"}), M(all, {"key_missing"}))
      BY <1>0
    <2>3. Grown(<< <<M(all, {"secret", "configmap"}), 15>>, <<M(all, {"object_missing"}), 45>>, <<M(all, {"key_missing"}), 40>> >>,
                << <<M(ev, {"secret", "configmap"}), 15>>, <<M(ev, {"object_missing"}), 45>>, <<M(ev, {"key_missing"}), 40>> >>)
      BY <2>2, Grown3
    <2> QED BY <2>1, <2>3
  <1>6. Gains("dependency_unavailable")
    <2>1. \A e : PartsOf("dependency_unavailable", p, e) =
              << <<M(e, {"refused", "timeout"}), 25>>, <<M(e, {"backoff", "probe"}), 10>> >>
      BY DEF PartsOf, M
    <2>2. /\ More(M(ev, {"refused", "timeout"}), M(all, {"refused", "timeout"}))
          /\ More(M(ev, {"backoff", "probe"}), M(all, {"backoff", "probe"}))
      BY <1>0
    <2>3. Grown(<< <<M(all, {"refused", "timeout"}), 25>>, <<M(all, {"backoff", "probe"}), 10>> >>,
                << <<M(ev, {"refused", "timeout"}), 25>>, <<M(ev, {"backoff", "probe"}), 10>> >>)
      BY <2>2, Grown2
    <2> QED BY <2>1, <2>3
  <1>7. Gains("probe_misconfigured")
    <2>1. \A e : PartsOf("probe_misconfigured", p, e) =
              << <<M(e, {"probe", "unhealthy"}), 45>> >>
      BY DEF PartsOf, M
    <2>2. More(M(ev, {"probe", "unhealthy"}), M(all, {"probe", "unhealthy"}))
      BY <1>0
    <2>3. Grown(<< <<M(all, {"probe", "unhealthy"}), 45>> >>,
                << <<M(ev, {"probe", "unhealthy"}), 45>> >>)
      BY <2>2, Grown1
    <2> QED BY <2>1, <2>3
  <1>8. Gains("pvc_unbound")
    <2>1. \A e : PartsOf("pvc_unbound", p, e) =
              << <<M(e, {"pvc", "bound"}), 45>> >>
      BY DEF PartsOf, M
    <2>2. More(M(ev, {"pvc", "bound"}), M(all, {"pvc", "bound"}))
      BY <1>0
    <2>3. Grown(<< <<M(all, {"pvc", "bound"}), 45>> >>,
                << <<M(ev, {"pvc", "bound"}), 45>> >>)
      BY <2>2, Grown1
    <2> QED BY <2>1, <2>3
  <1>9. Gains("scheduling_constraint")
    <2>1. \A e : PartsOf("scheduling_constraint", p, e) =
              << <<M(e, {"failedscheduling", "taint", "selector"}), 45>>,
                 <<M(e, {"insufficient"}), 10>> >>
      BY DEF PartsOf, M
    <2>2. /\ More(M(ev, {"failedscheduling", "taint", "selector"}), M(all, {"failedscheduling", "taint", "selector"}))
          /\ More(M(ev, {"insufficient"}), M(all, {"insufficient"}))
      BY <1>0
    <2>3. Grown(<< <<M(all, {"failedscheduling", "taint", "selector"}), 45>>, <<M(all, {"insufficient"}), 10>> >>,
                << <<M(ev, {"failedscheduling", "taint", "selector"}), 45>>, <<M(ev, {"insufficient"}), 10>> >>)
      BY <2>2, Grown2
    <2> QED BY <2>1, <2>3
  <1>10. Gains("image_pull_failed")
    <2>1. \A e : PartsOf("image_pull_failed", p, e) =
              << <<M(e, {"imagepull"}), 45>>, <<M(e, {"auth", "manifest"}), 15>> >>
      BY DEF PartsOf, M
    <2>2. /\ More(M(ev, {"imagepull"}), M(all, {"imagepull"}))
          /\ More(M(ev, {"auth", "manifest"}), M(all, {"auth", "manifest"}))
      BY <1>0
    <2>3. Grown(<< <<M(all, {"imagepull"}), 45>>, <<M(all, {"auth", "manifest"}), 15>> >>,
                << <<M(ev, {"imagepull"}), 45>>, <<M(ev, {"auth", "manifest"}), 15>> >>)
      <3>1. 45 \in Nat /\ 15 \in Nat
        OBVIOUS
      <3> QED BY <2>2, <3>1, Grown2
    <2> QED BY <2>1, <2>3
  <1>11. Gains("init_container_crash")
    <2> DEFINE C(e) == IF M(e, {"init"}) = {} THEN {} ELSE M(e, {"exitcode"})
    <2>1. \A e : PartsOf("init_container_crash", p, e) = << <<M(e, {"init"}), 35>>, <<C(e), 20>> >>
      BY DEF PartsOf, M
    <2>2. More(C(ev), C(all))
      BY <1>0
    <2>3. More(M(ev, {"init"}), M(all, {"init"}))
      BY <1>0
    <2> HIDE DEF C
    <2>4. Grown(<< <<M(all, {"init"}), 35>>, <<C(all), 20>> >>,
                << <<M(ev, {"init"}), 35>>, <<C(ev), 20>> >>)
      BY <2>2, <2>3, Grown2
    <2> QED BY <2>1, <2>4
  <1>12. Gains("node_eviction")
    <2>1. \A e : PartsOf("node_eviction", p, e) =
              << <<M(e, {"evict"}), 45>>, <<M(e, Pressures), 15>>, <<M(e, {"ephemeral"}), 8>> >>
      BY DEF PartsOf, M
    <2>2. /\ More(M(ev, {"evict"}), M(all, {"evict"}))
          /\ More(M(ev, Pressures), M(all, Pressures))
          /\ More(M(ev, {"ephemeral"}), M(all, {"ephemeral"}))
      BY <1>0
    <2>3. Grown(<< <<M(all, {"evict"}), 45>>, <<M(all, Pressures), 15>>, <<M(all, {"ephemeral"}), 8>> >>,
                << <<M(ev, {"evict"}), 45>>, <<M(ev, Pressures), 15>>, <<M(ev, {"ephemeral"}), 8>> >>)
      BY <2>2, Grown3
    <2> QED BY <2>1, <2>3
  <1>13. Gains("node_not_ready")
    <2>1. \A e : PartsOf("node_not_ready", p, e) =
              << <<M(e, {"notready"}), 45>>, <<M(e, Pressures), 10>>,
                 <<M(e, {"networkunavailable"}), 5>> >>
      BY DEF PartsOf, M
    <2>2. /\ More(M(ev, {"notready"}), M(all, {"notready"}))
          /\ More(M(ev, Pressures), M(all, Pressures))
          /\ More(M(ev, {"networkunavailable"}), M(all, {"networkunavailable"}))
      BY <1>0
    <2>3. Grown(<< <<M(all, {"notready"}), 45>>, <<M(all, Pressures), 10>>, <<M(all, {"networkunavailable"}), 5>> >>,
                << <<M(ev, {"notready"}), 45>>, <<M(ev, Pressures), 10>>, <<M(ev, {"networkunavailable"}), 5>> >>)
      BY <2>2, Grown3
    <2> QED BY <2>1, <2>3
  <1> HIDE DEF Gains
  <1>14. \A k \in 1..13 : Gains(Types[k])
    BY <1>1, <1>2, <1>3, <1>4, <1>5, <1>6, <1>7, <1>8, <1>9, <1>10, <1>11, <1>12, <1>13 DEF Types
  <1> QED BY <1>14 DEF Gains

LEMMA KeywordsIndexed ==
    ASSUME NEW p, NEW ev
    PROVE  DOMAIN KeywordScores(p, ev) = 1..13 /\ \A i \in 1..13 : IsAbout(KeywordScores(p, ev)[i], Types[i], p, ev)
  BY KeywordsAre

LEMMA ConfirmedGrows ==
    ASSUME NEW p, NEW ev, NEW all, Covers(all, ev)
    PROVE  Confirmed(KeywordScores(p, ev)) \subseteq Confirmed(KeywordScores(p, all))
  <1> DEFINE u == KeywordScores(p, ev)
             v == KeywordScores(p, all)
  <1>1. /\ DOMAIN u = 1..13 /\ \A i \in 1..13 : IsAbout(u[i], Types[i], p, ev)
        /\ DOMAIN v = 1..13 /\ \A i \in 1..13 : IsAbout(v[i], Types[i], p, all)
    BY KeywordsAre
  <1> HIDE DEF u, v
  <1>2. ASSUME NEW i \in 1..13, u[i].status = "confirmed"
        PROVE  v[i].status = "confirmed" /\ v[i].type = u[i].type
    <2>1. PICK m1 : u[i] = Hypothesis(Types[i], PartsOf(Types[i], p, ev), m1)
      BY <1>1 DEF IsAbout
    <2>2. PICK m2 : v[i] = Hypothesis(Types[i], PartsOf(Types[i], p, all), m2)
      BY <1>1 DEF IsAbout
    <2>3. Grown(PartsOf(Types[i], p, all), PartsOf(Types[i], p, ev))
      BY PartsGrow
    <2>4. v[i].status = "confirmed"
      BY <1>2, <2>1, <2>2, <2>3, StaysConfirmed
    <2>5. u[i].type = Types[i] /\ v[i].type = Types[i]
      BY <2>1, <2>2 DEF Hypothesis
    <2> QED BY <2>4, <2>5
  <1>3. Confirmed(u) \subseteq Confirmed(v)
    BY <1>1, <1>2 DEF Confirmed
  <1> QED BY <1>3 DEF u, v

-----------------------------------------------------------------------------
(* What was confirmed stands. *)

Rescored == \E ev \in SUBSET report.ev : scores = KeywordScores(context, ev)
StandInv ==
  ~scorer =>
    /\ stage \in {"observing", "analyzing", "analyzed"} => scores = KeywordScores(context, seen)
    /\ stage = "analyzed" => \A r \in seen : \E e \in report.ev : Ref(e) = Ref(r)
    /\ stage \in {"aligned", "remediated"} => Rescored

LEMMA StandInit == Init => StandInv
  BY DEF Init, StandInv

LEMMA StandStep == StandInv /\ NameInv /\ [Next]_vars => StandInv'
  <1> SUFFICES ASSUME StandInv, NameInv, [Next]_vars, ~scorer PROVE StandInv'
    BY ScorerStays DEF StandInv
  <1>1. CASE Change
    BY <1>1 DEF Change, StandInv
  <1>2. CASE Snapshot
    BY <1>2, NoScorer DEF Snapshot, StandInv
  <1>3. CASE Observe
    BY <1>3, NoScorer DEF Observe, StandInv
  <1>4. CASE StopObserving
    BY <1>4 DEF StopObserving, StandInv
  <1>5. CASE Analyze
    <2>1. PICK r \in Reports(context) : \E ev \in Merged(r.ev, seen) : report' = [r EXCEPT !.ev = ev]
      BY <1>5 DEF Analyze
    <2>2. PICK ev \in Merged(r.ev, seen) : report' = [r EXCEPT !.ev = ev]
      BY <2>1
    <2>3. report'.ev = ev
      BY <2>1, <2>2, ReportsAre, WithEvidence
    <2>4. \A x \in seen : \E e \in report'.ev : Ref(e) = Ref(x)
      BY <2>3, MergedGrows
    <2>5. stage = "analyzing" /\ stage' = "analyzed" /\ UNCHANGED <<context, seen, scores>>
      BY <1>5 DEF Analyze
    <2> QED BY <2>4, <2>5 DEF StandInv
  <1>6. CASE Legacy
    BY <1>6 DEF Legacy, StandInv
  <1>7. CASE Reconcile
    <2>1. PICK ev : /\ scores' = KeywordScores(context, ev)
                    /\ report' = Aligned([report EXCEPT !.ev = ev], scores')
      BY <1>7, NoScorer DEF Reconcile
    <2>2. stage = "analyzed" /\ stage' = "aligned" /\ context' = context
      BY <1>7 DEF Reconcile
    <2> DEFINE r == [report EXCEPT !.ev = ev]
    <2>3. DOMAIN r = ReportFields /\ r.ev = ev
      BY <2>2, WithEvidence DEF NameInv, Reported
    <2> HIDE DEF r
    <2>4. report'.ev = ev
      BY <2>1, <2>3, AlignedIs DEF r
    <2>5. Rescored'
      BY <2>1, <2>2, <2>4 DEF Rescored
    <2> QED BY <2>2, <2>5 DEF StandInv
  <1>8. CASE Remediate
    <2>1. stage = "aligned" /\ stage' = "remediated" /\ UNCHANGED <<context, scores>>
      BY <1>8 DEF Remediate
    <2>2. PICK ev : report.ev \subseteq ev /\ (report' = report \/ report' = [report EXCEPT !.ev = ev])
      BY <1>8 DEF Remediate
    <2>3. report.ev \subseteq report'.ev
      BY <2>1, <2>2, WithEvidence DEF NameInv, Reported
    <2>4. Rescored'
      BY <2>1, <2>3 DEF StandInv, Rescored
    <2> QED BY <2>1, <2>4 DEF StandInv
  <1>9. CASE Store
    BY <1>9 DEF Store, StandInv
  <1>10. CASE UNCHANGED vars
    BY <1>10 DEF vars, StandInv, Rescored
  <1> QED BY <1>1, <1>2, <1>3, <1>4, <1>5, <1>6, <1>7, <1>8, <1>9, <1>10 DEF Next

Stands == ~scorer => Confirmed(scores) \subseteq Confirmed(scores') \/ Collapsed

LEMMA ReconcileStands == StandInv /\ Reconcile => Stands
  <1> SUFFICES ASSUME StandInv, Reconcile, ~Collapsed, ~scorer
               PROVE  Confirmed(scores) \subseteq Confirmed(scores')
    BY DEF Stands
  <1>1. PICK ev : report.ev \subseteq ev /\ scores' = KeywordScores(context, ev)
    BY NoScorer DEF Reconcile
  <1>2. scores = KeywordScores(context, seen) /\ \A r \in seen : \E e \in report.ev : Ref(e) = Ref(r)
    BY DEF Reconcile, StandInv
  <1>3. ASSUME NEW r \in seen PROVE \E e \in ev : Ref(e) = Ref(r) /\ Words(r) \subseteq Words(e)
    <2>1. CASE r \in report.ev
      BY <1>1, <2>1
    <2>2. CASE r \notin report.ev
      <3>1. PICK e \in report.ev : Ref(e) = Ref(r)
        BY <1>2
      <3>2. Words(r) \subseteq Words(e)
        BY <2>2, <3>1 DEF Collapsed
      <3> QED BY <1>1, <3>1, <3>2
    <2> QED BY <2>1, <2>2
  <1> QED BY <1>1, <1>2, <1>3, ConfirmedGrows DEF Covers

LEMMA StoreStands == StandInv /\ Store => Stands
  <1> SUFFICES ASSUME StandInv, Store, ~scorer
               PROVE  Confirmed(scores) \subseteq Confirmed(scores')
    BY DEF Stands
  <1>1. PICK ev \in SUBSET report.ev : scores = KeywordScores(context, ev)
    BY DEF Store, StandInv, Rescored
  <1>2. scores' = KeywordScores(context, report.ev)
    BY NoScorer DEF Store, FinalScores
  <1>3. Covers(report.ev, ev)
    BY <1>1 DEF Covers
  <1> QED BY <1>1, <1>2, <1>3, ConfirmedGrows

(* Without a scorer, what was confirmed stands, for any pod, any first group of tools and   *)
(* any tools after it: the scores are those of the evidence collected so far (StandInv),    *)
(* the evidence of the report covers it unless two records of one name say different        *)
(* things, and more evidence adds to each of the thirteen sums of HypothesisEngine.Update.  *)
THEOREM ConfirmedStand == Spec => ConfirmedStands
  <1>1. StandInv /\ [Next]_vars => [(~scorer /\ stage \in {"analyzed", "remediated"}) =>
              Confirmed(scores) \subseteq Confirmed(scores') \/ Collapsed]_vars
    BY ReconcileStands, StoreStands
       DEF Stands, Next, Change, Become, Snapshot, Observe, StopObserving, Analyze, Legacy, Remediate
  <1>2. NameInv /\ [Next]_vars => NameInv'
    BY NameStep
  <1> QED BY <1>1, <1>2, NameInit, StandInit, StandStep, PTL DEF Spec, ConfirmedStands

-----------------------------------------------------------------------------
(* The confidences of the analyzers, and what is left beside the best. *)

LEMMA ConfidenceIs ==
    ASSUME NEW base \in Nat, NEW bonuses, IsParts(bonuses)
    PROVE  Confidence(base, bonuses) \in Nat
<1> DEFINE s == bonuses
           n == Len(s)
           S == Nat
           op(sum, b) == IF b[1] THEN sum + b[2] ELSE sum
           step == [p \in (1..n) \X S |-> op(p[2], s[p[1]])]
           Graph(g) == g = [x \in SUBSET (1..n) |-> IF x = {} THEN base
                                                   ELSE op(g[x \ {Max(x)}], s[Max(x)])]
           sum0 == FoldLeft(LAMBDA sum, b : IF b[1] THEN sum + b[2] ELSE sum, base, bonuses)
<1>0. n \in Nat /\ base \in S /\ DOMAIN s = 1..n /\ \A i \in 1..n : s[i][2] \in Nat
  BY DEF IsParts
<1>1. step \in [(1..n) \X S -> S]
  <2>1. ASSUME NEW k \in 1..n, NEW sum \in S PROVE op(sum, s[k]) \in S
    BY <1>0
  <2> HIDE DEF op
  <2> QED BY <2>1
<1>2. \E g : Graph(g)
  <2>1. PICK g : Folds(g, n, S, base, step)
    <3> HIDE DEF n, S, step
    <3> QED BY <1>0, <1>1, FoldGraph
  <2>2. g \in [SUBSET (1..n) -> S] /\ g[{}] = base
    BY <2>1 DEF Folds
  <2>3. ASSUME NEW x \in SUBSET (1..n), x # {}
        PROVE  g[x] = op(g[x \ {Max(x)}], s[Max(x)])
    <3>1. Max(x) \in 1..n /\ x \ {Max(x)} \in SUBSET (1..n)
      BY <1>0, <2>3, MaxIn
    <3>2. g[x] = step[<<Max(x), g[x \ {Max(x)}]>>]
      BY <2>1, <2>3 DEF Folds
    <3>3. g[x \ {Max(x)}] \in S
      BY <2>2, <3>1
    <3> HIDE DEF S, op
    <3> QED BY <3>1, <3>2, <3>3
  <2> HIDE DEF n, S, step, op
  <2> QED BY <2>2, <2>3
<1> DEFINE iter == CHOOSE g : Graph(g)
<1>3. Graph(iter)
  <2> HIDE DEF Graph
  <2> QED BY <1>2
<1>4. sum0 = iter[1..n]
  BY <1>0 DEF FoldLeft, MapThenFoldSet, iter
<1> HIDE DEF iter
<1>5. Steps(iter, n, S, base, step)
  <2>1. iter[{}] = base
    BY <1>3
  <2>2. ASSUME NEW x \in SUBSET (1..n), x # {}, iter[x \ {Max(x)}] \in S
        PROVE  iter[x] = step[<<Max(x), iter[x \ {Max(x)}]>>]
    <3>1. Max(x) \in 1..n
      BY <1>0, <2>2, MaxIn
    <3>2. iter[x] = op(iter[x \ {Max(x)}], s[Max(x)])
      <4> HIDE DEF n, S, op
      <4> QED BY <1>3, <2>2
    <3> HIDE DEF S, n, op
    <3> QED BY <2>2, <3>1, <3>2
  <2> HIDE DEF n, S, step
  <2> QED BY <2>1, <2>2 DEF Steps
<1>6. PICK f : Walks(f, iter, n, S, base, step)
  <2> HIDE DEF n, S, step
  <2> QED BY <1>0, <1>1, <1>5, Walked
<1>7. sum0 \in Nat
  <2> HIDE DEF n, sum0
  <2> QED BY <1>0, <1>4, <1>6 DEF Walks
<1>8. Min({100, sum0}) \in Nat
  <2> HIDE DEF sum0
  <2> QED BY <1>7, MinIs
<1> QED BY <1>8 DEF Confidence

LEMMA AppendRange ==
    ASSUME NEW T, NEW s \in Seq(T), NEW x \in T
    PROVE  Range(Append(s, x)) = Range(s) \cup {x}
  <1>1. Append(s, x) = s \o <<x>> /\ <<x>> \in Seq(T)
    OBVIOUS
  <1>2. Range(<<x>>) = {x}
    BY DEF Range
  <1>3. Range(s \o <<x>>) = Range(s) \cup Range(<<x>>)
    BY <1>1, ConcatRange
  <1> QED BY <1>1, <1>2, <1>3

LEMMA OthersAre ==
    ASSUME NEW T, NEW results \in Seq(T), NEW best
    PROVE  Others(results, best) \in Seq(T) /\ Range(Others(results, best)) = Range(results) \ {best}
<1> DEFINE s == results
           n == Len(s)
           S == Seq(T)
           op(others, r) == IF r = best THEN others ELSE Append(others, r)
           step == [p \in (1..n) \X S |-> op(p[2], s[p[1]])]
           Graph(g) == g = [x \in SUBSET (1..n) |-> IF x = {} THEN << >>
                                                   ELSE op(g[x \ {Max(x)}], s[Max(x)])]
<1>0. n \in Nat /\ << >> \in S /\ DOMAIN s = 1..n /\ \A i \in 1..n : s[i] \in T
  OBVIOUS
<1>1. step \in [(1..n) \X S -> S]
  <2>1. ASSUME NEW k \in 1..n, NEW others \in S PROVE op(others, s[k]) \in S
    BY <1>0
  <2> HIDE DEF S, op
  <2> QED BY <2>1
<1>2. \E g : Graph(g)
  <2>1. PICK g : Folds(g, n, S, << >>, step)
    <3> HIDE DEF n, S, step
    <3> QED BY <1>0, <1>1, FoldGraph
  <2>2. g \in [SUBSET (1..n) -> S] /\ g[{}] = << >>
    BY <2>1 DEF Folds
  <2>3. ASSUME NEW x \in SUBSET (1..n), x # {}
        PROVE  g[x] = op(g[x \ {Max(x)}], s[Max(x)])
    <3>1. Max(x) \in 1..n /\ x \ {Max(x)} \in SUBSET (1..n)
      BY <1>0, <2>3, MaxIn
    <3>2. g[x] = step[<<Max(x), g[x \ {Max(x)}]>>]
      BY <2>1, <2>3 DEF Folds
    <3>3. g[x \ {Max(x)}] \in S
      BY <2>2, <3>1
    <3> HIDE DEF S, op
    <3> QED BY <3>1, <3>2, <3>3
  <2> HIDE DEF n, S, step, op
  <2> QED BY <2>2, <2>3
<1> DEFINE iter == CHOOSE g : Graph(g)
<1>3. Graph(iter)
  <2> HIDE DEF Graph
  <2> QED BY <1>2
<1>4. Others(results, best) = iter[1..n]
  BY <1>0 DEF Others, FoldLeft, MapThenFoldSet, iter
<1> HIDE DEF iter
<1>5. Steps(iter, n, S, << >>, step)
  <2>1. iter[{}] = << >>
    BY <1>3
  <2>2. ASSUME NEW x \in SUBSET (1..n), x # {}, iter[x \ {Max(x)}] \in S
        PROVE  iter[x] = step[<<Max(x), iter[x \ {Max(x)}]>>]
    <3>1. Max(x) \in 1..n
      BY <1>0, <2>2, MaxIn
    <3>2. iter[x] = op(iter[x \ {Max(x)}], s[Max(x)])
      <4> HIDE DEF n, S, op
      <4> QED BY <1>3, <2>2
    <3> HIDE DEF S, n, op
    <3> QED BY <2>2, <3>1, <3>2
  <2> HIDE DEF n, S, step
  <2> QED BY <2>1, <2>2 DEF Steps
<1>6. PICK f : Walks(f, iter, n, S, << >>, step)
  <2> HIDE DEF n, S, step
  <2> QED BY <1>0, <1>1, <1>5, Walked
<1>7. ASSUME NEW k \in 0..(n - 1) PROVE f[k + 1] = op(f[k], s[k + 1]) /\ f[k] \in S
  <2>1. f[k + 1] = step[<<k + 1, f[k]>>] /\ f \in [0..n -> S]
    <3> HIDE DEF step, S, n
    <3> QED BY <1>6 DEF Walks
  <2>2. k \in 0..n /\ k + 1 \in 1..n
    <3> HIDE DEF n
    <3> QED BY <1>0
  <2> HIDE DEF op, S, n
  <2>3. f[k] \in S
    BY <2>1, <2>2
  <2> QED BY <2>1, <2>2, <2>3
<1>8. f \in [0..n -> S] /\ f[0] = << >> /\ f[n] = Others(results, best)
  BY <1>4, <1>6 DEF Walks
<1> HIDE DEF n
<1> DEFINE U == {k \in Nat : k <= n => Range(f[k]) = {s[i] : i \in 1..k} \ {best}}
<1>9. 0 \in U
  <2>1. Range(<< >>) = {} /\ 1..0 = {}
    BY DEF Range
  <2> QED BY <1>8, <2>1
<1>10. ASSUME NEW k \in Nat, k \in U PROVE k + 1 \in U
  <2> SUFFICES ASSUME k + 1 <= n PROVE Range(f[k + 1]) = {s[i] : i \in 1..(k + 1)} \ {best}
    OBVIOUS
  <2>1. k \in 0..(n - 1) /\ k <= n /\ k + 1 \in 1..n
    BY <1>0
  <2>2. f[k + 1] = op(f[k], s[k + 1]) /\ f[k] \in Seq(T) /\ Range(f[k]) = {s[i] : i \in 1..k} \ {best}
    BY <1>7, <1>10, <2>1
  <2>3. 1..(k + 1) = (1..k) \cup {k + 1}
    OBVIOUS
  <2>4. s[k + 1] \in T
    BY <1>0, <2>1
  <2>5. Range(Append(f[k], s[k + 1])) = Range(f[k]) \cup {s[k + 1]}
    BY <2>2, <2>4, AppendRange
  <2> QED BY <2>2, <2>3, <2>5
<1>11. Nat \subseteq U
  <2> HIDE DEF U
  <2> QED BY <1>9, <1>10, Induction
<1>12. Range(f[n]) = {s[i] : i \in 1..n} \ {best} /\ f[n] \in S
  <2>1. n \in U /\ n \in 0..n
    <3> HIDE DEF U
    <3> QED BY <1>0, <1>11
  <2>2. f[n] \in S
    <3> HIDE DEF S
    <3> QED BY <1>8, <2>1
  <2> QED BY <2>1, <2>2
<1>13. Range(results) = {s[i] : i \in 1..n}
  BY <1>0 DEF Range
<1> QED BY <1>8, <1>12, <1>13

(* The analyzers run in the order of the registry. *)
Place(fault) ==
    CASE fault = "OOMKilled" -> 1 [] fault = "CrashLoopBackOff" -> 2 [] fault = "ImagePullBackOff" -> 3
      [] fault = "InitError" -> 4 [] fault = "Evicted" -> 5 [] fault = "PodPending" -> 6
      [] fault = "ProbeFailed" -> 7 [] fault = "NodeNotReady" -> 8
Ordered(s, lo, hi) ==
    /\ \A i \in 1..Len(s) : Place(s[i].fault) \in (lo + 1)..hi
    /\ \A i, j \in 1..Len(s) : i < j => Place(s[i].fault) < Place(s[j].fault)

LEMMA OrderedConcat ==
    ASSUME NEW S, NEW s \in Seq(S), NEW t \in Seq(S), NEW lo \in Nat, NEW m \in Nat, NEW hi \in Nat,
           lo <= m, m <= hi, Ordered(s, lo, m), Ordered(t, m, hi)
    PROVE  Ordered(s \o t, lo, hi)
  <1> DEFINE a == Len(s)
             b == Len(t)
             u == s \o t
  <1>1. /\ a \in Nat /\ b \in Nat /\ Len(u) = a + b
        /\ \A i \in 1..a : u[i] = s[i]
        /\ \A i \in 1..b : u[a + i] = t[i]
    OBVIOUS
  <1>2. ASSUME NEW i \in 1..Len(u), i > a PROVE i - a \in 1..b /\ u[i] = t[i - a]
    <2>1. i - a \in 1..b /\ i = a + (i - a)
      BY <1>1, <1>2
    <2> HIDE DEF u, a, b
    <2> QED BY <1>1, <2>1
  <1> HIDE DEF u
  <1>3. ASSUME NEW i \in 1..Len(u)
        PROVE  /\ i <= a => i \in 1..a /\ u[i] = s[i] /\ Place(u[i].fault) \in (lo + 1)..m
               /\ i > a => i - a \in 1..b /\ u[i] = t[i - a] /\ Place(u[i].fault) \in (m + 1)..hi
    BY <1>1, <1>2 DEF Ordered
  <1>4. ASSUME NEW i \in 1..Len(u), NEW j \in 1..Len(u), i < j
        PROVE  Place(u[i].fault) < Place(u[j].fault)
    <2>1. CASE j <= a
      <3>1. i \in 1..a /\ j \in 1..a /\ u[i] = s[i] /\ u[j] = s[j]
        BY <1>1, <1>3, <1>4, <2>1
      <3> QED BY <1>4, <3>1 DEF Ordered
    <2>2. CASE i <= a /\ j > a
      <3>1. Place(u[i].fault) \in (lo + 1)..m /\ Place(u[j].fault) \in (m + 1)..hi
        BY <1>3, <2>2
      <3> QED BY <3>1
    <2>3. CASE i > a
      <3>1. /\ i - a \in 1..b /\ j - a \in 1..b /\ i - a < j - a
            /\ u[i] = t[i - a] /\ u[j] = t[j - a]
        BY <1>1, <1>3, <1>4, <2>3
      <3> QED BY <3>1 DEF Ordered
    <2> QED BY <1>1, <2>1, <2>2, <2>3
  <1>5. ASSUME NEW i \in 1..Len(u) PROVE Place(u[i].fault) \in (lo + 1)..hi
    BY <1>1, <1>3
  <1>6. Ordered(u, lo, hi)
    BY <1>4, <1>5 DEF Ordered
  <1> QED BY <1>6 DEF u

LEMMA OrderedOptional ==
    ASSUME NEW r, NEW b, NEW lo \in Nat, Place(r.fault) = lo + 1
    PROVE  Ordered(Optional(b, r), lo, lo + 1)
  <1>1. CASE b
    <2>1. Optional(b, r) = <<r>>
      BY <1>1 DEF Optional
    <2> QED BY <2>1 DEF Ordered
  <1>2. CASE ~b
    <2>1. Optional(b, r) = << >>
      BY <1>2 DEF Optional
    <2> QED BY <2>1 DEF Ordered
  <1> QED BY <1>1, <1>2

(* One analyzer more. *)
LEMMA OrderedMore ==
    ASSUME NEW S, NEW s \in Seq(S), NEW r \in S, NEW b, NEW k \in Nat, NEW m, m = k + 1,
           Ordered(s, 0, k), Place(r.fault) = m
    PROVE  LET t == s \o Optional(b, r) IN t \in Seq(S) /\ Ordered(t, 0, m)
  <1> DEFINE o == Optional(b, r)
  <1>1. o \in Seq(S) /\ Ordered(o, k, m)
    BY OptionalIs, OrderedOptional
  <1> HIDE DEF o
  <1>2. s \o o \in Seq(S)
    BY <1>1
  <1>3. Ordered(s \o o, 0, m)
    BY <1>1, OrderedConcat
  <1> QED BY <1>2, <1>3 DEF o

LEMMA PlaceOf ==
    ASSUME NEW r
    PROVE  /\ r.fault = "OOMKilled" => Place(r.fault) = 1
           /\ r.fault = "CrashLoopBackOff" => Place(r.fault) = 2
           /\ r.fault = "ImagePullBackOff" => Place(r.fault) = 3
           /\ r.fault = "InitError" => Place(r.fault) = 4
           /\ r.fault = "Evicted" => Place(r.fault) = 5
           /\ r.fault = "PodPending" => Place(r.fault) = 6
           /\ r.fault = "ProbeFailed" => Place(r.fault) = 7
           /\ r.fault = "NodeNotReady" => Place(r.fault) = 8
  <1>1. r.fault = "OOMKilled" => Place(r.fault) = 1
    BY DEF Place
  <1>2. r.fault = "CrashLoopBackOff" => Place(r.fault) = 2
    BY DEF Place
  <1>3. r.fault = "ImagePullBackOff" => Place(r.fault) = 3
    BY DEF Place
  <1>4. r.fault = "InitError" => Place(r.fault) = 4
    BY DEF Place
  <1>5. r.fault = "Evicted" => Place(r.fault) = 5
    BY DEF Place
  <1>6. r.fault = "PodPending" => Place(r.fault) = 6
    BY DEF Place
  <1>7. r.fault = "ProbeFailed" => Place(r.fault) = 7
    BY DEF Place
  <1>8. r.fault = "NodeNotReady" => Place(r.fault) = 8
    BY DEF Place
  <1> QED BY <1>1, <1>2, <1>3, <1>4, <1>5, <1>6, <1>7, <1>8

LEMMA Placed ==
    ASSUME NEW p
    PROVE  /\ Place(AnalyzeOOM(p).fault) = 1
           /\ Place(AnalyzeCrashLoop(p).fault) = 2
           /\ Place(AnalyzeImagePull(p).fault) = 3
           /\ Place(AnalyzeInit(p).fault) = 4
           /\ Place(AnalyzeEvicted(p).fault) = 5
           /\ Place(AnalyzePending(p).fault) = 6
           /\ Place(AnalyzeProbe(p).fault) = 7
           /\ Place(AnalyzeNodeNotReady(p).fault) = 8
  <1>1. Place(AnalyzeOOM(p).fault) = 1
    <2>1. AnalyzeOOM(p).fault = "OOMKilled"
      BY AnalyzersAre
    <2> QED BY <2>1, PlaceOf
  <1>2. Place(AnalyzeCrashLoop(p).fault) = 2
    <2>1. AnalyzeCrashLoop(p).fault = "CrashLoopBackOff"
      BY AnalyzersAre
    <2> QED BY <2>1, PlaceOf
  <1>3. Place(AnalyzeImagePull(p).fault) = 3
    <2>1. AnalyzeImagePull(p).fault = "ImagePullBackOff"
      BY AnalyzersAre
    <2> QED BY <2>1, PlaceOf
  <1>4. Place(AnalyzeInit(p).fault) = 4
    <2>1. AnalyzeInit(p).fault = "InitError"
      BY AnalyzersAre
    <2> QED BY <2>1, PlaceOf
  <1>5. Place(AnalyzeEvicted(p).fault) = 5
    <2>1. AnalyzeEvicted(p).fault = "Evicted"
      BY AnalyzersAre
    <2> QED BY <2>1, PlaceOf
  <1>6. Place(AnalyzePending(p).fault) = 6
    <2>1. AnalyzePending(p).fault = "PodPending"
      BY AnalyzersAre
    <2> QED BY <2>1, PlaceOf
  <1>7. Place(AnalyzeProbe(p).fault) = 7
    <2>1. AnalyzeProbe(p).fault = "ProbeFailed"
      BY AnalyzersAre
    <2> QED BY <2>1, PlaceOf
  <1>8. Place(AnalyzeNodeNotReady(p).fault) = 8
    <2>1. AnalyzeNodeNotReady(p).fault = "NodeNotReady"
      BY AnalyzersAre
    <2> QED BY <2>1, PlaceOf
  <1> QED BY <1>1, <1>2, <1>3, <1>4, <1>5, <1>6, <1>7, <1>8

LEMMA ResultsOrdered ==
    ASSUME NEW p
    PROVE  Ordered(Results(p), 0, 8)
  <1> DEFINE S == Candidates(p)
             a == << >> \o Optional(MatchOOM(p), AnalyzeOOM(p))
             b == a \o Optional(MatchCrashLoop(p), AnalyzeCrashLoop(p))
             c == b \o Optional(MatchImagePull(p), AnalyzeImagePull(p))
             d == c \o Optional(MatchInit(p), AnalyzeInit(p))
             e == d \o Optional(MatchEvicted(p), AnalyzeEvicted(p))
             f == e \o Optional(MatchPending(p), AnalyzePending(p))
             g == f \o Optional(MatchProbe(p), AnalyzeProbe(p))
             h == g \o Optional(MatchNodeNotReady(p), AnalyzeNodeNotReady(p))
  <1>1. Results(p) = h
    <2>1. a = Optional(MatchOOM(p), AnalyzeOOM(p))
      BY DEF Optional
    <2> HIDE DEF a
    <2> QED BY <2>1 DEF Results, Optional
  <1>2. /\ AnalyzeOOM(p) \in S /\ AnalyzeCrashLoop(p) \in S /\ AnalyzeImagePull(p) \in S /\ AnalyzeInit(p) \in S
        /\ AnalyzeEvicted(p) \in S /\ AnalyzePending(p) \in S /\ AnalyzeProbe(p) \in S /\ AnalyzeNodeNotReady(p) \in S
    BY DEF Candidates
  <1> HIDE DEF S
  <1>3. << >> \in Seq(S) /\ Ordered(<< >>, 0, 0)
    BY DEF Ordered
  <1>4. a \in Seq(S) /\ Ordered(a, 0, 1)
    <2>1. Place(AnalyzeOOM(p).fault) = 1
      BY Placed
    <2>2. 0 \in Nat /\ 1 = 0 + 1
      OBVIOUS
    <2> QED BY <1>2, <2>1, <2>2, <1>3, OrderedMore
  <1> HIDE DEF a
  <1>5. b \in Seq(S) /\ Ordered(b, 0, 2)
    <2>1. Place(AnalyzeCrashLoop(p).fault) = 2
      BY Placed
    <2>2. 1 \in Nat /\ 2 = 1 + 1
      OBVIOUS
    <2> QED BY <1>2, <2>1, <2>2, <1>4, OrderedMore
  <1> HIDE DEF b
  <1>6. c \in Seq(S) /\ Ordered(c, 0, 3)
    <2>1. Place(AnalyzeImagePull(p).fault) = 3
      BY Placed
    <2>2. 2 \in Nat /\ 3 = 2 + 1
      OBVIOUS
    <2> QED BY <1>2, <2>1, <2>2, <1>5, OrderedMore
  <1> HIDE DEF c
  <1>7. d \in Seq(S) /\ Ordered(d, 0, 4)
    <2>1. Place(AnalyzeInit(p).fault) = 4
      BY Placed
    <2>2. 3 \in Nat /\ 4 = 3 + 1
      OBVIOUS
    <2> QED BY <1>2, <2>1, <2>2, <1>6, OrderedMore
  <1> HIDE DEF d
  <1>8. e \in Seq(S) /\ Ordered(e, 0, 5)
    <2>1. Place(AnalyzeEvicted(p).fault) = 5
      BY Placed
    <2>2. 4 \in Nat /\ 5 = 4 + 1
      OBVIOUS
    <2> QED BY <1>2, <2>1, <2>2, <1>7, OrderedMore
  <1> HIDE DEF e
  <1>9. f \in Seq(S) /\ Ordered(f, 0, 6)
    <2>1. Place(AnalyzePending(p).fault) = 6
      BY Placed
    <2>2. 5 \in Nat /\ 6 = 5 + 1
      OBVIOUS
    <2> QED BY <1>2, <2>1, <2>2, <1>8, OrderedMore
  <1> HIDE DEF f
  <1>10. g \in Seq(S) /\ Ordered(g, 0, 7)
    <2>1. Place(AnalyzeProbe(p).fault) = 7
      BY Placed
    <2>2. 6 \in Nat /\ 7 = 6 + 1
      OBVIOUS
    <2> QED BY <1>2, <2>1, <2>2, <1>9, OrderedMore
  <1> HIDE DEF g
  <1>11. h \in Seq(S) /\ Ordered(h, 0, 8)
    <2>1. Place(AnalyzeNodeNotReady(p).fault) = 8
      BY Placed
    <2>2. 7 \in Nat /\ 8 = 7 + 1
      OBVIOUS
    <2> QED BY <1>2, <2>1, <2>2, <1>10, OrderedMore
  <1> HIDE DEF h
  <1> QED BY <1>1, <1>11

LEMMA ConfidencesAre ==
    ASSUME NEW p
    PROVE  /\ AnalyzeOOM(p).conf \in Nat /\ AnalyzeCrashLoop(p).conf \in Nat /\ AnalyzeImagePull(p).conf \in Nat
           /\ AnalyzeInit(p).conf \in Nat /\ AnalyzeEvicted(p).conf \in Nat
  <1>1. AnalyzeOOM(p).conf \in Nat
    <2> DEFINE ev == OOMEvidence(p)
               c1 == OOMTerminations(p) # {}
               c2 == HasKeyLog(ev)
               c3 == Titled(ev, "prometheus", "limit")
               c4 == PatternOf(p) # "not measured" /\ SustainedNear(
                         Curves[p.memory].pre \o Curves[p.memory].post)
               c5 == PatternOf(p) \in {"memory_leak", "limit_too_low"}
               c6 == p.trend = "memory growth"
               c7 == p.trend = "memory spike"
               c8 == p.guaranteed
               c9 == RestartTotal(p) > 3
               bonuses == << <<c1, 10>>, <<c2, 3>>, <<c3, 5>>, <<c4, 3>>, <<c5, 6>>, <<c6, 8>>, <<c7, 4>>,
                             <<c8, 3>>, <<c9, 3>> >>
    <2>1. AnalyzeOOM(p).conf = Confidence(72, bonuses)
      BY ZenonT(20) DEF AnalyzeOOM, Result
    <2> HIDE DEF c1, c2, c3, c4, c5, c6, c7, c8, c9
    <2>3. IsParts(bonuses)
      BY DEF IsParts
    <2> HIDE DEF bonuses
    <2> QED BY <2>1, <2>3, ConfidenceIs
  <1>2. AnalyzeCrashLoop(p).conf \in Nat
    <2> DEFINE ev == CrashEvidence(p)
               c1 == Titled(ev, "k8s_pod_status", "restart")
               c2 == HasKeyLog(ev)
               c3 == \E s \in Containers(p) : s.place = "last"
               c4 == p.trend = "restart growth"
               c5 == TRUE
               c6 == \E s \in Containers(p) : s.restarts > 5
               w == IF Says(ev, {"exitcode=137"}) THEN 5
                    ELSE IF Says(ev, {"exitcode=143"}) THEN 3
                    ELSE IF Says(ev, {"exitcode=1", "exitcode=2"}) THEN 4 ELSE 0
               base == IF \E s \in Containers(p) : OOMLike(s) THEN 90 ELSE 75
               bonuses == << <<c1, 4>>, <<c2, 3>>, <<c3, 2>>, <<c4, 5>>, <<c5, w>>, <<c6, 3>> >>
    <2>1. AnalyzeCrashLoop(p).conf = Confidence(base, bonuses)
      BY ZenonT(20) DEF AnalyzeCrashLoop, Result
    <2>2. w \in Nat /\ base \in Nat
      OBVIOUS
    <2> HIDE DEF c1, c2, c3, c4, c5, c6, w, base
    <2>3. IsParts(bonuses)
      BY <2>2 DEF IsParts
    <2> HIDE DEF bonuses
    <2> QED BY <2>1, <2>2, <2>3, ConfidenceIs
  <1>3. AnalyzeImagePull(p).conf \in Nat
    <2>1. \E c1, c2, c3, c4, c5 : AnalyzeImagePull(p).conf =
              Confidence(70, << <<c1, 10>>, <<c2, 3>>, <<c3, 6>>, <<c4, 5>>, <<c5, 3>> >>)
      BY ZenonT(20) DEF AnalyzeImagePull, Result
    <2>2. PICK c1, c2, c3, c4, c5 : AnalyzeImagePull(p).conf =
              Confidence(70, << <<c1, 10>>, <<c2, 3>>, <<c3, 6>>, <<c4, 5>>, <<c5, 3>> >>)
      BY <2>1
    <2>3. IsParts(<< <<c1, 10>>, <<c2, 3>>, <<c3, 6>>, <<c4, 5>>, <<c5, 3>> >>)
      BY DEF IsParts
    <2> QED BY <2>2, <2>3, ConfidenceIs
  <1>4. AnalyzeInit(p).conf \in Nat
    <2>1. \E c1, c2, c3, c4, c5, c6 : AnalyzeInit(p).conf =
              Confidence(72, << <<c1, 10>>, <<c2, 5>>, <<c3, 4>>, <<c4, 3>>, <<c5, 4>>, <<c6, 3>> >>)
      BY ZenonT(20) DEF AnalyzeInit, Result
    <2>2. PICK c1, c2, c3, c4, c5, c6 : AnalyzeInit(p).conf =
              Confidence(72, << <<c1, 10>>, <<c2, 5>>, <<c3, 4>>, <<c4, 3>>, <<c5, 4>>, <<c6, 3>> >>)
      BY <2>1
    <2>3. IsParts(<< <<c1, 10>>, <<c2, 5>>, <<c3, 4>>, <<c4, 3>>, <<c5, 4>>, <<c6, 3>> >>)
      BY DEF IsParts
    <2> QED BY <2>2, <2>3, ConfidenceIs
  <1>5. AnalyzeEvicted(p).conf \in Nat
    <2> DEFINE ev == {Record("k8s_pod_status", "EvictionStatus",
                             IF p.app = "evicted" THEN {"evict"} ELSE {}, "critical"),
                      Record("k8s_pod_status", "Limits", {"limit"}, "info"),
                      Record("k8s_pod_status", "EvictionQoS",
                             IF p.guaranteed THEN {"guaranteed"} ELSE {}, "info")}
                     \cup EventRecords({e \in Events(p) : "evict" \in Text(e)}, "critical")
                     \cup (IF HasNode(p)
                           THEN {Record("k8s_topology", "EvictionNode", Conditions(p), "warning")} ELSE {})
               c1 == From(ev, "k8s_event")
               c2 == HasNode(p)
               c3 == Says(ev, {"diskpressure"})
               c4 == Says(ev, {"memorypressure named"})
               c5 == Says(ev, {"pidpressure"})
               c6 == p.guaranteed
               c7 == Says(ev, {"ephemeral"})
               bonuses == << <<c1, 8>>, <<c2, 6>>, <<c3, 4>>, <<c4, 3>>, <<c5, 3>>, <<c6, 3>>, <<c7, 3>> >>
    <2>1. AnalyzeEvicted(p).conf = Confidence(74, bonuses)
      BY ZenonT(20) DEF AnalyzeEvicted, Result
    <2> HIDE DEF c1, c2, c3, c4, c5, c6, c7
    <2>3. IsParts(bonuses)
      BY DEF IsParts
    <2> HIDE DEF bonuses
    <2> QED BY <2>1, <2>3, ConfidenceIs
  <1> QED BY <1>1, <1>2, <1>3, <1>4, <1>5

(* The evidence of a termination by memory makes the result a strong one. *)
LEMMA OOMIsStrong ==
    ASSUME NEW p, OOMTerminations(p) # {}
    PROVE  StrongOOM(AnalyzeOOM(p))
  <1>1. PICK s \in OOMTerminations(p) : TRUE
    OBVIOUS
  <1>2. s.why = "OOMKilled" \/ s.code = 137
    BY <1>1 DEF OOMTerminations
  <1> DEFINE says == ExitWords(s.code) \cup (IF s.why = "OOMKilled" THEN {"reason=oomkilled"} ELSE {})
             e == Record("k8s_pod_status", "OOMTermination", says, "critical")
  <1>3. AnalyzeOOM(p).ev = OOMEvidence(p) /\ AnalyzeOOM(p).fault = "OOMKilled"
    BY ZenonT(20) DEF AnalyzeOOM, Result
  <1>4. e \in OOMEvidence(p)
    <2>1. \E a, b, c, d, x : OOMEvidence(p) = a \cup {Record("k8s_pod_status", "OOMTermination",
                 ExitWords(t.code) \cup (IF t.why = "OOMKilled" THEN {"reason=oomkilled"} ELSE {}),
                 "critical") : t \in OOMTerminations(p)} \cup b \cup c \cup d \cup x
      BY ZenonT(40) DEF OOMEvidence
    <2> QED BY <1>1, <2>1
  <1>5. says \cap {"reason=oomkilled", "exitcode=137"} # {}
    <2>1. CASE s.why = "OOMKilled"
      BY <2>1
    <2>2. CASE s.code = 137
      <3>1. "exitcode=137" \in ExitWords(s.code)
        BY <2>2 DEF ExitWords
      <3> QED BY <3>1
    <2> QED BY <1>2, <2>1, <2>2
  <1>6. e.src = "k8s_pod_status" /\ e.title = "OOMTermination" /\ e.says = says
    BY DEF Record
  <1> HIDE DEF e, says
  <1> QED BY <1>3, <1>4, <1>5, <1>6 DEF StrongOOM

(* The results that may lie between an OOM kill and a scheduling event in the scan. *)
Between == {"CrashLoopBackOff", "ImagePullBackOff", "InitError", "Evicted"}

LEMMA FoundFaults ==
    ASSUME NEW p, NEW r \in Found(p)
    PROVE  /\ r.fault = "OOMKilled" => r = AnalyzeOOM(p)
           /\ r.fault \in Between \cup {"OOMKilled"} => r.conf \in Nat
           /\ r.fault \in Between \cup {"OOMKilled", "PodPending", "ProbeFailed", "NodeNotReady"}
  <1>1. \/ r = AnalyzeOOM(p) \/ r = AnalyzeCrashLoop(p) \/ r = AnalyzeImagePull(p)
        \/ r = AnalyzeInit(p) \/ r = AnalyzeEvicted(p) \/ r = AnalyzePending(p)
        \/ r = AnalyzeProbe(p) \/ r = AnalyzeNodeNotReady(p)
    BY FoundIs DEF Candidates
  <1>2. CASE r = AnalyzeOOM(p)
    BY <1>2, AnalyzersAre, ConfidencesAre
  <1>3. CASE r \in {AnalyzeCrashLoop(p), AnalyzeImagePull(p), AnalyzeInit(p), AnalyzeEvicted(p)}
    <2>1. r.fault \in Between /\ r.conf \in Nat
      BY <1>3, AnalyzersAre, ConfidencesAre DEF Between
    <2>2. "OOMKilled" \notin Between
      BY DEF Between
    <2> QED BY <2>1, <2>2
  <1>4. CASE r \in {AnalyzePending(p), AnalyzeProbe(p), AnalyzeNodeNotReady(p)}
    <2>1. r.fault \in {"PodPending", "ProbeFailed", "NodeNotReady"}
      BY <1>4, AnalyzersAre
    <2> QED BY <2>1 DEF Between
  <1> QED BY <1>1, <1>2, <1>3, <1>4

(* One comparison of the scan, with an OOM kill that nothing between outweighs. *)
LEMMA ScanStep ==
    ASSUME NEW o, StrongOOM(o), o.conf \in Nat, NEW r, NEW b,
           r.fault \in Between => r.conf \in Nat /\ r.conf < o.conf,
           r.fault \in Between \cup {"PodPending", "ProbeFailed", "NodeNotReady"},
           b = o \/ (b.fault \in {"ProbeFailed", "NodeNotReady"} /\ r.fault = "NodeNotReady")
    PROVE  \A x \in Preferred(r, b) : x = o \/ (x = r /\ r.fault \in {"ProbeFailed", "NodeNotReady"})
                                            \/ (x = b /\ r.fault = "NodeNotReady")
  <1>1. o.fault = "OOMKilled" /\ ~StrongOOM(r)
    BY DEF StrongOOM, Between
  <1>2. CASE b = o /\ r.fault \in Between
    <2>1. Preferred(r, b) = {o}
      BY <1>1, <1>2 DEF Preferred, Between
    <2> QED BY <2>1
  <1>3. CASE b = o /\ r.fault = "PodPending"
    <2>1. Preferred(r, b) = {o}
      BY <1>1, <1>3 DEF Preferred
    <2> QED BY <2>1
  <1>4. CASE r.fault \in {"ProbeFailed", "NodeNotReady"}
    <2>1. Preferred(r, b) \subseteq {r, b}
      BY DEF Preferred
    <2> QED BY <1>4, <2>1
  <1> QED BY <1>2, <1>3, <1>4

LEMMA OOMIsFirst ==
    ASSUME NEW p, AnalyzeOOM(p) \in Found(p)
    PROVE  /\ Results(p) # << >> /\ Results(p)[1] = AnalyzeOOM(p)
           /\ \A i \in 2..Len(Results(p)) : /\ Results(p)[i] \in Found(p)
                                            /\ Results(p)[i].fault # "OOMKilled"
  <1> DEFINE s == Results(p)
  <1>1. s \in Seq(Candidates(p)) /\ Range(s) = Found(p) /\ Ordered(s, 0, 8)
    BY ResultsAre, ResultsOrdered
  <1>2. Place(AnalyzeOOM(p).fault) = 1
    BY Placed
  <1> HIDE DEF s, Candidates
  <1>3. DOMAIN s = 1..Len(s) /\ Len(s) \in Nat
    BY <1>1
  <1>4. PICK i \in 1..Len(s) : s[i] = AnalyzeOOM(p)
    BY <1>1, <1>3 DEF Range
  <1>5. i = 1
    <2> SUFFICES ASSUME i # 1 PROVE FALSE
      OBVIOUS
    <2>1. 1 \in 1..Len(s) /\ 1 < i
      BY <1>3
    <2>2. Place(s[1].fault) < Place(s[i].fault) /\ Place(s[1].fault) \in 1..8
      BY <1>1, <2>1 DEF Ordered
    <2> QED BY <1>2, <1>4, <2>2
  <1>6. ASSUME NEW j \in 2..Len(s) PROVE s[j] \in Found(p) /\ s[j].fault # "OOMKilled"
    <2>1. j \in 1..Len(s) /\ i < j
      BY <1>3, <1>5
    <2>2. s[j] \in Found(p)
      BY <1>1, <1>3, <2>1 DEF Range
    <2>3. Place(s[i].fault) < Place(s[j].fault)
      BY <1>1, <2>1 DEF Ordered
    <2>4. s[j].fault = "OOMKilled" => Place(s[j].fault) = 1
      BY PlaceOf
    <2> QED BY <1>2, <1>4, <2>2, <2>3, <2>4
  <1>7. s # << >>
    BY <1>3, <1>4
  <1> QED BY <1>4, <1>5, <1>6, <1>7 DEF s

(* Probe and node are last. *)
LEMMA LateAre ==
    ASSUME NEW p, NEW k \in 1..(Len(Results(p)) - 1), Results(p)[k].fault \in {"ProbeFailed", "NodeNotReady"}
    PROVE  Results(p)[k + 1].fault = "NodeNotReady"
  <1> DEFINE s == Results(p)
  <1>1. s \in Seq(Candidates(p)) /\ Ordered(s, 0, 8) /\ Range(s) = Found(p)
    BY ResultsAre, ResultsOrdered
  <1>2. Place(s[k].fault) \in {7, 8}
    BY PlaceOf
  <1> HIDE DEF s, Candidates
  <1>3. DOMAIN s = 1..Len(s) /\ Len(s) \in Nat
    BY <1>1
  <1>a. k \in 1..(Len(s) - 1)
    BY DEF s
  <1>b. k \in 1..Len(s) /\ k + 1 \in 1..Len(s) /\ k < k + 1
    BY <1>3, <1>a
  <1>4. Place(s[k + 1].fault) = 8
    <2>1. Place(s[k].fault) < Place(s[k + 1].fault) /\ Place(s[k + 1].fault) \in 1..8
      BY <1>1, <1>b DEF Ordered
    <2> QED BY <1>2, <2>1
  <1>5. s[k + 1] \in Found(p)
    BY <1>1, <1>3, <1>b DEF Range
  <1>6. s[k + 1].fault \in Between \cup {"OOMKilled", "PodPending", "ProbeFailed", "NodeNotReady"}
    BY <1>5, FoundFaults
  <1>7. s[k + 1].fault = "NodeNotReady"
    <2>1. s[k + 1].fault \notin {"OOMKilled", "CrashLoopBackOff", "ImagePullBackOff", "InitError", "Evicted",
                                 "PodPending", "ProbeFailed"}
      BY <1>4, PlaceOf
    <2> QED BY <1>6, <2>1 DEF Between
  <1> QED BY <1>7 DEF s

(* With no such result between, the scan keeps the OOM kill or ends at a probe or a node.   *)
LEMMA BestIsNotPending ==
    ASSUME NEW p, OOMTerminations(p) # {}, AnalyzeOOM(p) \in Found(p),
           \A x \in Found(p) : x.fault \in Between => x.conf < AnalyzeOOM(p).conf,
           NEW best \in Bests(Results(p))
    PROVE  best.fault # "PodPending"
  <1> DEFINE o == AnalyzeOOM(p)
             s == Results(p)
             n == Len(Tail(s))
             Late(r) == r.fault \in {"ProbeFailed", "NodeNotReady"}
  <1>1. s \in Seq(Candidates(p)) /\ s # << >>
    BY ResultsAre, OOMIsFirst
  <1>2. PICK f : Scan(f, s)
    BY <1>1, BestsScan
  <1>3. StrongOOM(o) /\ o.conf \in Nat /\ o.fault = "OOMKilled"
    BY OOMIsStrong, ConfidencesAre, AnalyzersAre
  <1>4. /\ s[1] = o
        /\ \A i \in 2..Len(s) : s[i] \in Found(p) /\ s[i].fault # "OOMKilled"
    BY OOMIsFirst
  <1>a. \A i \in 2..Len(s) : /\ s[i].fault \in Between => s[i].conf \in Nat /\ s[i].conf < o.conf
                             /\ s[i].fault \in Between \cup {"PodPending", "ProbeFailed", "NodeNotReady"}
    BY <1>4, FoundFaults
  <1>5. \A i \in 1..(Len(s) - 1) : Late(s[i]) => s[i + 1].fault = "NodeNotReady"
    BY LateAre
  <1> HIDE DEF s, o, Candidates
  <1>6. n \in Nat /\ Len(s) = n + 1 /\ \A i \in 1..n : Tail(s)[i] = s[i + 1]
    BY <1>1
  <1> HIDE DEF n
  <1>7. /\ f[0] = {s[1]} /\ f[n] = Bests(s)
        /\ \A k \in 0..(n - 1) : f[k + 1] = UNION {Preferred(Tail(s)[k + 1], b) : b \in f[k]}
    BY <1>2 DEF Scan, n
  <1> DEFINE U == {k \in Nat : k <= n => \A b \in f[k] : b = o \/ (Late(b) /\ Late(s[k + 1]))}
  <1>8. 0 \in U
    BY <1>4, <1>7
  <1>9. ASSUME NEW k \in Nat, k \in U PROVE k + 1 \in U
    <2> SUFFICES ASSUME k + 1 <= n, NEW x \in f[k + 1]
                 PROVE  x = o \/ (Late(x) /\ Late(s[k + 2]))
      OBVIOUS
    <2> DEFINE r == s[k + 2]
    <2>1. k \in 0..(n - 1) /\ k <= n /\ k + 1 \in 1..n /\ (k + 1) + 1 = k + 2
      BY <1>6
    <2>2. Tail(s)[k + 1] = r
      BY <1>6, <2>1
    <2>3. PICK b \in f[k] : x \in Preferred(r, b)
      <3>1. f[k + 1] = UNION {Preferred(Tail(s)[k + 1], b) : b \in f[k]}
        BY <1>7, <2>1
      <3>2. \E b \in f[k] : x \in Preferred(Tail(s)[k + 1], b)
        BY <3>1
      <3> QED BY <2>2, <3>2
    <2>4. b = o \/ (Late(b) /\ Late(s[k + 1]))
      BY <1>9, <2>1
    <2>5. k + 2 \in 2..Len(s) /\ k + 1 \in 1..(Len(s) - 1)
      BY <1>6, <2>1
    <2>6. /\ r.fault \in Between => r.conf \in Nat /\ r.conf < o.conf
          /\ r.fault \in Between \cup {"PodPending", "ProbeFailed", "NodeNotReady"}
      BY <1>a, <2>5
    <2>7. Late(s[k + 1]) => r.fault = "NodeNotReady"
      BY <1>5, <2>1, <2>5
    <2> HIDE DEF r
    <2>8. x = o \/ (x = r /\ Late(r)) \/ (x = b /\ r.fault = "NodeNotReady")
      BY <1>3, <2>3, <2>4, <2>6, <2>7, ScanStep
    <2> QED BY <2>4, <2>8 DEF r
  <1>10. Nat \subseteq U
    <2> HIDE DEF U
    <2> QED BY <1>8, <1>9, Induction
  <1>11. best \in f[n] /\ n \in U
    <2> HIDE DEF U
    <2> QED BY <1>6, <1>7, <1>10 DEF s
  <1>12. best = o \/ Late(best)
    BY <1>6, <1>11
  <1> QED BY <1>3, <1>12

(* The factors of a report are the results beside the best. *)
LEMMA FactorsAre ==
    ASSUME NEW T, NEW results \in Seq(T), NEW best, NEW edge
    PROVE  LET factors == Contributing(results, best, edge)
           IN  /\ \A f \in Range(factors) : \E x \in Range(results) \ {best} : f.fault = x.fault /\ f.conf = 10 * x.conf
               /\ \A x \in Range(results) \ {best} : \E f \in Range(factors) : f.fault = x.fault /\ f.conf = 10 * x.conf
  <1> DEFINE others == Others(results, best)
             factors == Contributing(results, best, edge)
  <1>1. others \in Seq(T) /\ Range(others) = Range(results) \ {best}
    BY OthersAre
  <1>2. factors = [i \in DOMAIN others |-> Factor(others[i].name, others[i].fault, 10 * others[i].conf,
                                                 Role(others[i], best, edge))]
    BY DEF Contributing
  <1> HIDE DEF others, factors
  <1>3. DOMAIN factors = DOMAIN others
    BY <1>2
  <1>4. \A i \in DOMAIN others : factors[i].fault = others[i].fault /\ factors[i].conf = 10 * others[i].conf
    BY <1>2 DEF Factor
  <1>5. \A f \in Range(factors) : \E x \in Range(others) : f.fault = x.fault /\ f.conf = 10 * x.conf
    BY <1>3, <1>4 DEF Range
  <1>6. \A x \in Range(others) : \E f \in Range(factors) : f.fault = x.fault /\ f.conf = 10 * x.conf
    BY <1>3, <1>4 DEF Range
  <1> QED BY <1>1, <1>5, <1>6 DEF factors

Outranks(r, p) ==
    (r.primary.fault = "PodPending" /\ OOMTerminations(p) # {}) =>
        \A f \in Range(r.factors) :
            \/ f.fault # "OOMKilled"
            \/ \E g \in Range(r.factors) :
                   /\ g.fault \notin {"OOMKilled", "ProbeFailed", "NodeNotReady"}
                   /\ g.conf >= f.conf

LEMMA EngineOutranks ==
    ASSUME NEW p, NEW r \in Reports(p)
    PROVE  Outranks(r, p)
  <1>1. CASE Found(p) = {}
    <2>1. r = NoResultReport(p)
      BY <1>1, ReportsAre
    <2>2. r.primary = NoFactor
      BY <2>1 DEF NoResultReport
    <2>3. NoFactor.fault = "unknown"
      BY DEF NoFactor, Factor
    <2> HIDE DEF NoFactor
    <2>4. r.primary.fault # "PodPending"
      BY <2>2, <2>3
    <2> QED BY <2>4 DEF Outranks
  <1>2. CASE Found(p) # {}
    <2>1a. PICK best \in Bests(Results(p)) : \E edge : r = AggregateReport(p, Results(p), best, edge)
      BY <1>2, ReportsAre
    <2>1. PICK edge : r = AggregateReport(p, Results(p), best, edge)
      BY <2>1a
    <2>2. r.primary.fault = best.fault /\ r.factors = Contributing(Results(p), best, edge)
      BY <2>1, Zenon DEF AggregateReport, Factor
    <2>3. Results(p) \in Seq(Candidates(p)) /\ Range(Results(p)) = Found(p)
      BY ResultsAre
    <2> HIDE DEF Candidates
    <2>4. /\ \A f \in Range(r.factors) : \E x \in Found(p) \ {best} : f.fault = x.fault /\ f.conf = 10 * x.conf
          /\ \A x \in Found(p) \ {best} : \E f \in Range(r.factors) : f.fault = x.fault /\ f.conf = 10 * x.conf
      BY <2>2, <2>3, FactorsAre
    <2> SUFFICES ASSUME best.fault = "PodPending", OOMTerminations(p) # {},
                        NEW f \in Range(r.factors), f.fault = "OOMKilled"
                 PROVE  \E g \in Range(r.factors) :
                            /\ g.fault \notin {"OOMKilled", "ProbeFailed", "NodeNotReady"}
                            /\ g.conf >= f.conf
      BY <2>2 DEF Outranks
    <2>5. PICK o \in Found(p) : f.fault = o.fault /\ f.conf = 10 * o.conf
      BY <2>4
    <2>6. o = AnalyzeOOM(p) /\ o.conf \in Nat
      BY <2>5, FoundFaults
    <2>7. PICK x \in Found(p) : x.fault \in Between /\ ~(x.conf < o.conf)
      BY <2>6, BestIsNotPending
    <2>8. x.conf \in Nat /\ x # best
      BY <2>7, FoundFaults DEF Between
    <2>9. PICK g \in Range(r.factors) : g.fault = x.fault /\ g.conf = 10 * x.conf
      BY <2>4, <2>8
    <2>10. g.conf >= f.conf
      BY <2>5, <2>6, <2>7, <2>8, <2>9
    <2>11. g.fault \notin {"OOMKilled", "ProbeFailed", "NodeNotReady"}
      BY <2>7, <2>9 DEF Between
    <2> QED BY <2>10, <2>11
  <1> QED BY <1>1, <1>2

RankInv == stage \in {"analyzed", "legacy"} => Outranks(report, context)

LEMMA RankInit == Init => RankInv
  BY DEF Init, RankInv

LEMMA RankStep == RankInv /\ [Next]_vars => RankInv'
  <1> SUFFICES ASSUME RankInv, [Next]_vars PROVE RankInv'
    OBVIOUS
  <1>1. CASE Analyze
    <2>1a. PICK r \in Reports(context) : \E ev : report' = [r EXCEPT !.ev = ev]
      BY <1>1 DEF Analyze
    <2>1. PICK ev : report' = [r EXCEPT !.ev = ev]
      BY <2>1a
    <2>2. report'.primary = r.primary /\ report'.factors = r.factors
      BY <2>1, ReportsAre, WithEvidence
    <2>3. Outranks(r, context) /\ context' = context
      BY <1>1, EngineOutranks DEF Analyze
    <2> QED BY <2>2, <2>3 DEF RankInv, Outranks
  <1>2. CASE Legacy
    <2>1a. PICK r \in Reports(context') : \E hits : report' \in Enhanced([r EXCEPT !.ev = r.ev \cup hits])
      BY <1>2 DEF Legacy
    <2>1. PICK hits : report' \in Enhanced([r EXCEPT !.ev = r.ev \cup hits])
      BY <2>1a
    <2> DEFINE q == [r EXCEPT !.ev = r.ev \cup hits]
    <2>2. DOMAIN r = ReportFields
      BY ReportsAre
    <2>3. DOMAIN q = ReportFields /\ q.primary = r.primary /\ q.factors = r.factors
      BY <2>2, WithEvidence
    <2> HIDE DEF q
    <2>4. PICK ev : report' = q \/ report' = [q EXCEPT !.ev = ev]
      BY <2>1 DEF Enhanced, q
    <2>5. report'.primary = r.primary /\ report'.factors = r.factors
      BY <2>3, <2>4, WithEvidence
    <2>6. Outranks(r, context')
      BY EngineOutranks
    <2> QED BY <2>5, <2>6 DEF RankInv, Outranks
  <1>3. CASE Change
    BY <1>3 DEF Change, RankInv
  <1>4. CASE Snapshot
    BY <1>4 DEF Snapshot, RankInv
  <1>5. CASE Observe
    BY <1>5 DEF Observe, RankInv
  <1>6. CASE StopObserving
    BY <1>6 DEF StopObserving, RankInv
  <1>7. CASE Reconcile
    BY <1>7 DEF Reconcile, RankInv
  <1>8. CASE Remediate
    BY <1>8 DEF Remediate, RankInv
  <1>9. CASE Store
    BY <1>9 DEF Store, RankInv
  <1>10. CASE UNCHANGED vars
    BY <1>10 DEF vars, RankInv, Outranks
  <1> QED BY <1>1, <1>2, <1>3, <1>4, <1>5, <1>6, <1>7, <1>8, <1>9, <1>10 DEF Next

LEMMA RankHolds == RankInv /\ NameInv => StrongOOMOutranks
  <1> SUFFICES ASSUME RankInv, NameInv, stage \in {"analyzed", "legacy"} PROVE Outranks(report, pod)
    BY DEF StrongOOMOutranks, Outranks
  <1>1. Similar(context, pod) /\ Outranks(report, context)
    BY DEF RankInv, NameInv
  <1>2. OOMTerminations(context) = OOMTerminations(pod)
    BY <1>1, SimilarPods DEF OOMTerminations
  <1> QED BY <1>1, <1>2 DEF Outranks

(* A container that was OOM killed outranks scheduling events, for any pod and any evidence *)
(* of the tools: its result is the first and a strong one, no later result but one of the   *)
(* four between, with as much confidence, ends the rule of the OOM kill over PodPending,    *)
(* and probe and node come after the scheduling events.                                     *)
THEOREM OOMOutranks == Spec => []StrongOOMOutranks
  <1>1. RankInv /\ [Next]_vars => RankInv'
    BY RankStep
  <1>2. NameInv /\ [Next]_vars => NameInv'
    BY NameStep
  <1> QED BY <1>1, <1>2, NameInit, RankInit, RankHolds, PTL DEF Spec

-----------------------------------------------------------------------------
(* A fault named by a hypothesis. *)

(* Parts only add to the confidence a hypothesis begins with. *)
LEMMA WeightIsMore ==
    ASSUME NEW parts, IsParts(parts)
    PROVE  Weight(parts) \in Nat /\ Weight(parts) >= 300
  <1> DEFINE n == Len(parts)
  <1>1. PICK f : Weighs(f, parts)
    BY WeightSteps
  <1>2. /\ n \in Nat /\ f \in [0..n -> Nat] /\ f[0] = 300 /\ f[n] = Weight(parts)
        /\ \A k \in 0..(n - 1) : f[k + 1] = Adds(f[k], parts[k + 1])
        /\ \A i \in 1..n : parts[i][2] \in Nat
    BY <1>1 DEF Weighs, IsParts
  <1> HIDE DEF n
  <1> DEFINE T == {k \in Nat : k <= n => f[k] >= 300}
  <1>3. 0 \in T
    BY <1>2
  <1>4. ASSUME NEW k \in Nat, k \in T PROVE k + 1 \in T
    <2> SUFFICES ASSUME k + 1 <= n PROVE f[k + 1] >= 300
      OBVIOUS
    <2>1. k \in 0..(n - 1) /\ k \in 0..n /\ k + 1 \in 1..n /\ f[k] >= 300
      BY <1>2, <1>4
    <2>2. f[k] \in Nat /\ parts[k + 1][2] \in Nat /\ f[k + 1] = Adds(f[k], parts[k + 1])
      BY <1>2, <2>1
    <2> QED BY <2>1, <2>2 DEF Adds
  <1>5. Nat \subseteq T
    <2> HIDE DEF T
    <2> QED BY <1>3, <1>4, Induction
  <1> QED BY <1>2, <1>5

LEMMA LikelierIs ==
    ASSUME NEW parts, NEW more, Grown(more, parts), NEW type, NEW m1, NEW m2
    PROVE  Hypothesis(type, more, m2).conf \in Nat /\ Hypothesis(type, parts, m1).conf \in Nat
           /\ Hypothesis(type, more, m2).conf >= Hypothesis(type, parts, m1).conf
  <1> DEFINE Found1(s) == UNION {s[i][1] : i \in DOMAIN s}
             Conf(s) == IF Found1(s) = {} THEN 150 ELSE Min({Weight(s), 1000})
  <1>1. Hypothesis(type, parts, m1).conf = Conf(parts) /\ Hypothesis(type, more, m2).conf = Conf(more)
    BY DEF Hypothesis
  <1>2. Weight(parts) \in Nat /\ Weight(more) \in Nat /\ Weight(parts) <= Weight(more) /\ Weight(more) >= 300
    BY Heavier, WeightIsMore DEF Grown
  <1>3. /\ Min({Weight(parts), 1000}) = IF Weight(parts) <= 1000 THEN Weight(parts) ELSE 1000
        /\ Min({Weight(more), 1000}) = IF Weight(more) <= 1000 THEN Weight(more) ELSE 1000
    BY <1>2, MinIs
  <1>4. Found1(parts) # {} => Found1(more) # {}
    <2>1. DOMAIN parts = DOMAIN more /\ \A i \in DOMAIN parts : more[i][1] = {} => parts[i][1] = {}
      BY DEF Grown, IsParts
    <2> QED BY <2>1
  <1> HIDE DEF Found1
  <1>5. Conf(parts) \in Nat /\ Conf(more) \in Nat /\ Conf(more) >= Conf(parts)
    BY <1>2, <1>3, <1>4
  <1> QED BY <1>1, <1>5

(* Scored again on evidence that says as much, a hypothesis is as likely as it was. *)
LEMMA LikelierGrows ==
    ASSUME NEW p, NEW ev, NEW all, Covers(all, ev), NEW h \in Range(KeywordScores(p, ev))
    PROVE  \E g \in Range(KeywordScores(p, all)) :
               /\ g.type = h.type /\ g.conf \in Nat /\ h.conf \in Nat /\ g.conf >= h.conf
               /\ h.status = "confirmed" => g.status = "confirmed"
  <1> DEFINE u == KeywordScores(p, ev)
             v == KeywordScores(p, all)
  <1>1. /\ DOMAIN u = 1..13 /\ \A i \in 1..13 : IsAbout(u[i], Types[i], p, ev)
        /\ DOMAIN v = 1..13 /\ \A i \in 1..13 : IsAbout(v[i], Types[i], p, all)
    BY KeywordsIndexed, Zenon
  <1>2. h \in Range(u)
    BY Zenon
  <1> HIDE DEF u, v
  <1>3. PICK i \in 1..13 : h = u[i]
    BY <1>1, <1>2 DEF Range
  <1>4. PICK m1 : u[i] = Hypothesis(Types[i], PartsOf(Types[i], p, ev), m1)
    BY <1>1 DEF IsAbout
  <1>5. PICK m2 : v[i] = Hypothesis(Types[i], PartsOf(Types[i], p, all), m2)
    BY <1>1 DEF IsAbout
  <1>6. Grown(PartsOf(Types[i], p, all), PartsOf(Types[i], p, ev))
    BY PartsGrow
  <1>7. h.status = "confirmed" => v[i].status = "confirmed"
    BY <1>3, <1>4, <1>5, <1>6, StaysConfirmed
  <1>8. v[i].conf \in Nat /\ h.conf \in Nat /\ v[i].conf >= h.conf
    BY <1>3, <1>4, <1>5, <1>6, LikelierIs
  <1>9. h.type = Types[i] /\ v[i].type = Types[i]
    BY <1>3, <1>4, <1>5 DEF Hypothesis
  <1>10. v[i] \in Range(v)
    BY <1>1 DEF Range
  <1> QED BY <1>7, <1>8, <1>9, <1>10 DEF v

(* No analyzer goes by the name of the hypotheses. *)
LEMMA EngineIsNamed ==
    ASSUME NEW p, NEW r \in Reports(p)
    PROVE  r.primary.by # "agent_hypothesis"
  <1>1. CASE Found(p) = {}
    <2>1. r = NoResultReport(p)
      BY <1>1, ReportsAre
    <2>2. r.primary = NoFactor
      BY <2>1 DEF NoResultReport
    <2>3. NoFactor.by = ""
      BY DEF NoFactor, Factor
    <2> HIDE DEF NoFactor
    <2> QED BY <2>2, <2>3
  <1>2. CASE Found(p) # {}
    <2>1a. PICK best \in Bests(Results(p)) : \E edge : r = AggregateReport(p, Results(p), best, edge)
      BY <1>2, ReportsAre
    <2>1. PICK edge : r = AggregateReport(p, Results(p), best, edge)
      BY <2>1a
    <2>2. best \in Found(p)
      <3>1. Results(p) \in Seq(Candidates(p)) /\ Results(p) # << >> /\ Range(Results(p)) = Found(p)
        BY <1>2, ResultsAre, FoundIs
      <3> HIDE DEF Results, Candidates, Found
      <3> QED BY <2>1, <3>1, BestsAre
    <2>3. r.primary = Factor(best.name, best.fault, 10 * best.conf, "primary")
      BY <2>1, Zenon DEF AggregateReport
    <2>4. r.primary.by = best.name
      BY <2>3 DEF Factor
    <2>5. best.name # "agent_hypothesis"
      BY <2>2, AnalyzersAre DEF Found, Chosen
    <2> QED BY <2>4, <2>5
  <1> QED BY <1>1, <1>2

Named(r, hyps) ==
    r.primary.by = "agent_hypothesis" =>
        \E h \in Range(hyps) : /\ h.status = "confirmed" /\ r.conf = 10 * h.conf
                               /\ FaultOf(h.type) = r.primary.fault
BackInv ==
    /\ stage = "analyzed" => report.primary.by # "agent_hypothesis"
    /\ stage \in {"aligned", "remediated"} => Named(report, scores)
    /\ ~scorer => FaultIsBacked

LEMMA BackInit == Init => BackInv
  BY DEF Init, BackInv, FaultIsBacked

LEMMA ReconcileNames == NameInv /\ BackInv /\ Reconcile => Named(report', scores')
  <1> SUFFICES ASSUME NameInv, BackInv, Reconcile PROVE Named(report', scores')
    OBVIOUS
  <1>1. PICK ev : /\ \E answer : scores' = Update(context, ev, answer)
                  /\ report' = Aligned([report EXCEPT !.ev = ev], scores')
    BY DEF Reconcile
  <1> DEFINE r == [report EXCEPT !.ev = ev]
  <1>2. DOMAIN report = ReportFields /\ report.primary.by # "agent_hypothesis"
    BY DEF Reconcile, NameInv, Reported, BackInv
  <1>3. DOMAIN r = ReportFields /\ r.primary = report.primary
    BY <1>2, WithEvidence
  <1> HIDE DEF r
  <1>4. \/ report'.primary = r.primary
        \/ SelectPrimary(scores') # << >> /\ Renamed(report', r, SelectPrimary(scores')[1])
    BY <1>1, <1>3, AlignedIs DEF r
  <1>5. CASE SelectPrimary(scores') # << >> /\ Renamed(report', r, SelectPrimary(scores')[1])
    <2> DEFINE h == SelectPrimary(scores')[1]
    <2>1. h \in Range(scores')
      BY <1>1, <1>5, PrimaryAmong
    <2> HIDE DEF h
    <2>2. h.status = "confirmed" /\ report'.conf = 10 * h.conf /\ report'.primary = FactorOf(h, "primary")
      BY <1>5 DEF Renamed, h
    <2>3. report'.primary.fault = FaultOf(h.type)
      BY <2>2 DEF FactorOf, Factor
    <2> QED BY <2>1, <2>2, <2>3 DEF Named
  <1> QED BY <1>2, <1>3, <1>4, <1>5 DEF Named

LEMMA StoreBacks == ~scorer /\ StandInv /\ BackInv /\ Store => FaultIsBacked'
  <1> SUFFICES ASSUME ~scorer, StandInv, BackInv, Store, report.primary.by = "agent_hypothesis"
               PROVE  \E h \in Range(scores') : /\ h.status = "confirmed" /\ 10 * h.conf >= report.conf
                                                /\ FaultOf(h.type) = report.primary.fault
    BY DEF FaultIsBacked, Store
  <1>1. PICK ev \in SUBSET report.ev : scores = KeywordScores(context, ev)
    BY DEF Store, StandInv, Rescored
  <1>2. scores' = KeywordScores(context, report.ev)
    BY NoScorer DEF Store, FinalScores
  <1>3. Covers(report.ev, ev)
    BY <1>1 DEF Covers
  <1>4. PICK h \in Range(scores) : /\ h.status = "confirmed" /\ report.conf = 10 * h.conf
                                   /\ FaultOf(h.type) = report.primary.fault
    BY DEF BackInv, Named, Store
  <1>5. PICK g \in Range(scores') : /\ g.type = h.type /\ g.conf \in Nat /\ h.conf \in Nat
                                    /\ g.conf >= h.conf /\ g.status = "confirmed"
    <2>1. h \in Range(KeywordScores(context, ev))
      BY <1>1
    <2>2. PICK g \in Range(KeywordScores(context, report.ev)) :
               /\ g.type = h.type /\ g.conf \in Nat /\ h.conf \in Nat /\ g.conf >= h.conf
               /\ h.status = "confirmed" => g.status = "confirmed"
      BY <1>3, <2>1, LikelierGrows
    <2>3. g \in Range(scores')
      BY <1>2
    <2> QED BY <1>4, <2>2, <2>3
  <1>6. 10 * g.conf >= report.conf
    BY <1>4, <1>5
  <1>7. FaultOf(g.type) = report.primary.fault
    BY <1>4, <1>5
  <1> QED BY <1>5, <1>6, <1>7

LEMMA BackStep == BackInv /\ NameInv /\ StandInv /\ [Next]_vars => BackInv'
  <1> SUFFICES ASSUME BackInv, NameInv, StandInv, [Next]_vars PROVE BackInv'
    OBVIOUS
  <1>1. CASE Analyze
    <2>1a. PICK r \in Reports(context) : \E ev : report' = [r EXCEPT !.ev = ev]
      BY <1>1 DEF Analyze
    <2>1. PICK ev : report' = [r EXCEPT !.ev = ev]
      BY <2>1a
    <2>2. report'.primary = r.primary
      BY <2>1, ReportsAre, WithEvidence
    <2>3. r.primary.by # "agent_hypothesis"
      BY <2>1, EngineIsNamed
    <2>4. stage' = "analyzed"
      BY <1>1 DEF Analyze
    <2> QED BY <2>2, <2>3, <2>4 DEF BackInv, FaultIsBacked
  <1>2. CASE Reconcile
    <2>1. stage' = "aligned" /\ Named(report', scores')
      BY <1>2, ReconcileNames DEF Reconcile
    <2> QED BY <2>1 DEF BackInv, FaultIsBacked, Named
  <1>3. CASE Remediate
    <2>1. stage = "aligned" /\ stage' = "remediated" /\ scores' = scores
      BY <1>3 DEF Remediate
    <2>2. PICK ev : report' = report \/ report' = [report EXCEPT !.ev = ev]
      BY <1>3 DEF Remediate
    <2>3. report'.primary = report.primary /\ report'.conf = report.conf
      BY <2>1, <2>2, WithEvidence DEF NameInv, Reported
    <2> QED BY <2>1, <2>3 DEF BackInv, Named, FaultIsBacked
  <1>4. CASE Store
    <2>1. (~scorer' => FaultIsBacked') /\ stage' = "stored"
      BY <1>4, StoreBacks, ScorerStays DEF Store
    <2> QED BY <2>1 DEF BackInv
  <1>5. CASE Legacy
    BY <1>5 DEF Legacy, BackInv, FaultIsBacked
  <1>6. CASE Change
    BY <1>6 DEF Change, BackInv, FaultIsBacked
  <1>7. CASE Snapshot
    BY <1>7 DEF Snapshot, BackInv, FaultIsBacked
  <1>8. CASE Observe
    BY <1>8 DEF Observe, BackInv, FaultIsBacked
  <1>9. CASE StopObserving
    BY <1>9 DEF StopObserving, BackInv, FaultIsBacked
  <1>10. CASE UNCHANGED vars
    BY <1>10 DEF vars, BackInv, FaultIsBacked, Named
  <1> QED BY <1>1, <1>2, <1>3, <1>4, <1>5, <1>6, <1>7, <1>8, <1>9, <1>10 DEF Next

(* Without a scorer, a fault that a hypothesis gave the report is that of one stored as     *)
(* confirmed, and as likely as the report says, for any pod and evidence: the report took   *)
(* it from the scores at hand (BackInv), and the final scoring is on evidence that has only *)
(* grown since.                                                                             *)
THEOREM FaultsAreBacked == Spec => [](~scorer => FaultIsBacked)
  <1>1. NameInv /\ [Next]_vars => NameInv'
    BY NameStep
  <1>2. StandInv /\ NameInv /\ [Next]_vars => StandInv'
    BY StandStep
  <1>3. BackInv => (~scorer => FaultIsBacked)
    BY DEF BackInv
  <1> QED BY <1>1, <1>2, <1>3, NameInit, StandInit, BackInit, BackStep, PTL DEF Spec

-----------------------------------------------------------------------------
(* How likely the hypotheses are. *)

(* The weights of up to four parts. *)
Share(part) == IF part[1] = {} THEN 0 ELSE 10 * part[2]

LEMMA WeightIs ==
    ASSUME NEW parts, IsParts(parts)
    PROVE  /\ Len(parts) = 1 => Weight(parts) = 300 + Share(parts[1])
           /\ Len(parts) = 2 => Weight(parts) = 300 + Share(parts[1]) + Share(parts[2])
           /\ Len(parts) = 3 => Weight(parts) = 300 + Share(parts[1]) + Share(parts[2]) + Share(parts[3])
           /\ Len(parts) = 4 => Weight(parts) = 300 + Share(parts[1]) + Share(parts[2]) + Share(parts[3])
                                                + Share(parts[4])
  <1> DEFINE n == Len(parts)
  <1>1. PICK f : Weighs(f, parts)
    BY WeightSteps
  <1>2. /\ n \in Nat /\ f \in [0..n -> Nat] /\ f[0] = 300 /\ f[n] = Weight(parts)
        /\ \A k \in 0..(n - 1) : f[k + 1] = Adds(f[k], parts[k + 1])
        /\ \A i \in 1..n : parts[i][2] \in Nat
    BY <1>1 DEF Weighs, IsParts
  <1> HIDE DEF n
  <1>3. ASSUME NEW k \in 0..(n - 1) PROVE f[k] \in Nat /\ f[k + 1] = f[k] + Share(parts[k + 1])
    <2>1. k \in 0..n /\ k + 1 \in 1..n
      BY <1>2
    <2>2. f[k] \in Nat /\ parts[k + 1][2] \in Nat /\ f[k + 1] = Adds(f[k], parts[k + 1])
      BY <1>2, <2>1
    <2> QED BY <2>2 DEF Adds, Share
  <1>4. 1 <= n => f[1] = 300 + Share(parts[1])
    BY <1>2, <1>3
  <1>5. 2 <= n => f[2] = f[1] + Share(parts[2])
    BY <1>2, <1>3
  <1>6. 3 <= n => f[3] = f[2] + Share(parts[3])
    BY <1>2, <1>3
  <1>7. 4 <= n => f[4] = f[3] + Share(parts[4])
    BY <1>2, <1>3
  <1>8. \A i \in 1..n : Share(parts[i]) \in Nat
    BY <1>2 DEF Share
  <1>9. n = 1 => Weight(parts) = 300 + Share(parts[1])
    BY <1>2, <1>4
  <1>10. n = 2 => Weight(parts) = 300 + Share(parts[1]) + Share(parts[2])
    BY <1>2, <1>4, <1>5
  <1>11. n = 3 => Weight(parts) = 300 + Share(parts[1]) + Share(parts[2]) + Share(parts[3])
    BY <1>2, <1>4, <1>5, <1>6
  <1>12. n = 4 => Weight(parts) = 300 + Share(parts[1]) + Share(parts[2]) + Share(parts[3]) + Share(parts[4])
    BY <1>2, <1>4, <1>5, <1>6, <1>7
  <1> QED BY <1>9, <1>10, <1>11, <1>12 DEF n

LEMMA Weighed1 ==
    ASSUME NEW a, NEW s \in Nat
    PROVE  LET parts == << <<a, s>> >>
           IN  IsParts(parts) /\ \E x \in {0, 10 * s} : Weight(parts) = 300 + x
  <1> DEFINE parts == << <<a, s>> >>
  <1>1. IsParts(parts) /\ Len(parts) = 1
    BY DEF IsParts
  <1>2. Share(parts[1]) \in {0, 10 * s}
    BY DEF Share
  <1> HIDE DEF parts
  <1>3. Weight(parts) = 300 + Share(parts[1])
    BY <1>1, WeightIs
  <1> QED BY <1>1, <1>2, <1>3 DEF parts

LEMMA Weighed2 ==
    ASSUME NEW a, NEW b, NEW s \in Nat, NEW t \in Nat
    PROVE  LET parts == << <<a, s>>, <<b, t>> >>
           IN  IsParts(parts) /\ \E x \in {0, 10 * s}, y \in {0, 10 * t} : Weight(parts) = 300 + x + y
  <1> DEFINE parts == << <<a, s>>, <<b, t>> >>
  <1>1. IsParts(parts) /\ Len(parts) = 2
    BY DEF IsParts
  <1>2. Share(parts[1]) \in {0, 10 * s} /\ Share(parts[2]) \in {0, 10 * t}
    BY DEF Share
  <1> HIDE DEF parts
  <1>3. Weight(parts) = 300 + Share(parts[1]) + Share(parts[2])
    BY <1>1, WeightIs
  <1> QED BY <1>1, <1>2, <1>3 DEF parts

LEMMA Weighed3 ==
    ASSUME NEW a, NEW b, NEW c, NEW s \in Nat, NEW t \in Nat, NEW u \in Nat
    PROVE  LET parts == << <<a, s>>, <<b, t>>, <<c, u>> >>
           IN  IsParts(parts) /\ \E x \in {0, 10 * s}, y \in {0, 10 * t}, z \in {0, 10 * u} :
                   Weight(parts) = 300 + x + y + z
  <1> DEFINE parts == << <<a, s>>, <<b, t>>, <<c, u>> >>
  <1>1. IsParts(parts) /\ Len(parts) = 3
    BY DEF IsParts
  <1>2. Share(parts[1]) \in {0, 10 * s} /\ Share(parts[2]) \in {0, 10 * t} /\ Share(parts[3]) \in {0, 10 * u}
    BY DEF Share
  <1> HIDE DEF parts
  <1>3. Weight(parts) = 300 + Share(parts[1]) + Share(parts[2]) + Share(parts[3])
    BY <1>1, WeightIs
  <1> QED BY <1>1, <1>2, <1>3 DEF parts

LEMMA Weighed4 ==
    ASSUME NEW a, NEW b, NEW c, NEW d, NEW s \in Nat, NEW t \in Nat, NEW u \in Nat, NEW v \in Nat
    PROVE  LET parts == << <<a, s>>, <<b, t>>, <<c, u>>, <<d, v>> >>
           IN  IsParts(parts) /\ \E x \in {0, 10 * s}, y \in {0, 10 * t}, z \in {0, 10 * u}, w \in {0, 10 * v} :
                   Weight(parts) = 300 + x + y + z + w
  <1> DEFINE parts == << <<a, s>>, <<b, t>>, <<c, u>>, <<d, v>> >>
  <1>1. IsParts(parts) /\ Len(parts) = 4
    BY DEF IsParts
  <1>2. /\ Share(parts[1]) \in {0, 10 * s} /\ Share(parts[2]) \in {0, 10 * t}
        /\ Share(parts[3]) \in {0, 10 * u} /\ Share(parts[4]) \in {0, 10 * v}
    BY DEF Share
  <1> HIDE DEF parts
  <1>3. Weight(parts) = 300 + Share(parts[1]) + Share(parts[2]) + Share(parts[3]) + Share(parts[4])
    BY <1>1, WeightIs
  <1> QED BY <1>1, <1>2, <1>3 DEF parts

LEMMA SureIs ==
    ASSUME NEW type, NEW parts, IsParts(parts), NEW missing, NEW h, h = Hypothesis(type, parts, missing),
           h.status = "confirmed"
    PROVE  /\ h.type = type /\ h.conf >= 750
           /\ h.conf = IF Weight(parts) <= 1000 THEN Weight(parts) ELSE 1000
  <1> DEFINE found == UNION {parts[i][1] : i \in DOMAIN parts}
             conf == IF found = {} THEN 150 ELSE Min({Weight(parts), 1000})
  <1>1. h.type = type /\ h.conf = conf /\ h.status = StatusOf(conf)
    BY DEF Hypothesis
  <1> HIDE DEF found
  <1>2. Weight(parts) \in Nat /\ Min({Weight(parts), 1000}) = IF Weight(parts) <= 1000 THEN Weight(parts) ELSE 1000
    BY WeightIsMore, MinIs
  <1>3. conf >= 750
    BY <1>1, <1>2 DEF StatusOf
  <1> QED BY <1>1, <1>2, <1>3

(* How likely a confirmed hypothesis can be. *)
LEMMA LikelyConfs ==
    ASSUME NEW p, NEW ev, NEW type, NEW h, IsAbout(h, type, p, ev), h.status = "confirmed",
           IsParts(PartsOf(type, p, ev))
    PROVE  /\ h.type = type
           /\ type = "memory_limit_too_low" => h.conf \in {750, 800, 850, 900}
           /\ type = "application_memory_leak" => h.conf \in {800}
           /\ type = "node_memory_pressure" => h.conf \in {}
           /\ type = "bad_config" => h.conf \in {800, 900, 1000}
           /\ type = "missing_secret_or_configmap" => h.conf \in {750, 850, 900, 1000}
           /\ type = "dependency_unavailable" => h.conf \in {}
           /\ type = "probe_misconfigured" => h.conf \in {750}
           /\ type = "pvc_unbound" => h.conf \in {750}
           /\ type = "scheduling_constraint" => h.conf \in {750, 850}
           /\ type = "image_pull_failed" => h.conf \in {750, 900}
           /\ type = "init_container_crash" => h.conf \in {850}
           /\ type = "node_eviction" => h.conf \in {750, 830, 900, 980}
           /\ type = "node_not_ready" => h.conf \in {750, 800, 850, 900}
  <1>0. /\ h.type = type /\ h.conf >= 750
        /\ h.conf = IF Weight(PartsOf(type, p, ev)) <= 1000 THEN Weight(PartsOf(type, p, ev)) ELSE 1000
        /\ Weight(PartsOf(type, p, ev)) \in Nat
    <2>1. PICK missing : h = Hypothesis(type, PartsOf(type, p, ev), missing)
      BY DEF IsAbout
    <2> QED BY <2>1, SureIs, WeightIsMore
  <1>1. type = "memory_limit_too_low" => h.conf \in {750, 800, 850, 900}
    <2> SUFFICES ASSUME type = "memory_limit_too_low" PROVE h.conf \in {750, 800, 850, 900}
      OBVIOUS
    <2>1. PICK a, b, c, d : PartsOf(type, p, ev) = << <<a, 25>>, <<b, 20>>, <<c, 10>>, <<d, 5>> >>
      BY DEF PartsOf
    <2>2. PICK x \in {0, 250}, y \in {0, 200}, z \in {0, 100}, w \in {0, 50} :
              Weight(PartsOf(type, p, ev)) = 300 + x + y + z + w
      BY <2>1, Weighed4
    <2> QED BY <1>0, <2>2
  <1>2. type = "application_memory_leak" => h.conf \in {800}
    <2> SUFFICES ASSUME type = "application_memory_leak" PROVE h.conf \in {800}
      OBVIOUS
    <2>1. PICK a, b : PartsOf(type, p, ev) = << <<a, 20>>, <<b, 30>> >>
      BY DEF PartsOf
    <2>2. PICK x \in {0, 200}, y \in {0, 300} : Weight(PartsOf(type, p, ev)) = 300 + x + y
      BY <2>1, Weighed2
    <2> QED BY <1>0, <2>2
  <1>3. type = "node_memory_pressure" => h.conf \in {}
    <2> SUFFICES ASSUME type = "node_memory_pressure" PROVE h.conf \in {}
      OBVIOUS
    <2>1. PICK a : PartsOf(type, p, ev) = << <<a, 35>> >>
      BY DEF PartsOf
    <2>2. PICK x \in {0, 350} : Weight(PartsOf(type, p, ev)) = 300 + x
      BY <2>1, Weighed1
    <2> QED BY <1>0, <2>2
  <1>4. type = "bad_config" => h.conf \in {800, 900, 1000}
    <2> SUFFICES ASSUME type = "bad_config" PROVE h.conf \in {800, 900, 1000}
      OBVIOUS
    <2>1. PICK a, b, c : PartsOf(type, p, ev) = << <<a, 30>>, <<b, 20>>, <<c, 30>> >>
      BY DEF PartsOf
    <2>2. PICK x \in {0, 300}, y \in {0, 200}, z \in {0, 300} : Weight(PartsOf(type, p, ev)) = 300 + x + y + z
      BY <2>1, Weighed3
    <2> QED BY <1>0, <2>2
  <1>5. type = "missing_secret_or_configmap" => h.conf \in {750, 850, 900, 1000}
    <2> SUFFICES ASSUME type = "missing_secret_or_configmap" PROVE h.conf \in {750, 850, 900, 1000}
      OBVIOUS
    <2>1. PICK a, b, c : PartsOf(type, p, ev) = << <<a, 15>>, <<b, 45>>, <<c, 40>> >>
      BY DEF PartsOf
    <2>2. PICK x \in {0, 150}, y \in {0, 450}, z \in {0, 400} : Weight(PartsOf(type, p, ev)) = 300 + x + y + z
      BY <2>1, Weighed3
    <2> QED BY <1>0, <2>2
  <1>6. type = "dependency_unavailable" => h.conf \in {}
    <2> SUFFICES ASSUME type = "dependency_unavailable" PROVE h.conf \in {}
      OBVIOUS
    <2>1. PICK a, b : PartsOf(type, p, ev) = << <<a, 25>>, <<b, 10>> >>
      BY DEF PartsOf
    <2>2. PICK x \in {0, 250}, y \in {0, 100} : Weight(PartsOf(type, p, ev)) = 300 + x + y
      BY <2>1, Weighed2
    <2> QED BY <1>0, <2>2
  <1>7. type = "probe_misconfigured" => h.conf \in {750}
    <2> SUFFICES ASSUME type = "probe_misconfigured" PROVE h.conf \in {750}
      OBVIOUS
    <2>1. PICK a : PartsOf(type, p, ev) = << <<a, 45>> >>
      BY DEF PartsOf
    <2>2. PICK x \in {0, 450} : Weight(PartsOf(type, p, ev)) = 300 + x
      BY <2>1, Weighed1
    <2> QED BY <1>0, <2>2
  <1>8. type = "pvc_unbound" => h.conf \in {750}
    <2> SUFFICES ASSUME type = "pvc_unbound" PROVE h.conf \in {750}
      OBVIOUS
    <2>1. PICK a : PartsOf(type, p, ev) = << <<a, 45>> >>
      BY DEF PartsOf
    <2>2. PICK x \in {0, 450} : Weight(PartsOf(type, p, ev)) = 300 + x
      BY <2>1, Weighed1
    <2> QED BY <1>0, <2>2
  <1>9. type = "scheduling_constraint" => h.conf \in {750, 850}
    <2> SUFFICES ASSUME type = "scheduling_constraint" PROVE h.conf \in {750, 850}
      OBVIOUS
    <2>1. PICK a, b : PartsOf(type, p, ev) = << <<a, 45>>, <<b, 10>> >>
      BY DEF PartsOf
    <2>2. PICK x \in {0, 450}, y \in {0, 100} : Weight(PartsOf(type, p, ev)) = 300 + x + y
      BY <2>1, Weighed2
    <2> QED BY <1>0, <2>2
  <1>10. type = "image_pull_failed" => h.conf \in {750, 900}
    <2> SUFFICES ASSUME type = "image_pull_failed" PROVE h.conf \in {750, 900}
      OBVIOUS
    <2>1. PICK a, b : PartsOf(type, p, ev) = << <<a, 45>>, <<b, 15>> >>
      BY DEF PartsOf
    <2>2. PICK x \in {0, 450}, y \in {0, 150} : Weight(PartsOf(type, p, ev)) = 300 + x + y
      BY <2>1, Weighed2
    <2> QED BY <1>0, <2>2
  <1>11. type = "init_container_crash" => h.conf \in {850}
    <2> SUFFICES ASSUME type = "init_container_crash" PROVE h.conf \in {850}
      OBVIOUS
    <2> DEFINE init == Mentions(p, ev, {"init"})
               exit == IF init = {} THEN {} ELSE Mentions(p, ev, {"exitcode"})
    <2>3. PartsOf(type, p, ev) = << <<init, 35>>, <<exit, 20>> >>
      BY DEF PartsOf
    <2> HIDE DEF init, exit
    <2>1. PICK a, b : PartsOf(type, p, ev) = << <<a, 35>>, <<b, 20>> >>
      BY <2>3
    <2>2. PICK x \in {0, 350}, y \in {0, 200} : Weight(PartsOf(type, p, ev)) = 300 + x + y
      BY <2>1, Weighed2
    <2> QED BY <1>0, <2>2
  <1>12. type = "node_eviction" => h.conf \in {750, 830, 900, 980}
    <2> SUFFICES ASSUME type = "node_eviction" PROVE h.conf \in {750, 830, 900, 980}
      OBVIOUS
    <2>1. PICK a, b, c : PartsOf(type, p, ev) = << <<a, 45>>, <<b, 15>>, <<c, 8>> >>
      BY DEF PartsOf
    <2>2. PICK x \in {0, 450}, y \in {0, 150}, z \in {0, 80} : Weight(PartsOf(type, p, ev)) = 300 + x + y + z
      BY <2>1, Weighed3
    <2> QED BY <1>0, <2>2
  <1>13. type = "node_not_ready" => h.conf \in {750, 800, 850, 900}
    <2> SUFFICES ASSUME type = "node_not_ready" PROVE h.conf \in {750, 800, 850, 900}
      OBVIOUS
    <2>1. PICK a, b, c : PartsOf(type, p, ev) = << <<a, 45>>, <<b, 10>>, <<c, 5>> >>
      BY DEF PartsOf
    <2>2. PICK x \in {0, 450}, y \in {0, 100}, z \in {0, 50} : Weight(PartsOf(type, p, ev)) = 300 + x + y + z
      BY <2>1, Weighed3
    <2> QED BY <1>0, <2>2
  <1> QED BY <1>0, <1>1, <1>2, <1>3, <1>4, <1>5, <1>6, <1>7, <1>8, <1>9, <1>10, <1>11, <1>12, <1>13

-----------------------------------------------------------------------------
(* The order of the confirmed hypotheses. *)

LEMMA SpecificityIs ==
    ASSUME NEW type
    PROVE  /\ type = "pvc_unbound" => Specificity(type) = 100
           /\ type = "missing_secret_or_configmap" => Specificity(type) = 98
           /\ type = "memory_limit_too_low" => Specificity(type) = 96
           /\ type = "node_not_ready" => Specificity(type) = 95
           /\ type = "image_pull_failed" => Specificity(type) = 93
           /\ type = "init_container_crash" => Specificity(type) = 92
           /\ type = "node_eviction" => Specificity(type) = 91
           /\ type = "probe_misconfigured" => Specificity(type) = 90
           /\ type = "application_memory_leak" => Specificity(type) = 80
           /\ type = "bad_config" => Specificity(type) = 72
  BY DEF Specificity

(* Among confirmed hypotheses none of which is about scheduling, the comparison is an order *)
(* after all: that of the levels of confidence, and within a level of the specificity.      *)
Level(conf) == IF conf < 800 THEN 1 ELSE IF conf < 850 THEN 2 ELSE IF conf < 900 THEN 3
               ELSE IF conf < 980 THEN 4 ELSE 5
Key(h) == 1000 * Level(h.conf) + Specificity(h.type)
Grade(s, c) ==
    \/ s = 100 /\ c = 750
    \/ s = 98 /\ c \in {750, 850, 900, 1000}
    \/ s = 96 /\ c \in {750, 800, 850, 900}
    \/ s = 95 /\ c \in {750, 800, 850, 900}
    \/ s = 93 /\ c \in {750, 900}
    \/ s = 92 /\ c = 850
    \/ s = 91 /\ c \in {750, 830, 900, 980}
    \/ s = 90 /\ c = 750
    \/ s = 80 /\ c = 800
    \/ s = 72 /\ c \in {800, 900, 1000}

LEMMA Graded ==
    ASSUME NEW p, NEW ev, NEW i \in 1..13, i # 9, NEW h, h = KeywordScores(p, ev)[i], h.status = "confirmed"
    PROVE  Grade(Specificity(h.type), h.conf) /\ h.type = Types[i]
  <1> DEFINE type == Types[i]
  <1>1. IsAbout(h, type, p, ev)
    BY KeywordsAre
  <1>2. IsParts(PartsOf(type, p, ev))
    <2>1. Covers(ev, ev)
      BY DEF Covers
    <2>2. Grown(PartsOf(type, p, ev), PartsOf(type, p, ev))
      BY <2>1, PartsGrow
    <2> QED BY <2>2 DEF Grown
  <1>3. type \in {"memory_limit_too_low", "application_memory_leak", "node_memory_pressure", "bad_config",
           "missing_secret_or_configmap", "dependency_unavailable", "probe_misconfigured", "pvc_unbound",
           "image_pull_failed", "init_container_crash", "node_eviction", "node_not_ready"}
    BY DEF Types
  <1> HIDE DEF type
  <1>4. h.type = type
    BY <1>1, <1>2, LikelyConfs
  <1> SUFFICES Grade(Specificity(h.type), h.conf)
    BY <1>4 DEF type
  <1>5. CASE type = "memory_limit_too_low"
    <2>1. Specificity(type) = 96
      BY <1>5, SpecificityIs
    <2>2. h.conf \in {750, 800, 850, 900}
      BY <1>1, <1>2, <1>5, LikelyConfs
    <2> QED BY <1>4, <2>1, <2>2 DEF Grade
  <1>6. CASE type = "application_memory_leak"
    <2>1. Specificity(type) = 80
      BY <1>6, SpecificityIs
    <2>2. h.conf \in {800}
      BY <1>1, <1>2, <1>6, LikelyConfs
    <2> QED BY <1>4, <2>1, <2>2 DEF Grade
  <1>7. CASE type = "node_memory_pressure"
    BY <1>1, <1>2, <1>4, <1>7, LikelyConfs
  <1>8. CASE type = "bad_config"
    <2>1. Specificity(type) = 72
      BY <1>8, SpecificityIs
    <2>2. h.conf \in {800, 900, 1000}
      BY <1>1, <1>2, <1>8, LikelyConfs
    <2> QED BY <1>4, <2>1, <2>2 DEF Grade
  <1>9. CASE type = "missing_secret_or_configmap"
    <2>1. Specificity(type) = 98
      BY <1>9, SpecificityIs
    <2>2. h.conf \in {750, 850, 900, 1000}
      BY <1>1, <1>2, <1>9, LikelyConfs
    <2> QED BY <1>4, <2>1, <2>2 DEF Grade
  <1>10. CASE type = "dependency_unavailable"
    BY <1>1, <1>2, <1>4, <1>10, LikelyConfs
  <1>11. CASE type = "probe_misconfigured"
    <2>1. Specificity(type) = 90
      BY <1>11, SpecificityIs
    <2>2. h.conf \in {750}
      BY <1>1, <1>2, <1>11, LikelyConfs
    <2> QED BY <1>4, <2>1, <2>2 DEF Grade
  <1>12. CASE type = "pvc_unbound"
    <2>1. Specificity(type) = 100
      BY <1>12, SpecificityIs
    <2>2. h.conf \in {750}
      BY <1>1, <1>2, <1>12, LikelyConfs
    <2> QED BY <1>4, <2>1, <2>2 DEF Grade
  <1>13. CASE type = "image_pull_failed"
    <2>1. Specificity(type) = 93
      BY <1>13, SpecificityIs
    <2>2. h.conf \in {750, 900}
      BY <1>1, <1>2, <1>13, LikelyConfs
    <2> QED BY <1>4, <2>1, <2>2 DEF Grade
  <1>14. CASE type = "init_container_crash"
    <2>1. Specificity(type) = 92
      BY <1>14, SpecificityIs
    <2>2. h.conf \in {850}
      BY <1>1, <1>2, <1>14, LikelyConfs
    <2> QED BY <1>4, <2>1, <2>2 DEF Grade
  <1>15. CASE type = "node_eviction"
    <2>1. Specificity(type) = 91
      BY <1>15, SpecificityIs
    <2>2. h.conf \in {750, 830, 900, 980}
      BY <1>1, <1>2, <1>15, LikelyConfs
    <2> QED BY <1>4, <2>1, <2>2 DEF Grade
  <1>16. CASE type = "node_not_ready"
    <2>1. Specificity(type) = 95
      BY <1>16, SpecificityIs
    <2>2. h.conf \in {750, 800, 850, 900}
      BY <1>1, <1>2, <1>16, LikelyConfs
    <2> QED BY <1>4, <2>1, <2>2 DEF Grade
  <1> QED
    BY <1>3, <1>5, <1>6, <1>7, <1>8, <1>9, <1>10, <1>11, <1>12, <1>13, <1>14, <1>15, <1>16

LEMMA GradesOrder ==
    ASSUME NEW s, NEW c, NEW t, NEW d, Grade(s, c), Grade(t, d)
    PROVE  (IF Tied(c, d) THEN s > t ELSE c > d) <=> 1000 * Level(c) + s > 1000 * Level(d) + t
  <1>1. /\ c \in {750, 800, 830, 850, 900, 980, 1000} /\ d \in {750, 800, 830, 850, 900, 980, 1000}
        /\ s \in 72..100 /\ t \in 72..100
    BY DEF Grade
  <1>2. Tied(c, d) <=> \/ c = d \/ (c = 800 /\ d = 830) \/ (c = 830 /\ d = 800) \/ (c = 830 /\ d = 850)
                       \/ (c = 850 /\ d = 830) \/ (c = 980 /\ d = 1000) \/ (c = 1000 /\ d = 980)
    BY <1>1 DEF Tied
  <1>3. /\ Level(c) = IF c = 750 THEN 1 ELSE IF c \in {800, 830} THEN 2 ELSE IF c = 850 THEN 3
                      ELSE IF c = 900 THEN 4 ELSE 5
        /\ Level(d) = IF d = 750 THEN 1 ELSE IF d \in {800, 830} THEN 2 ELSE IF d = 850 THEN 3
                      ELSE IF d = 900 THEN 4 ELSE 5
    BY <1>1 DEF Level
  <1>4. CASE Tied(c, d)
    BY <1>1, <1>2, <1>3, <1>4 DEF Grade
  <1>5. CASE ~Tied(c, d)
    BY <1>1, <1>2, <1>3, <1>5 DEF Grade
  <1> QED BY <1>4, <1>5

LEMMA KeyOrders ==
    ASSUME NEW a, NEW b, a.status = "confirmed", b.status = "confirmed",
           Grade(Specificity(a.type), a.conf), Grade(Specificity(b.type), b.conf)
    PROVE  BetterPrimary(a, b) <=> Key(a) > Key(b)
  <1>1. BetterPrimary(a, b) <=> IF Tied(a.conf, b.conf) THEN Specificity(a.type) > Specificity(b.type)
                                ELSE a.conf > b.conf
    BY DEF BetterPrimary, RankedBefore, MoreSpecific
  <1> QED BY <1>1, GradesOrder DEF Key

(* A confirmed hypothesis comes before one that is not. *)
LEMMA SureBefore ==
    ASSUME NEW a, NEW b, a.status = "confirmed", b.status # "confirmed"
    PROVE  BetterPrimary(a, b) /\ ~BetterPrimary(b, a)
  <1>1. Rank(a.status) = 3 /\ Rank(b.status) \in {0, 2}
    BY DEF Rank
  <1> QED BY <1>1 DEF BetterPrimary

-----------------------------------------------------------------------------
(* The sort of the hypotheses, and who leads. *)

(* The sort puts each hypothesis behind the last that it does not precede. *)
Behind(sorted, h) == {i \in DOMAIN sorted : ~BetterPrimary(h, sorted[i])}
Inserted(sorted, h) ==
    LET k == Max({0} \cup Behind(sorted, h))
    IN  SubSeq(sorted, 1, k) \o <<h>> \o SubSeq(sorted, k + 1, Len(sorted))

LEMMA BehindMax ==
    ASSUME NEW n \in Nat, NEW s \in SUBSET (1..n)
    PROVE  /\ Max({0} \cup s) \in 0..n
           /\ s = {} => Max({0} \cup s) = 0
           /\ 1 \in s => Max({0} \cup s) >= 1
  <1> DEFINE t == {0} \cup s
  <1>1. \E x \in t : \A y \in t : x >= y
    <2>1. CASE s = {}
      BY <2>1
    <2>2. CASE s # {}
      <3>1. Max(s) \in s /\ Max(s) \in 1..n /\ \A k \in s : k <= Max(s)
        BY <2>2, MaxIn
      <3>2. \A y \in t : Max(s) >= y
        BY <3>1
      <3> QED BY <3>1, <3>2
    <2> QED BY <2>1, <2>2
  <1>2. Max(t) \in t /\ \A y \in t : Max(t) >= y
    <2> HIDE DEF t
    <2> QED BY <1>1 DEF Max
  <1>0. t \subseteq 0..n
    OBVIOUS
  <1>3. Max(t) \in 0..n
    <2> HIDE DEF t
    <2> QED BY <1>0, <1>2
  <1>4. s = {} => Max(t) = 0
    BY <1>2
  <1>5. 1 \in s => Max(t) >= 1
    BY <1>2
  <1> QED BY <1>3, <1>4, <1>5

LEMMA InsertIs ==
    ASSUME NEW T, NEW sorted \in Seq(T), NEW h \in T
    PROVE  /\ Inserted(sorted, h) \in Seq(T) /\ Len(Inserted(sorted, h)) = Len(sorted) + 1
           /\ (\A i \in DOMAIN sorted : BetterPrimary(h, sorted[i])) => Inserted(sorted, h)[1] = h
           /\ (sorted # << >> /\ ~BetterPrimary(h, sorted[1])) => Inserted(sorted, h)[1] = sorted[1]
  <1> DEFINE n == Len(sorted)
             s == Behind(sorted, h)
             k == Max({0} \cup s)
             left == SubSeq(sorted, 1, k)
             right == SubSeq(sorted, k + 1, n)
  <1>1. n \in Nat /\ DOMAIN sorted = 1..n /\ s \in SUBSET (1..n)
    BY DEF Behind
  <1>2. k \in 0..n /\ (s = {} => k = 0) /\ (1 \in s => k >= 1)
    <2> HIDE DEF s, n
    <2> QED BY <1>1, BehindMax
  <1>3. (\A i \in DOMAIN sorted : BetterPrimary(h, sorted[i])) => k = 0
    <2> HIDE DEF k
    <2> QED BY <1>2 DEF Behind
  <1>4. (sorted # << >> /\ ~BetterPrimary(h, sorted[1])) => k >= 1
    <2>1. sorted # << >> => 1 \in DOMAIN sorted
      OBVIOUS
    <2> HIDE DEF k
    <2> QED BY <1>2, <2>1 DEF Behind
  <1> HIDE DEF k
  <1>5. left \in Seq(T) /\ Len(left) = k /\ (k >= 1 => left[1] = sorted[1])
    BY <1>1, <1>2
  <1>6. right \in Seq(T) /\ Len(right) = n - k
    <2>1. k + 1 \in 1..(Len(sorted) + 1) /\ n \in k + 1 - 1..Len(sorted)
      BY <1>1, <1>2
    <2>2. right \in Seq(T) /\ Len(right) = n - (k + 1) + 1
      <3> HIDE DEF n
      <3> QED BY <1>1, <2>1, SubSeqProperties
    <2> HIDE DEF right
    <2> QED BY <1>1, <1>2, <2>2
  <1> HIDE DEF left, right
  <1>7. left \o <<h>> \in Seq(T) /\ Len(left \o <<h>>) = k + 1
        /\ (k = 0 => (left \o <<h>>)[1] = h) /\ (k >= 1 => (left \o <<h>>)[1] = left[1])
    BY <1>2, <1>5
  <1> DEFINE front == left \o <<h>>
  <1> HIDE DEF front
  <1>8. front \o right \in Seq(T) /\ Len(front \o right) = n + 1 /\ (front \o right)[1] = front[1]
    <2>1. front \in Seq(T) /\ Len(front) = k + 1
      BY <1>7 DEF front
    <2>2. /\ front \o right \in Seq(T) /\ Len(front \o right) = (k + 1) + (n - k)
          /\ \A i \in 1..((k + 1) + (n - k)) : i <= k + 1 => (front \o right)[i] = front[i]
      <3>1. \A i \in 1..Len(front) + Len(right) :
                (front \o right)[i] = IF i <= Len(front) THEN front[i] ELSE right[i - Len(front)]
        BY <1>6, <2>1, ConcatProperties
      <3>2. front \o right \in Seq(T) /\ Len(front \o right) = Len(front) + Len(right)
        BY <1>6, <2>1, ConcatProperties
      <3> QED BY <1>6, <2>1, <3>1, <3>2
    <2>3. (k + 1) + (n - k) = n + 1 /\ 1 <= k + 1 /\ 1 \in 1..((k + 1) + (n - k))
      BY <1>1, <1>2
    <2> QED BY <2>2, <2>3
  <1>9. Inserted(sorted, h) = front \o right
    BY DEF Inserted, front, left, right, k
  <1> HIDE DEF n
  <1>10. k = 0 => (front \o right)[1] = h
    BY <1>7, <1>8 DEF front
  <1>11. k >= 1 => (front \o right)[1] = sorted[1]
    BY <1>5, <1>7, <1>8 DEF front
  <1> QED BY <1>3, <1>4, <1>8, <1>9, <1>10, <1>11 DEF n

Sorts(f, hyps) ==
    /\ f \in [0..Len(hyps) -> Seq(Range(hyps))] /\ f[0] = << >>
    /\ f[Len(hyps)] = SortBy(BetterPrimary, hyps)
    /\ \A k \in 0..(Len(hyps) - 1) : f[k + 1] = Inserted(f[k], hyps[k + 1])

LEMMA SortScan ==
    ASSUME NEW T, NEW hyps \in Seq(T)
    PROVE  \E f : Sorts(f, hyps)
<1> DEFINE s == hyps
           n == Len(s)
           S == Seq(Range(hyps))
           op(sorted, h) == Inserted(sorted, h)
           step == [p \in (1..n) \X S |-> op(p[2], s[p[1]])]
           Graph(g) == g = [x \in SUBSET (1..n) |-> IF x = {} THEN << >>
                                                   ELSE op(g[x \ {Max(x)}], s[Max(x)])]
<1>0. n \in Nat /\ << >> \in S /\ DOMAIN s = 1..n /\ \A i \in 1..n : s[i] \in Range(s)
  BY DEF Range
<1>1. step \in [(1..n) \X S -> S]
  <2>1. ASSUME NEW k \in 1..n, NEW sorted \in S PROVE op(sorted, s[k]) \in S
    BY <1>0, InsertIs
  <2> HIDE DEF S, op
  <2> QED BY <2>1
<1>2. \E g : Graph(g)
  <2>1. PICK g : Folds(g, n, S, << >>, step)
    <3> HIDE DEF n, S, step
    <3> QED BY <1>0, <1>1, FoldGraph
  <2>2. g \in [SUBSET (1..n) -> S] /\ g[{}] = << >>
    BY <2>1 DEF Folds
  <2>3. ASSUME NEW x \in SUBSET (1..n), x # {}
        PROVE  g[x] = op(g[x \ {Max(x)}], s[Max(x)])
    <3>1. Max(x) \in 1..n /\ x \ {Max(x)} \in SUBSET (1..n)
      BY <1>0, <2>3, MaxIn
    <3>2. g[x] = step[<<Max(x), g[x \ {Max(x)}]>>]
      BY <2>1, <2>3 DEF Folds
    <3>3. g[x \ {Max(x)}] \in S
      BY <2>2, <3>1
    <3> HIDE DEF S, op
    <3> QED BY <3>1, <3>2, <3>3
  <2> HIDE DEF n, S, step, op
  <2> QED BY <2>2, <2>3
<1> DEFINE iter == CHOOSE g : Graph(g)
<1>3. Graph(iter)
  <2> HIDE DEF Graph
  <2> QED BY <1>2
<1>4. SortBy(BetterPrimary, hyps) = iter[1..n]
  BY <1>0 DEF SortBy, Inserted, Behind, FoldLeft, MapThenFoldSet, iter
<1> HIDE DEF iter
<1>5. Steps(iter, n, S, << >>, step)
  <2>1. iter[{}] = << >>
    BY <1>3
  <2>2. ASSUME NEW x \in SUBSET (1..n), x # {}, iter[x \ {Max(x)}] \in S
        PROVE  iter[x] = step[<<Max(x), iter[x \ {Max(x)}]>>]
    <3>1. Max(x) \in 1..n
      BY <1>0, <2>2, MaxIn
    <3>2. iter[x] = op(iter[x \ {Max(x)}], s[Max(x)])
      <4> HIDE DEF n, S, op
      <4> QED BY <1>3, <2>2
    <3> HIDE DEF S, n, op
    <3> QED BY <2>2, <3>1, <3>2
  <2> HIDE DEF n, S, step
  <2> QED BY <2>1, <2>2 DEF Steps
<1>6. PICK f : Walks(f, iter, n, S, << >>, step)
  <2> HIDE DEF n, S, step
  <2> QED BY <1>0, <1>1, <1>5, Walked
<1>7. f \in [0..n -> S] /\ f[0] = << >> /\ f[n] = SortBy(BetterPrimary, hyps)
  <2> HIDE DEF n, S
  <2> QED BY <1>4, <1>6 DEF Walks
<1>8. ASSUME NEW k \in 0..(n - 1) PROVE f[k + 1] = op(f[k], s[k + 1])
  <2>1. k + 1 \in 1..n /\ k \in 0..n
    BY <1>0
  <2>2. f[k] \in S /\ f[k + 1] = step[<<k + 1, f[k]>>]
    <3> HIDE DEF n, S, step
    <3> QED BY <1>6, <1>7, <2>1 DEF Walks
  <2> HIDE DEF n, S, op, s
  <2> QED BY <2>1, <2>2
<1> QED BY <1>7, <1>8 DEF Sorts

Keyed(hyps) == \A i \in 1..Len(hyps) :
                   hyps[i].status = "confirmed" => Grade(Specificity(hyps[i].type), hyps[i].conf)
AnySure(hyps, k) == \E i \in 1..k : hyps[i].status = "confirmed"
(* The likeliest of the confirmed ones among the first k. *)
Leads(m, hyps, k) ==
    /\ m.status = "confirmed" /\ \E i \in 1..k : m = hyps[i]
    /\ \A i \in 1..k : hyps[i].status = "confirmed" => Key(hyps[i]) <= Key(m)

LEMMA KeyIs ==
    ASSUME NEW h, Grade(Specificity(h.type), h.conf)
    PROVE  Key(h) \in Nat /\ Level(h.conf) \in 1..5 /\ Specificity(h.type) \in 72..100
  BY DEF Grade, Key, Level

(* What happens to the leader when one more comes. *)
LEMMA Leading ==
    ASSUME NEW T, NEW hyps \in Seq(T), Keyed(hyps), NEW k \in Nat, k + 1 <= Len(hyps),
           NEW m, Leads(m, hyps, k)
    PROVE  /\ Grade(Specificity(m.type), m.conf) /\ AnySure(hyps, k) /\ AnySure(hyps, k + 1)
           /\ BetterPrimary(hyps[k + 1], m) => /\ Leads(hyps[k + 1], hyps, k + 1)
                                               /\ Key(hyps[k + 1]) > Key(m)
           /\ ~BetterPrimary(hyps[k + 1], m) => Leads(m, hyps, k + 1)
  <1> DEFINE h == hyps[k + 1]
  <1>1. PICK j \in 1..k : m = hyps[j]
    BY DEF Leads
  <1>2. j \in 1..Len(hyps) /\ k + 1 \in 1..Len(hyps) /\ Len(hyps) \in Nat
    OBVIOUS
  <1>3. m.status = "confirmed" /\ Grade(Specificity(m.type), m.conf)
    BY <1>1, <1>2 DEF Leads, Keyed
  <1>4. AnySure(hyps, k) /\ AnySure(hyps, k + 1)
    BY <1>1, <1>3 DEF AnySure
  <1>5. \A i \in 1..(k + 1) : i \in 1..k \/ i = k + 1
    OBVIOUS
  <1>6. CASE h.status # "confirmed"
    <2>1. ~BetterPrimary(h, m)
      BY <1>3, <1>6, SureBefore
    <2>2. Leads(m, hyps, k + 1)
      BY <1>1, <1>5, <1>6 DEF Leads
    <2> QED BY <1>3, <1>4, <2>1, <2>2
  <1>7. CASE h.status = "confirmed"
    <2>1. Grade(Specificity(h.type), h.conf)
      BY <1>2, <1>7 DEF Keyed
    <2>2. Key(h) \in Nat /\ Key(m) \in Nat /\ (BetterPrimary(h, m) <=> Key(h) > Key(m))
      BY <1>3, <1>7, <2>1, KeyIs, KeyOrders
    <2>3. ASSUME NEW i \in 1..k, hyps[i].status = "confirmed" PROVE Key(hyps[i]) \in Nat /\ Key(hyps[i]) <= Key(m)
      <3>1. Grade(Specificity(hyps[i].type), hyps[i].conf)
        BY <1>2, <2>3 DEF Keyed
      <3>2. Key(hyps[i]) \in Nat
        BY <3>1, KeyIs
      <3> QED BY <2>3, <3>2 DEF Leads
    <2>4. CASE Key(h) > Key(m)
      <3>1. ASSUME NEW i \in 1..(k + 1), hyps[i].status = "confirmed" PROVE Key(hyps[i]) <= Key(h)
        <4>1. CASE i \in 1..k
          <5>1. Key(hyps[i]) \in Nat /\ Key(hyps[i]) <= Key(m)
            BY <2>3, <3>1, <4>1
          <5> QED BY <2>2, <2>4, <5>1
        <4>2. CASE i = k + 1
          BY <2>2, <4>2
        <4> QED BY <1>5, <4>1, <4>2
      <3>2. k + 1 \in 1..(k + 1)
        OBVIOUS
      <3>3. Leads(h, hyps, k + 1)
        BY <1>7, <3>1, <3>2 DEF Leads
      <3> QED BY <1>3, <1>4, <2>2, <2>4, <3>3
    <2>5. CASE ~(Key(h) > Key(m))
      <3>1. ASSUME NEW i \in 1..(k + 1), hyps[i].status = "confirmed" PROVE Key(hyps[i]) <= Key(m)
        <4>1. CASE i \in 1..k
          BY <2>3, <3>1, <4>1
        <4>2. CASE i = k + 1
          BY <2>2, <2>5, <4>2
        <4> QED BY <1>5, <4>1, <4>2
      <3>2. j \in 1..(k + 1)
        OBVIOUS
      <3>3. Leads(m, hyps, k + 1)
        BY <1>1, <1>3, <3>1, <3>2 DEF Leads
      <3> QED BY <1>3, <1>4, <2>2, <2>5, <3>3
    <2> QED BY <2>4, <2>5
  <1> QED BY <1>6, <1>7

(* The first that is confirmed. *)
LEMMA FirstLeads ==
    ASSUME NEW T, NEW hyps \in Seq(T), Keyed(hyps), NEW k \in Nat, k + 1 <= Len(hyps), ~AnySure(hyps, k)
    PROVE  /\ AnySure(hyps, k + 1) <=> hyps[k + 1].status = "confirmed"
           /\ hyps[k + 1].status = "confirmed" => Leads(hyps[k + 1], hyps, k + 1)
           /\ \A i \in 1..k : hyps[i].status # "confirmed"
  <1>1. \A i \in 1..(k + 1) : i \in 1..k \/ i = k + 1
    OBVIOUS
  <1>2. k + 1 \in 1..(k + 1) /\ k + 1 \in 1..Len(hyps)
    OBVIOUS
  <1>3. \A i \in 1..k : hyps[i].status # "confirmed"
    BY DEF AnySure
  <1>4. AnySure(hyps, k + 1) <=> hyps[k + 1].status = "confirmed"
    BY <1>1, <1>2, <1>3 DEF AnySure
  <1>5. ASSUME hyps[k + 1].status = "confirmed" PROVE Leads(hyps[k + 1], hyps, k + 1)
    <2>1. Key(hyps[k + 1]) \in Nat
      BY <1>2, <1>5, KeyIs DEF Keyed
    <2>2. ASSUME NEW i \in 1..(k + 1), hyps[i].status = "confirmed" PROVE Key(hyps[i]) <= Key(hyps[k + 1])
      <3>1. i = k + 1
        BY <1>1, <1>3, <2>2
      <3> QED BY <2>1, <3>1
    <2> QED BY <1>2, <1>5, <2>2 DEF Leads
  <1> QED BY <1>3, <1>4, <1>5

LEMMA ScanLeads ==
    ASSUME NEW T, NEW hyps \in Seq(T), Keyed(hyps), AnySure(hyps, Len(hyps))
    PROVE  \E m : SelectPrimary(hyps) = <<m>> /\ Leads(m, hyps, Len(hyps))
  <1> DEFINE n == Len(hyps)
  <1>0. n \in Nat /\ \A i \in 1..n : <<hyps[i]>> \in Picked(hyps)
    BY DEF Picked, Range
  <1>1. PICK f : Picks(f, hyps)
    BY PrimaryScan
  <1> DEFINE Led(k) == \E m : f[k] = <<m>> /\ Leads(m, hyps, k)
             Free(k) == f[k] = << >> \/ (f[k] = <<f[k][1]>> /\ f[k][1].status # "confirmed")
             U == {k \in Nat : k <= n => IF AnySure(hyps, k) THEN Led(k) ELSE Free(k)}
  <1>2. 0 \in U
    <2>1. f[0] = << >> /\ ~AnySure(hyps, 0)
      BY <1>1 DEF Picks, AnySure
    <2> QED BY <2>1
  <1>3. ASSUME NEW k \in Nat, k \in U PROVE k + 1 \in U
    <2> SUFFICES ASSUME k + 1 <= n PROVE IF AnySure(hyps, k + 1) THEN Led(k + 1) ELSE Free(k + 1)
      OBVIOUS
    <2> DEFINE h == hyps[k + 1]
    <2>1. f[k + 1] = Pick(f[k], h)
      BY <1>0, <1>1 DEF Picks
    <2>2. IF AnySure(hyps, k) THEN Led(k) ELSE Free(k)
      BY <1>0, <1>3
    <2>3. CASE AnySure(hyps, k)
      <3>1. PICK m : f[k] = <<m>> /\ Leads(m, hyps, k)
        BY <2>2, <2>3
      <3>2. f[k][1] = m /\ f[k] # << >>
        BY <3>1
      <3>3. /\ m.status = "confirmed" /\ AnySure(hyps, k + 1)
            /\ BetterPrimary(h, m) => Leads(h, hyps, k + 1)
            /\ ~BetterPrimary(h, m) => Leads(m, hyps, k + 1)
        BY <3>1, Leading DEF Leads
      <3>4. h.status = "rejected" => ~BetterPrimary(h, m)
        BY <3>3, SureBefore
      <3>5. f[k + 1] = IF BetterPrimary(h, m) THEN <<h>> ELSE <<m>>
        BY <2>1, <3>1, <3>2, <3>4 DEF Pick
      <3> QED BY <3>3, <3>5
    <2>4. CASE ~AnySure(hyps, k)
      <3>1. Free(k)
        BY <2>2, <2>4
      <3>2. /\ AnySure(hyps, k + 1) <=> h.status = "confirmed"
            /\ h.status = "confirmed" => Leads(h, hyps, k + 1)
        BY <2>4, FirstLeads
      <3>3. CASE h.status = "confirmed"
        <4>1. f[k] # << >> => BetterPrimary(h, f[k][1])
          BY <3>1, <3>3, SureBefore
        <4>2. f[k + 1] = <<h>>
          BY <2>1, <3>3, <4>1 DEF Pick
        <4> QED BY <3>2, <3>3, <4>2
      <3>4. CASE h.status # "confirmed"
        <4>1. f[k + 1] = f[k] \/ f[k + 1] = <<h>>
          BY <2>1 DEF Pick
        <4>2. Free(k + 1)
          BY <3>1, <3>4, <4>1
        <4> QED BY <3>2, <3>4, <4>2
      <3> QED BY <3>3, <3>4
    <2> QED BY <2>3, <2>4
  <1>4. n \in U
    <2> HIDE DEF U, n
    <2> QED BY <1>0, <1>2, <1>3, Induction
  <1>5. Led(n)
    BY <1>0, <1>4
  <1> QED BY <1>1, <1>5 DEF Picks

LEMMA SortLeads ==
    ASSUME NEW T, NEW hyps \in Seq(T), Keyed(hyps), AnySure(hyps, Len(hyps))
    PROVE  /\ SortBy(BetterPrimary, hyps) \in Seq(T) /\ SortBy(BetterPrimary, hyps) # << >>
           /\ Leads(SortBy(BetterPrimary, hyps)[1], hyps, Len(hyps))
  <1> DEFINE n == Len(hyps)
  <1>0. n \in Nat /\ DOMAIN hyps = 1..n /\ \A i \in 1..n : hyps[i] \in T
    OBVIOUS
  <1>1. PICK f : Sorts(f, hyps)
    BY SortScan
  <1> DEFINE Taken(k) == {hyps[i] : i \in 1..k}
             U == {k \in Nat : k <= n => /\ f[k] \in Seq(Taken(k))
                                         /\ AnySure(hyps, k) => f[k] # << >> /\ Leads(f[k][1], hyps, k)}
  <1>2. 0 \in U
    <2>1. f[0] = << >> /\ ~AnySure(hyps, 0)
      BY <1>1 DEF Sorts, AnySure
    <2>2. f[0] \in Seq(Taken(0))
      BY <2>1
    <2> QED BY <2>1, <2>2
  <1>3. ASSUME NEW k \in Nat, k \in U PROVE k + 1 \in U
    <2> SUFFICES ASSUME k + 1 <= n
                 PROVE  /\ f[k + 1] \in Seq(Taken(k + 1))
                        /\ AnySure(hyps, k + 1) => f[k + 1] # << >> /\ Leads(f[k + 1][1], hyps, k + 1)
      OBVIOUS
    <2> DEFINE h == hyps[k + 1]
               s == f[k]
    <2>1. f[k + 1] = Inserted(s, h)
      BY <1>0, <1>1 DEF Sorts
    <2>2. s \in Seq(Taken(k)) /\ (AnySure(hyps, k) => s # << >> /\ Leads(s[1], hyps, k))
      BY <1>0, <1>3
    <2>3. Taken(k) \subseteq Taken(k + 1) /\ h \in Taken(k + 1)
      OBVIOUS
    <2>4. s \in Seq(Taken(k + 1)) /\ \A i \in DOMAIN s : \E j \in 1..k : s[i] = hyps[j]
      <3> HIDE DEF s
      <3>1. \A i \in DOMAIN s : s[i] \in Taken(k)
        BY <2>2
      <3>2. s \in Seq(Taken(k + 1))
        <4> HIDE DEF Taken
        <4> QED BY <2>2, <2>3
      <3> QED BY <3>1, <3>2
    <2> HIDE DEF Taken, s
    <2>5. /\ Inserted(s, h) \in Seq(Taken(k + 1)) /\ Len(Inserted(s, h)) = Len(s) + 1
          /\ (\A i \in DOMAIN s : BetterPrimary(h, s[i])) => Inserted(s, h)[1] = h
          /\ (s # << >> /\ ~BetterPrimary(h, s[1])) => Inserted(s, h)[1] = s[1]
      BY <2>3, <2>4, InsertIs
    <2>6. Inserted(s, h) # << >>
      BY <2>4, <2>5
    <2>7. ASSUME AnySure(hyps, k + 1) PROVE Leads(Inserted(s, h)[1], hyps, k + 1)
      <3>1. CASE AnySure(hyps, k)
        <4>1. s # << >> /\ Leads(s[1], hyps, k)
          BY <2>2, <3>1
        <4>2. /\ Grade(Specificity(s[1].type), s[1].conf)
              /\ BetterPrimary(h, s[1]) => Leads(h, hyps, k + 1) /\ Key(h) > Key(s[1])
              /\ ~BetterPrimary(h, s[1]) => Leads(s[1], hyps, k + 1)
          BY <4>1, Leading
        <4>3. CASE ~BetterPrimary(h, s[1])
          BY <2>5, <4>1, <4>2, <4>3
        <4>4. CASE BetterPrimary(h, s[1])
          <5>1. h.status = "confirmed"
            BY <4>2, <4>4 DEF Leads
          <5>2. k + 1 \in 1..Len(hyps)
            OBVIOUS
          <5>3. Grade(Specificity(h.type), h.conf)
            BY <5>1, <5>2 DEF Keyed
          <5>4. ASSUME NEW i \in DOMAIN s PROVE BetterPrimary(h, s[i])
            <6>1. PICK j \in 1..k : s[i] = hyps[j]
              BY <2>4
            <6>2. CASE s[i].status = "confirmed"
              <7>1. j \in 1..Len(hyps)
                OBVIOUS
              <7>2. Grade(Specificity(s[i].type), s[i].conf)
                BY <6>1, <6>2, <7>1 DEF Keyed
              <7>3. Key(s[i]) <= Key(s[1])
                BY <4>1, <6>1, <6>2 DEF Leads
              <7>4. Key(s[i]) \in Nat /\ Key(s[1]) \in Nat /\ Key(h) \in Nat
                BY <4>2, <5>3, <7>2, KeyIs
              <7>5. Key(h) > Key(s[i])
                BY <4>2, <4>4, <7>3, <7>4
              <7> QED BY <5>1, <5>3, <6>2, <7>2, <7>5, KeyOrders
            <6>3. CASE s[i].status # "confirmed"
              BY <5>1, <6>3, SureBefore
            <6> QED BY <6>2, <6>3
          <5> QED BY <2>5, <4>2, <4>4, <5>4
        <4> QED BY <4>3, <4>4
      <3>2. CASE ~AnySure(hyps, k)
        <4>1. /\ h.status = "confirmed" /\ Leads(h, hyps, k + 1)
              /\ \A i \in 1..k : hyps[i].status # "confirmed"
          BY <2>7, <3>2, FirstLeads
        <4>2. \A i \in DOMAIN s : BetterPrimary(h, s[i])
          BY <2>4, <4>1, SureBefore
        <4> QED BY <2>5, <4>1, <4>2
      <3> QED BY <3>1, <3>2
    <2> QED BY <2>1, <2>5, <2>6, <2>7
  <1>4. n \in U
    <2> HIDE DEF U, n
    <2> QED BY <1>0, <1>2, <1>3, Induction
  <1>5. f[n] \in Seq(Taken(n)) /\ f[n] # << >> /\ Leads(f[n][1], hyps, n)
    BY <1>0, <1>4
  <1>6. Taken(n) \subseteq T
    BY <1>0
  <1>7. f[n] \in Seq(T)
    <2> HIDE DEF Taken
    <2> QED BY <1>5, <1>6
  <1> QED BY <1>1, <1>5, <1>7 DEF Sorts

-----------------------------------------------------------------------------
(* What is said of scheduling. *)

(* What only the scheduler says. *)
Loud == {"failedscheduling", "taint", "selector"}
Quiet(r) == Words(r) \cap Loud = {}
Hush(ev) == \A r \in ev : Quiet(r)
NoSchedule(p) == \A e \in Events(p) : e.title # "FailedScheduling"

Sane(p) ==
    /\ p.events \subseteq DOMAIN EventOf /\ p.logs \subseteq DOMAIN LineWords
    /\ p.config \in {"none", "present", "object_missing", "key_missing", "content_empty"}
    /\ p.runbook \subseteq {"init", "pvc", "evict"}

LEMMA TitlesAreQuiet ==
    \A t \in {"BackOff", "Failed", "Unhealthy", "OOMKilling", "Killing", "Evicted", "NodeNotReady", "PVC", "NoMatch",
              "Topology", "Correlation", "Trend", "PodLoaded", "Logs", "ConfigMapRef", "QueryRange", "Runbook",
              "Integrity", "NoRemediation"} : TitleWords[t] \cap Loud = {}
  <1>1. TitleWords["BackOff"] = {"backoff"}
    BY DEF TitleWords
  <1>2. TitleWords["Failed"] = {"failed"}
    BY DEF TitleWords
  <1>3. TitleWords["Unhealthy"] = {"unhealthy"}
    BY DEF TitleWords
  <1>4. TitleWords["OOMKilling"] = {"oom"}
    BY DEF TitleWords
  <1>5. TitleWords["Killing"] = {}
    BY DEF TitleWords
  <1>6. TitleWords["Evicted"] = {"evict"}
    BY DEF TitleWords
  <1>7. TitleWords["NodeNotReady"] = {"notready", "node"}
    BY DEF TitleWords
  <1>8. TitleWords["PVC"] = {"pvc"}
    BY DEF TitleWords
  <1>9. TitleWords["NoMatch"] = {}
    BY DEF TitleWords
  <1>10. TitleWords["Topology"] = {}
    BY DEF TitleWords
  <1>11. TitleWords["Correlation"] = {}
    BY DEF TitleWords
  <1>12. TitleWords["Trend"] = {}
    BY DEF TitleWords
  <1>13. TitleWords["PodLoaded"] = {}
    BY DEF TitleWords
  <1>14. TitleWords["Logs"] = {}
    BY DEF TitleWords
  <1>15. TitleWords["ConfigMapRef"] = {"configmap"}
    BY DEF TitleWords
  <1>16. TitleWords["QueryRange"] = {}
    BY DEF TitleWords
  <1>17. TitleWords["Runbook"] = {}
    BY DEF TitleWords
  <1>18. TitleWords["Integrity"] = {}
    BY DEF TitleWords
  <1>19. TitleWords["NoRemediation"] = {}
    BY DEF TitleWords
  <1> QED
    BY <1>1, <1>2, <1>3, <1>4, <1>5, <1>6, <1>7, <1>8, <1>9, <1>10,
       <1>11, <1>12, <1>13, <1>14, <1>15, <1>16, <1>17, <1>18, <1>19 DEF Loud

LEMMA QuietIs ==
    ASSUME NEW src, NEW title, NEW says, NEW sev, TitleWords[title] \cap Loud = {}, says \cap Loud = {}
    PROVE  Quiet(Record(src, title, says, sev))
  <1>1. SourceWords(src) \cap Loud = {}
    BY DEF SourceWords, Loud
  <1> QED BY <1>1 DEF Quiet, Words, Record

LEMMA EventsAreQuiet ==
    ASSUME NEW k \in DOMAIN EventOf, EventOf[k].title # "FailedScheduling", NEW sev
    PROVE  Quiet(Record("k8s_event", EventOf[k].title, EventOf[k].says, sev))
  <1>1. k \in {"NoCpu", "NoVolume", "Tainted", "BackOff", "PullBackOff", "NoManifest", "PullDenied", "NoConfigMap",
               "Liveness", "Readiness", "OOMKilling", "OOMReported", "Evicting", "NodeGone"}
    BY DEF EventOf
  <1>2. CASE k = "NoCpu"
    <2>1. EventOf["NoCpu"].title = "FailedScheduling"
      BY DEF EventOf, Message
    <2> QED BY <1>2, <2>1
  <1>3. CASE k = "NoVolume"
    <2>1. EventOf["NoVolume"].title = "FailedScheduling"
      BY DEF EventOf, Message
    <2> QED BY <1>3, <2>1
  <1>4. CASE k = "Tainted"
    <2>1. EventOf["Tainted"].title = "FailedScheduling"
      BY DEF EventOf, Message
    <2> QED BY <1>4, <2>1
  <1>5. CASE k = "BackOff"
    <2>1. EventOf["BackOff"].title = "BackOff" /\ EventOf["BackOff"].says = {"back-off restarting", "failed"}
      BY DEF EventOf, Message
    <2>2. {"back-off restarting", "failed"} \cap Loud = {}
      BY DEF Loud
    <2> QED BY <1>5, <2>1, <2>2, TitlesAreQuiet, QuietIs
  <1>6. CASE k = "PullBackOff"
    <2>1. EventOf["PullBackOff"].title = "Failed" /\ EventOf["PullBackOff"].says = {"error", "imagepull", "backoff"}
      BY DEF EventOf, Message
    <2>2. {"error", "imagepull", "backoff"} \cap Loud = {}
      BY DEF Loud
    <2> QED BY <1>6, <2>1, <2>2, TitlesAreQuiet, QuietIs
  <1>7. CASE k = "NoManifest"
    <2>1. /\ EventOf["NoManifest"].title = "Failed"
          /\ EventOf["NoManifest"].says = {"failed", "failed to pull image", "manifest", "not found"}
      BY DEF EventOf, Message
    <2>2. {"failed", "failed to pull image", "manifest", "not found"} \cap Loud = {}
      BY DEF Loud
    <2> QED BY <1>7, <2>1, <2>2, TitlesAreQuiet, QuietIs
  <1>8. CASE k = "PullDenied"
    <2>1. /\ EventOf["PullDenied"].title = "Failed"
          /\ EventOf["PullDenied"].says = {"failed", "failed to pull image", "auth"}
      BY DEF EventOf, Message
    <2>2. {"failed", "failed to pull image", "auth"} \cap Loud = {}
      BY DEF Loud
    <2> QED BY <1>8, <2>1, <2>2, TitlesAreQuiet, QuietIs
  <1>9. CASE k = "NoConfigMap"
    <2>1. /\ EventOf["NoConfigMap"].title = "Failed"
          /\ EventOf["NoConfigMap"].says = {"error", "config", "configmap", "not found"}
      BY DEF EventOf, Message
    <2>2. {"error", "config", "configmap", "not found"} \cap Loud = {}
      BY DEF Loud
    <2> QED BY <1>9, <2>1, <2>2, TitlesAreQuiet, QuietIs
  <1>10. CASE k = "Liveness"
    <2>1. /\ EventOf["Liveness"].title = "Unhealthy"
          /\ EventOf["Liveness"].says = {"probe", "failed", "liveness", "refused", "dial tcp"}
      BY DEF EventOf, Message
    <2>2. {"probe", "failed", "liveness", "refused", "dial tcp"} \cap Loud = {}
      BY DEF Loud
    <2> QED BY <1>10, <2>1, <2>2, TitlesAreQuiet, QuietIs
  <1>11. CASE k = "Readiness"
    <2>1. EventOf["Readiness"].title = "Unhealthy" /\ EventOf["Readiness"].says = {"probe", "failed", "readiness", "404"}
      BY DEF EventOf, Message
    <2>2. {"probe", "failed", "readiness", "404"} \cap Loud = {}
      BY DEF Loud
    <2> QED BY <1>11, <2>1, <2>2, TitlesAreQuiet, QuietIs
  <1>12. CASE k = "OOMKilling"
    <2>1. EventOf["OOMKilling"].title = "OOMKilling" /\ EventOf["OOMKilling"].says = {}
      BY DEF EventOf, Message
    <2>2. {} \cap Loud = {}
      BY DEF Loud
    <2> QED BY <1>12, <2>1, <2>2, TitlesAreQuiet, QuietIs
  <1>13. CASE k = "OOMReported"
    <2>1. EventOf["OOMReported"].title = "Killing" /\ EventOf["OOMReported"].says = {"oom", "oomkilled"}
      BY DEF EventOf, Message
    <2>2. {"oom", "oomkilled"} \cap Loud = {}
      BY DEF Loud
    <2> QED BY <1>13, <2>1, <2>2, TitlesAreQuiet, QuietIs
  <1>14. CASE k = "Evicting"
    <2>1. EventOf["Evicting"].title = "Evicted" /\ EventOf["Evicting"].says = {"node", "ephemeral"}
      BY DEF EventOf, Message
    <2>2. {"node", "ephemeral"} \cap Loud = {}
      BY DEF Loud
    <2> QED BY <1>14, <2>1, <2>2, TitlesAreQuiet, QuietIs
  <1>15. CASE k = "NodeGone"
    <2>1. EventOf["NodeGone"].title = "NodeNotReady" /\ EventOf["NodeGone"].says = {}
      BY DEF EventOf, Message
    <2>2. {} \cap Loud = {}
      BY DEF Loud
    <2> QED BY <1>15, <2>1, <2>2, TitlesAreQuiet, QuietIs
  <1> QED
    BY <1>1, <1>2, <1>3, <1>4, <1>5, <1>6, <1>7, <1>8, <1>9, <1>10,
       <1>11, <1>12, <1>13, <1>14, <1>15

LEMMA LinesAreQuiet ==
    ASSUME NEW p, Sane(p)
    PROVE  LogWords(p) \cap Loud = {}
  <1>1. \A l \in DOMAIN LineWords : LineWords[l] \cap Loud = {}
    BY DEF LineWords, Loud
  <1> QED BY <1>1 DEF LogWords, Sane

LEMMA ToolsAreQuiet ==
    ASSUME NEW tool \in Tools, NEW p, Sane(p), NoSchedule(p)
    PROVE  Hush(ToolRecords(tool, p))
  <1>1. CASE tool = "k8s.get_pod"
    <2>1. ToolRecords(tool, p) = {Record("k8s_pod", "PodLoaded", {}, "info")}
      BY <1>1 DEF ToolRecords
    <2> QED BY <2>1, TitlesAreQuiet, QuietIs DEF Hush
  <1>2. CASE tool = "k8s.get_events"
    <2>1. ToolRecords(tool, p) = EventRecords(Events(p), "info")
      BY <1>2 DEF ToolRecords
    <2>2. ASSUME NEW r \in EventRecords(Events(p), "info") PROVE Quiet(r)
      <3>1. PICK k \in p.events : r = Record("k8s_event", EventOf[k].title, EventOf[k].says, "info")
        BY <2>2 DEF EventRecords, Events
      <3>2. k \in DOMAIN EventOf /\ EventOf[k].title # "FailedScheduling"
        BY DEF Sane, NoSchedule, Events
      <3> QED BY <3>1, <3>2, EventsAreQuiet
    <2> QED BY <2>1, <2>2 DEF Hush
  <1>3. CASE tool = "k8s.get_logs"
    <2>1. ToolRecords(tool, p) = IF p.logs = {} THEN {} ELSE {Record("k8s_log", "Logs", LogWords(p), "info")}
      BY <1>3 DEF ToolRecords
    <2> QED BY <2>1, LinesAreQuiet, TitlesAreQuiet, QuietIs DEF Hush
  <1>4. CASE tool = "k8s.get_pvc"
    <2>1. ToolRecords(tool, p) = PVCRecord(p, "warning")
      BY <1>4 DEF ToolRecords
    <2>2. ASSUME NEW r \in PVCRecord(p, "warning") PROVE Quiet(r)
      <3>1. PICK says \in {{"bound"}, {"phase=pending"}}, sev \in {"info", "warning"} :
                 r = Record("k8s_pvc", "PVC", says, sev)
        BY <2>2 DEF PVCRecord
      <3>2. says \cap Loud = {}
        BY DEF Loud
      <3> QED BY <3>1, <3>2, TitlesAreQuiet, QuietIs
    <2> QED BY <2>1, <2>2 DEF Hush
  <1>5. CASE tool = "k8s.get_topology"
    BY <1>5 DEF ToolRecords, Hush
  <1>6. CASE tool = "k8s.get_config_refs"
    <2>1. \A r \in ToolRecords(tool, p) : \E says, sev : /\ r = Record("k8s_config_ref", "ConfigMapRef", says, sev)
                                                         /\ says \subseteq {"config", p.config}
      BY <1>6 DEF ToolRecords
    <2>2. {"config", p.config} \cap Loud = {}
      BY DEF Sane, Loud
    <2>3. ASSUME NEW r \in ToolRecords(tool, p) PROVE Quiet(r)
      <3>1. PICK says, sev : /\ r = Record("k8s_config_ref", "ConfigMapRef", says, sev)
                             /\ says \subseteq {"config", p.config}
        BY <2>1
      <3>2. says \cap Loud = {}
        BY <2>2, <3>1
      <3> QED BY <3>1, <3>2, TitlesAreQuiet, QuietIs
    <2> QED BY <2>3 DEF Hush
  <1>7. CASE tool = "prometheus.query_range"
    <2>1. ToolRecords(tool, p) \subseteq {Record("prometheus", "QueryRange", {}, "info")}
      BY <1>7 DEF ToolRecords
    <2> QED BY <2>1, TitlesAreQuiet, QuietIs DEF Hush
  <1>8. CASE tool = "runbook.search"
    <2>1. ToolRecords(tool, p) \subseteq {Record("runbook", "Runbook", p.runbook, "info")}
      BY <1>8 DEF ToolRecords
    <2>2. p.runbook \cap Loud = {}
      BY DEF Sane, Loud
    <2> QED BY <2>1, <2>2, TitlesAreQuiet, QuietIs DEF Hush
  <1> QED BY <1>1, <1>2, <1>3, <1>4, <1>5, <1>6, <1>7, <1>8 DEF Tools

LEMMA EngineIsQuiet ==
    ASSUME NEW p
    PROVE  Hush(NoResultReport(p).ev)
  <1>1. NoResultReport(p).ev = {Record("diagnostic_engine", "NoMatch", {}, "info")} \cup Enrichment(p)
    BY DEF NoResultReport
  <1>2. Quiet(Record("diagnostic_engine", "NoMatch", {}, "info"))
    BY TitlesAreQuiet, QuietIs
  <1>3. ASSUME NEW r \in Enrichment(p) PROVE Quiet(r)
    <2> DEFINE says0 == IF ~HasNode(p) THEN {}
                        ELSE Conditions(p) \cup {"networkunavailable"}
                             \cup (IF "notready" \in p.node THEN {"nodeready=false"} ELSE {})
               sev0 == IF p.node \cap {"memory", "disk", "pid", "network"} # {} THEN "warning" ELSE "info"
               trends == CASE p.trend = "none" -> {}
                           [] p.trend = "memory spike" -> {Record("prometheus_trend", "Trend", {}, "warning")}
                           [] OTHER -> {Record("prometheus_trend", "Trend", {"progressive_growth"}, "warning")}
    <2>5. Enrichment(p) = (IF p.topology THEN {Record("k8s_topology", "Topology", says0, sev0)} ELSE {})
                          \cup {Record("correlation_evidence", "Correlation", {}, "info")} \cup trends
      BY Zenon DEF Enrichment
    <2>6. trends \in {{}, {Record("prometheus_trend", "Trend", {}, "warning")},
                      {Record("prometheus_trend", "Trend", {"progressive_growth"}, "warning")}}
      OBVIOUS
    <2>7. says0 \subseteq Conditions(p) \cup {"networkunavailable", "nodeready=false"}
      OBVIOUS
    <2> HIDE DEF trends, says0, sev0
    <2>1. \/ \E says, sev : /\ r = Record("k8s_topology", "Topology", says, sev)
                            /\ says \subseteq Conditions(p) \cup {"networkunavailable", "nodeready=false"}
          \/ r = Record("correlation_evidence", "Correlation", {}, "info")
          \/ \E says \in {{}, {"progressive_growth"}} : r = Record("prometheus_trend", "Trend", says, "warning")
      <3>1. \/ r = Record("k8s_topology", "Topology", says0, sev0)
            \/ r = Record("correlation_evidence", "Correlation", {}, "info")
            \/ r = Record("prometheus_trend", "Trend", {}, "warning")
            \/ r = Record("prometheus_trend", "Trend", {"progressive_growth"}, "warning")
        BY <1>3, <2>5, <2>6
      <3> QED BY <2>7, <3>1
    <2>2. CASE \E says, sev : /\ r = Record("k8s_topology", "Topology", says, sev)
                              /\ says \subseteq Conditions(p) \cup {"networkunavailable", "nodeready=false"}
      <3>1. (Conditions(p) \cup {"networkunavailable", "nodeready=false"}) \cap Loud = {}
        BY DEF Conditions, Loud
      <3>2. PICK says, sev : /\ r = Record("k8s_topology", "Topology", says, sev)
                             /\ says \subseteq Conditions(p) \cup {"networkunavailable", "nodeready=false"}
        BY <2>2
      <3>3. says \cap Loud = {}
        BY <3>1, <3>2
      <3> QED BY <3>2, <3>3, TitlesAreQuiet, QuietIs
    <2>3. CASE r = Record("correlation_evidence", "Correlation", {}, "info")
      BY <2>3, TitlesAreQuiet, QuietIs
    <2>4. CASE \E says \in {{}, {"progressive_growth"}} : r = Record("prometheus_trend", "Trend", says, "warning")
      <3>1. PICK says \in {{}, {"progressive_growth"}} : r = Record("prometheus_trend", "Trend", says, "warning")
        BY <2>4
      <3>2. says \cap Loud = {}
        BY DEF Loud
      <3> QED BY <3>1, <3>2, TitlesAreQuiet, QuietIs
    <2> QED BY <2>1, <2>2, <2>3, <2>4
  <1> QED BY <1>1, <1>2, <1>3 DEF Hush

LEMMA IntegrityIsQuiet ==
    ASSUME NEW hyps, NEW ev
    PROVE  Hush(IntegrityRecords(hyps, ev))
  <1>1. ASSUME NEW h PROVE GapWords(h) \cap Loud = {}
    BY DEF GapWords, Loud
  <1> DEFINE named == Gaps(hyps, ev) \cup Mentioned(hyps)
             words == UNION {GapWords(h) : h \in named}
  <1>2. words \cap Loud = {}
    <2> HIDE DEF named
    <2> QED BY <1>1
  <1>3. \A r \in IntegrityRecords(hyps, ev) : \E says :
           says \subseteq words /\ r = Record("agent", "Integrity", says, "warning")
    BY DEF IntegrityRecords
  <1>4. ASSUME NEW r \in IntegrityRecords(hyps, ev) PROVE Quiet(r)
    <2>1. PICK says : says \subseteq words /\ r = Record("agent", "Integrity", says, "warning")
      BY <1>3
    <2> HIDE DEF words
    <2>2. says \cap Loud = {}
      BY <1>2, <2>1
    <2> QED BY <2>1, <2>2, TitlesAreQuiet, QuietIs
  <1> QED BY <1>4 DEF Hush

-----------------------------------------------------------------------------
(* The primary of the scores. *)

(* Without a word of the scheduler the hypothesis about scheduling is not confirmed. *)
LEMMA QuietScheduling ==
    ASSUME NEW p, NEW ev, Hush(ev)
    PROVE  KeywordScores(p, ev)[9].status # "confirmed"
  <1> DEFINE h == KeywordScores(p, ev)[9]
             a == Mentions(p, ev, {"failedscheduling", "taint", "selector"})
             b == Mentions(p, ev, {"insufficient"})
             parts == << <<a, 45>>, <<b, 10>> >>
  <1>1. a = {}
    <2>1. \A r \in Live(ev) : Words(r) \cap {"failedscheduling", "taint", "selector"} = {}
      BY DEF Hush, Quiet, Loud, Live
    <2>2. ContextRefs(p, {"failedscheduling", "taint", "selector"}) = {}
      BY DEF ContextRefs
    <2> QED BY <2>1, <2>2 DEF Mentions
  <1>2. PICK missing : h = Hypothesis("scheduling_constraint", parts, missing)
    <2>1. IsAbout(h, Types[9], p, ev)
      BY KeywordsAre
    <2>2. Types[9] = "scheduling_constraint"
      BY DEF Types
    <2>3. PartsOf("scheduling_constraint", p, ev) = parts
      BY DEF PartsOf
    <2> QED BY <2>1, <2>2, <2>3 DEF IsAbout
  <1>3. parts[1][1] = {} /\ Len(parts) = 2 /\ IsParts(parts) /\ parts[2][2] = 10
    BY <1>1 DEF IsParts
  <1> HIDE DEF h, parts
  <1>4. Weight(parts) = 300 + Share(parts[1]) + Share(parts[2])
    BY <1>3, WeightIs
  <1>5. Share(parts[1]) = 0 /\ Share(parts[2]) \in {0, 100}
    BY <1>3 DEF Share
  <1>6. Weight(parts) <= 400 /\ Weight(parts) \in Nat
    BY <1>4, <1>5
  <1>7. ASSUME h.status = "confirmed" PROVE FALSE
    <2>1. h.conf >= 750 /\ h.conf = IF Weight(parts) <= 1000 THEN Weight(parts) ELSE 1000
      BY <1>2, <1>3, <1>7, SureIs
    <2> QED BY <1>6, <2>1
  <1> QED BY <1>7 DEF h

LEMMA KeywordsAreKeyed ==
    ASSUME NEW p, NEW ev, Hush(ev)
    PROVE  Keyed(KeywordScores(p, ev))
  <1> DEFINE u == KeywordScores(p, ev)
  <1>1. Len(u) = 13
    BY KeywordsAre
  <1>2. \A i \in 1..13 : i # 9 /\ u[i].status = "confirmed" => Grade(Specificity(u[i].type), u[i].conf)
    BY Graded
  <1>3. u[9].status # "confirmed"
    BY QuietScheduling
  <1> HIDE DEF u
  <1>4. Keyed(u)
    BY <1>1, <1>2, <1>3 DEF Keyed
  <1> QED BY <1>4 DEF u

(* No two of the types are as specific as each other. *)
LEMMA TypesApart ==
    ASSUME NEW s \in Range(Types), NEW t \in Range(Types), Specificity(s) = Specificity(t)
    PROVE  s = t
  <1>1. \A x \in Range(Types) : x \in {"memory_limit_too_low", "application_memory_leak", "node_memory_pressure",
           "bad_config", "missing_secret_or_configmap", "dependency_unavailable", "probe_misconfigured", "pvc_unbound",
           "scheduling_constraint", "image_pull_failed", "init_container_crash", "node_eviction", "node_not_ready"}
    BY DEF Types, Range
  <1>2. /\ Specificity("scheduling_constraint") = 88 /\ Specificity("dependency_unavailable") = 82
        /\ Specificity("node_memory_pressure") = 50
    BY DEF Specificity
  <1> DEFINE N(x) == Specificity(x)
  <1>3. /\ N("pvc_unbound") = 100 /\ N("missing_secret_or_configmap") = 98 /\ N("memory_limit_too_low") = 96
        /\ N("node_not_ready") = 95 /\ N("image_pull_failed") = 93 /\ N("init_container_crash") = 92
        /\ N("node_eviction") = 91 /\ N("probe_misconfigured") = 90 /\ N("application_memory_leak") = 80
        /\ N("bad_config") = 72
    BY SpecificityIs
  <1> QED BY <1>1, <1>2, <1>3

LEMMA Digits ==
    ASSUME NEW a, a \in 72..100, NEW b, b \in 72..100, NEW k, k \in 1..5, NEW l, l \in 1..5,
           NEW x, NEW y, x = 1000 * k + a, y = 1000 * l + b, x = y
    PROVE  a = b
  <1>1. k = l
    OBVIOUS
  <1> QED BY <1>1

(* The head of the sorted list and the one the scan chooses are of one type when one of     *)
(* them is confirmed.                                                                       *)
LEMMA PrimariesAgree ==
    ASSUME NEW p, NEW ev, Hush(ev), NEW u, u = KeywordScores(p, ev),
           SelectPrimary(u) # << >>, SelectPrimary(u)[1].status = "confirmed"
    PROVE  LET sorted == SortBy(BetterPrimary, u)
               left == {i \in DOMAIN sorted : sorted[i].status # "rejected"}
           IN  left # {} /\ sorted[Min(left)].type = SelectPrimary(u)[1].type
  <1> DEFINE sorted == SortBy(BetterPrimary, u)
             left == {i \in DOMAIN sorted : sorted[i].status # "rejected"}
             best == SelectPrimary(u)[1]
  <1>1. u \in Seq(Range(u)) /\ Len(u) = 13 /\ Keyed(u) /\ best \in Range(u)
    <2>1. u = Update(p, ev, NoAnswer)
      BY NobodyAnswers
    <2>2. best \in Range(u)
      BY <2>1, PrimaryAmong
    <2> QED BY <2>2, KeywordsAre, KeywordsAreKeyed
  <1>2. \A i \in 1..13 : u[i].status = "confirmed" => u[i].type \in Range(Types)
    <2>1. \A i \in 1..13 : Types[i] \in Range(Types)
      BY DEF Types, Range
    <2>2. \A i \in 1..13 : u[i].type = Types[i]
      <3> SUFFICES ASSUME NEW i \in 1..13 PROVE u[i].type = Types[i]
        OBVIOUS
      <3>1. IsAbout(u[i], Types[i], p, ev)
        BY KeywordsAre
      <3>2. PICK missing : u[i] = Hypothesis(Types[i], PartsOf(Types[i], p, ev), missing)
        BY <3>1 DEF IsAbout
      <3> QED BY <3>2 DEF Hypothesis
    <2> QED BY <2>1, <2>2
  <1>3. AnySure(u, Len(u))
    <2>1. PICK i \in 1..13 : best = u[i]
      BY <1>1 DEF Range
    <2> QED BY <1>1, <2>1 DEF AnySure
  <1>4. PICK m : SelectPrimary(u) = <<m>> /\ Leads(m, u, Len(u))
    BY <1>1, <1>3, ScanLeads
  <1>5. sorted \in Seq(Range(u)) /\ sorted # << >> /\ Leads(sorted[1], u, Len(u))
    BY <1>1, <1>3, SortLeads
  <1>6. best = m
    BY <1>4
  <1> HIDE DEF sorted, best
  <1>7. sorted[1].type = best.type
    <2> DEFINE g == sorted[1]
    <2>1. PICK i \in 1..13 : best = u[i]
      BY <1>1, <1>4, <1>6 DEF Leads
    <2>2. PICK j \in 1..13 : g = u[j]
      BY <1>1, <1>5 DEF Leads
    <2>3. best.status = "confirmed" /\ g.status = "confirmed"
      BY <1>4, <1>5, <1>6 DEF Leads
    <2> HIDE DEF g
    <2>4. Grade(Specificity(best.type), best.conf) /\ Grade(Specificity(g.type), g.conf)
      BY <1>1, <2>1, <2>2, <2>3 DEF Keyed
    <2>5. Key(best) <= Key(g) /\ Key(g) <= Key(best)
      BY <1>1, <1>4, <1>5, <1>6, <2>1, <2>2, <2>3 DEF Leads, g
    <2>6. /\ Key(best) \in Nat /\ Level(best.conf) \in 1..5 /\ Specificity(best.type) \in 72..100
          /\ Key(g) \in Nat /\ Level(g.conf) \in 1..5 /\ Specificity(g.type) \in 72..100
      BY <2>4, KeyIs
    <2>7. /\ Key(best) = 1000 * Level(best.conf) + Specificity(best.type)
          /\ Key(g) = 1000 * Level(g.conf) + Specificity(g.type) /\ Key(best) = Key(g)
      BY <2>5, <2>6 DEF Key
    <2>8. Specificity(best.type) = Specificity(g.type)
      BY <2>6, <2>7, Digits
    <2>9. best.type \in Range(Types) /\ g.type \in Range(Types)
      BY <1>2, <2>1, <2>2, <2>3
    <2> QED BY <2>8, <2>9, TypesApart DEF g
  <1>8. sorted[1].status = "confirmed" /\ 1 \in DOMAIN sorted /\ DOMAIN sorted \subseteq Nat \ {0}
    BY <1>5 DEF Leads
  <1>9. 1 \in left /\ \A i \in left : i \in Nat /\ 1 <= i
    BY <1>8
  <1> HIDE DEF left
  <1>10. Min(left) = 1
    BY <1>9 DEF Min
  <1> QED BY <1>7, <1>9, <1>10 DEF sorted, left, best

(* The scores, by what they are made of. *)
Plain(type, parts) == Hypothesis(type, parts, Unless(UNION {parts[i][1] : i \in DOMAIN parts}, "all of it"))
Unmetered(ev) == \A r \in Live(ev) : r.src \notin {"prometheus", "prometheus_trend"}
Scored(m(_), prometheus, unmetered) ==
    << Hypothesis("memory_limit_too_low",
                  << <<m({"oom"}), 25>>, <<m({"limit_too_low"}), 20>>, <<prometheus, 10>>, <<m({"limit"}), 5>> >>,
                  IF unmetered THEN "metrics" ELSE Unless(m({"limit_too_low"}), "shape")),
       Hypothesis("application_memory_leak",
                  << <<m({"oom"}), 20>>, <<m({"memory_leak", "progressive_growth"}), 30>> >>,
                  Unless(m({"memory_leak", "progressive_growth"}), "growth")),
       Plain("node_memory_pressure", << <<m({"memorypressure"}), 35>> >>),
       Plain("bad_config", << <<m({"config", "configmap"}), 30>>, <<m({"backoff"}), 20>>,
                              <<m({"content_empty"}), 30>> >>),
       Hypothesis("missing_secret_or_configmap",
                  << <<m({"secret", "configmap"}), 15>>, <<m({"object_missing"}), 45>>, <<m({"key_missing"}), 40>> >>,
                  Unless(m({"object_missing"}) \cup m({"key_missing"}), "inspection")),
       Plain("dependency_unavailable",
             << <<m({"refused", "timeout"}), 25>>, <<m({"backoff", "probe"}), 10>> >>),
       Plain("probe_misconfigured", << <<m({"probe", "unhealthy"}), 45>> >>),
       Plain("pvc_unbound", << <<m({"pvc", "bound"}), 45>> >>),
       Plain("scheduling_constraint", << <<m({"failedscheduling", "taint", "selector"}), 45>>,
                                         <<m({"insufficient"}), 10>> >>),
       Plain("image_pull_failed", << <<m({"imagepull"}), 45>>, <<m({"auth", "manifest"}), 15>> >>),
       Plain("init_container_crash",
             << <<m({"init"}), 35>>, <<IF m({"init"}) = {} THEN {} ELSE m({"exitcode"}), 20>> >>),
       Plain("node_eviction", << <<m({"evict"}), 45>>, <<m(Pressures), 15>>, <<m({"ephemeral"}), 8>> >>),
       Plain("node_not_ready", << <<m({"notready"}), 45>>, <<m(Pressures), 10>>,
                                  <<m({"networkunavailable"}), 5>> >>) >>

LEMMA KeywordsScored ==
    ASSUME NEW p, NEW ev
    PROVE  LET m(words) == Mentions(p, ev, words)
           IN  KeywordScores(p, ev) = Scored(m, Measured(ev), Unmetered(ev))
  BY DEF KeywordScores, Scored, Plain, Unmetered, Measured

(* A record without a word that is of no metric changes no score. *)
LEMMA SameScores ==
    ASSUME NEW p, NEW ev, NEW r, Words(r) = {}, r.src \notin {"prometheus", "prometheus_trend"},
           NEW all, all = ev \cup {r}
    PROVE  KeywordScores(p, all) = KeywordScores(p, ev)
  <1>1. ASSUME NEW words PROVE Mentions(p, all, words) = Mentions(p, ev, words)
    <2>1. {e \in Live(all) : Words(e) \cap words # {}} = {e \in Live(ev) : Words(e) \cap words # {}}
      BY DEF Live
    <2> QED BY <2>1 DEF Mentions
  <1>2. {e \in Live(all) : e.src = "prometheus"} = {e \in Live(ev) : e.src = "prometheus"}
    BY DEF Live
  <1>3. Measured(all) = Measured(ev)
    BY <1>2 DEF Measured
  <1>4. Unmetered(all) <=> Unmetered(ev)
    BY DEF Live, Unmetered
  <1> DEFINE m(words) == Mentions(p, ev, words)
             n(words) == Mentions(p, all, words)
  <1>5. \A words : n(words) = m(words)
    BY <1>1
  <1>6. /\ KeywordScores(p, ev) = Scored(m, Measured(ev), Unmetered(ev))
        /\ KeywordScores(p, all) = Scored(n, Measured(all), Unmetered(all))
    BY KeywordsScored
  <1> HIDE DEF m, n
  <1>8. /\ n({"oom"}) = m({"oom"})
        /\ n({"limit_too_low"}) = m({"limit_too_low"})
        /\ n({"limit"}) = m({"limit"})
        /\ n({"memory_leak", "progressive_growth"}) = m({"memory_leak", "progressive_growth"})
        /\ n({"memorypressure"}) = m({"memorypressure"})
        /\ n({"config", "configmap"}) = m({"config", "configmap"})
        /\ n({"backoff"}) = m({"backoff"})
        /\ n({"content_empty"}) = m({"content_empty"})
        /\ n({"secret", "configmap"}) = m({"secret", "configmap"})
        /\ n({"object_missing"}) = m({"object_missing"})
        /\ n({"key_missing"}) = m({"key_missing"})
        /\ n({"refused", "timeout"}) = m({"refused", "timeout"})
        /\ n({"backoff", "probe"}) = m({"backoff", "probe"})
        /\ n({"probe", "unhealthy"}) = m({"probe", "unhealthy"})
        /\ n({"pvc", "bound"}) = m({"pvc", "bound"})
        /\ n({"failedscheduling", "taint", "selector"}) = m({"failedscheduling", "taint", "selector"})
        /\ n({"insufficient"}) = m({"insufficient"})
        /\ n({"imagepull"}) = m({"imagepull"})
        /\ n({"auth", "manifest"}) = m({"auth", "manifest"})
        /\ n({"init"}) = m({"init"})
        /\ n({"exitcode"}) = m({"exitcode"})
        /\ n({"evict"}) = m({"evict"})
        /\ n(Pressures) = m(Pressures)
        /\ n({"ephemeral"}) = m({"ephemeral"})
        /\ n({"notready"}) = m({"notready"})
        /\ n({"networkunavailable"}) = m({"networkunavailable"})
    BY <1>5
  <1>9. Hypothesis("memory_limit_too_low", << <<n({"oom"}), 25>>, <<n({"limit_too_low"}), 20>>,
              <<Measured(all), 10>>, <<n({"limit"}), 5>> >>,
              IF Unmetered(all) THEN "metrics" ELSE Unless(n({"limit_too_low"}), "shape"))
        = Hypothesis("memory_limit_too_low", << <<m({"oom"}), 25>>, <<m({"limit_too_low"}), 20>>,
                    <<Measured(ev), 10>>, <<m({"limit"}), 5>> >>,
                    IF Unmetered(ev) THEN "metrics" ELSE Unless(m({"limit_too_low"}), "shape"))
    BY <1>3, <1>4, <1>8
  <1>10. Hypothesis("application_memory_leak", << <<n({"oom"}), 20>>,
              <<n({"memory_leak", "progressive_growth"}), 30>> >>,
              Unless(n({"memory_leak", "progressive_growth"}), "growth"))
        = Hypothesis("application_memory_leak", << <<m({"oom"}), 20>>,
                    <<m({"memory_leak", "progressive_growth"}), 30>> >>,
                    Unless(m({"memory_leak", "progressive_growth"}), "growth"))
    BY <1>3, <1>4, <1>8
  <1>11. Plain("node_memory_pressure", << <<n({"memorypressure"}), 35>> >>)
        = Plain("node_memory_pressure", << <<m({"memorypressure"}), 35>> >>)
    BY <1>3, <1>4, <1>8
  <1>12. Plain("bad_config", << <<n({"config", "configmap"}), 30>>, <<n({"backoff"}), 20>>,
              <<n({"content_empty"}), 30>> >>)
        = Plain("bad_config", << <<m({"config", "configmap"}), 30>>, <<m({"backoff"}), 20>>,
                    <<m({"content_empty"}), 30>> >>)
    BY <1>3, <1>4, <1>8
  <1>13. Hypothesis("missing_secret_or_configmap", << <<n({"secret", "configmap"}), 15>>,
              <<n({"object_missing"}), 45>>, <<n({"key_missing"}), 40>> >>,
              Unless(n({"object_missing"}) \cup n({"key_missing"}), "inspection"))
        = Hypothesis("missing_secret_or_configmap", << <<m({"secret", "configmap"}), 15>>,
                    <<m({"object_missing"}), 45>>, <<m({"key_missing"}), 40>> >>,
                    Unless(m({"object_missing"}) \cup m({"key_missing"}), "inspection"))
    BY <1>3, <1>4, <1>8
  <1>14. Plain("dependency_unavailable", << <<n({"refused", "timeout"}), 25>>, <<n({"backoff", "probe"}), 10>> >>)
        = Plain("dependency_unavailable", << <<m({"refused", "timeout"}), 25>>, <<m({"backoff", "probe"}), 10>> >>)
    BY <1>3, <1>4, <1>8
  <1>15. Plain("probe_misconfigured", << <<n({"probe", "unhealthy"}), 45>> >>)
        = Plain("probe_misconfigured", << <<m({"probe", "unhealthy"}), 45>> >>)
    BY <1>3, <1>4, <1>8
  <1>16. Plain("pvc_unbound", << <<n({"pvc", "bound"}), 45>> >>)
        = Plain("pvc_unbound", << <<m({"pvc", "bound"}), 45>> >>)
    BY <1>3, <1>4, <1>8
  <1>17. Plain("scheduling_constraint", << <<n({"failedscheduling", "taint", "selector"}), 45>>,
              <<n({"insufficient"}), 10>> >>)
        = Plain("scheduling_constraint", << <<m({"failedscheduling", "taint", "selector"}), 45>>,
                    <<m({"insufficient"}), 10>> >>)
    BY <1>3, <1>4, <1>8
  <1>18. Plain("image_pull_failed", << <<n({"imagepull"}), 45>>, <<n({"auth", "manifest"}), 15>> >>)
        = Plain("image_pull_failed", << <<m({"imagepull"}), 45>>, <<m({"auth", "manifest"}), 15>> >>)
    BY <1>3, <1>4, <1>8
  <1>19. Plain("init_container_crash", << <<n({"init"}), 35>>,
              <<IF n({"init"}) = {} THEN {} ELSE n({"exitcode"}), 20>> >>)
        = Plain("init_container_crash", << <<m({"init"}), 35>>,
                    <<IF m({"init"}) = {} THEN {} ELSE m({"exitcode"}), 20>> >>)
    BY <1>3, <1>4, <1>8
  <1>20. Plain("node_eviction", << <<n({"evict"}), 45>>, <<n(Pressures), 15>>, <<n({"ephemeral"}), 8>> >>)
        = Plain("node_eviction", << <<m({"evict"}), 45>>, <<m(Pressures), 15>>, <<m({"ephemeral"}), 8>> >>)
    BY <1>3, <1>4, <1>8
  <1>21. Plain("node_not_ready", << <<n({"notready"}), 45>>, <<n(Pressures), 10>>, <<n({"networkunavailable"}), 5>> >>)
        = Plain("node_not_ready", << <<m({"notready"}), 45>>, <<m(Pressures), 10>>, <<m({"networkunavailable"}), 5>> >>)
    BY <1>3, <1>4, <1>8
  <1>7. Scored(n, Measured(all), Unmetered(all)) = Scored(m, Measured(ev), Unmetered(ev))
    BY <1>9, <1>10, <1>11, <1>12, <1>13, <1>14, <1>15, <1>16, <1>17, <1>18, <1>19, <1>20, <1>21 DEF Scored
  <1> QED BY <1>6, <1>7

LEMMA MergedWithin ==
    ASSUME NEW ev, NEW extra, NEW all \in Merged(ev, extra)
    PROVE  all \subseteq ev \cup extra
  <1> DEFINE new == {Ref(r) : r \in extra} \ {Ref(r) : r \in ev}
  <1>1. PICK f \in [new -> extra] : all = ev \cup Range(f)
    BY DEF Merged
  <1> QED BY <1>1 DEF Range

(* The scheduler is heard: a pod of whose events one is a failure to schedule it is one an  *)
(* analyzer matches.                                                                        *)
LEMMA NothingScheduled ==
    ASSUME NEW p, Found(p) = {}
    PROVE  NoSchedule(p)
  <1>1. ~MatchPending(p) /\ ~MatchImagePull(p)
    BY DEF Found, Chosen
  <1> QED BY <1>1 DEF MatchPending, MatchImagePull, NoSchedule

(* What is read of a pod is sane, and its events are among those of the pod. *)
LEMMA HealthySane == Sane(Healthy)
  BY DEF Healthy, Sane

LEMMA WorseSane ==
    ASSUME NEW p, DOMAIN p = Fields, Sane(p), NEW q \in Worse(p)
    PROVE  Sane(q)
  <1>1. {"events", "logs", "config", "runbook", "app", "side", "init", "node", "pvc"} \subseteq Fields
    BY FieldsAre
  <1> HIDE DEF Fields
  <1>2. \/ \E f, v : q = [p EXCEPT ![f] = v] /\ f \notin {"events", "logs", "config", "runbook"}
        \/ \E k : q = [p EXCEPT !["init"] = k, !["app"] = "initializing"]
        \/ q = [p EXCEPT !["pvc"] = "Pending", !["app"] = "absent"]
        \/ \E e \in DOMAIN EventOf : q = [p EXCEPT !["events"] = p["events"] \cup {e}]
        \/ \E l \in DOMAIN LineWords : q = [p EXCEPT !["logs"] = p["logs"] \cup {l}]
        \/ \E k \in {"present", "object_missing", "key_missing", "content_empty"} : q = [p EXCEPT !["config"] = k]
    <2>1. \/ \E k : q = [p EXCEPT !["app"] = k]
          \/ \E k : q = [p EXCEPT !["init"] = k, !["app"] = "initializing"]
          \/ q = [p EXCEPT !["init"] = "initRetried"]
          \/ \E k : q = [p EXCEPT !["side"] = k]
          \/ \E e \in DOMAIN EventOf : q = [p EXCEPT !["events"] = p["events"] \cup {e}]
          \/ \E l \in DOMAIN LineWords : q = [p EXCEPT !["logs"] = p["logs"] \cup {l}]
          \/ \E c : q = [p EXCEPT !["node"] = p["node"] \cup {c}]
          \/ q = [p EXCEPT !["pvc"] = "Bound"]
          \/ q = [p EXCEPT !["pvc"] = "Pending", !["app"] = "absent"]
          \/ \E k \in {"present", "object_missing", "key_missing", "content_empty"} : q = [p EXCEPT !["config"] = k]
      BY DEF Worse
    <2> QED BY <2>1
  <1> QED BY <1>1, <1>2 DEF Sane

LEMMA SettingsSane ==
    ASSUME NEW p, DOMAIN p = Fields, Sane(p), NEW q \in Settings(p)
    PROVE  Sane(q)
  <1>1. {"events", "logs", "config", "runbook"} \subseteq Fields
    BY FieldsAre
  <1> HIDE DEF Fields
  <1>2. \/ q = p \/ \E f, v : q = [p EXCEPT ![f] = v] /\ f \notin {"events", "logs", "config", "runbook"}
        \/ \E w \in {"init", "pvc", "evict"} : q = [p EXCEPT !["runbook"] = {w}]
    <2>1. \/ q = p
          \/ \E m : q = [p EXCEPT !["memory"] = m]
          \/ \E t : q = [p EXCEPT !["trend"] = t]
          \/ \E w : q = [p EXCEPT !["env"] = {w}]
          \/ \E b : q = [p EXCEPT !["probes"] = b]
          \/ \E w \in {"init", "pvc", "evict"} : q = [p EXCEPT !["runbook"] = {w}]
          \/ q = [p EXCEPT !["topology"] = FALSE]
          \/ q = [p EXCEPT !["guaranteed"] = TRUE]
          \/ q = [p EXCEPT !["secret"] = TRUE]
      BY DEF Settings
    <2> QED BY <2>1
  <1> QED BY <1>1, <1>2 DEF Sane

LEMMA KnownSane ==
    ASSUME NEW p, DOMAIN p = Fields, Sane(p), NEW sections
    PROVE  /\ Sane(Known(p, sections)) /\ DOMAIN Known(p, sections) = Fields
           /\ Known(p, sections).events = IF "events" \in sections THEN p.events ELSE {}
  <1>1. {"events", "logs", "config", "runbook"} \subseteq Fields
    BY FieldsAre
  <1> HIDE DEF Fields
  <1>2. /\ Known(p, sections).config = p.config /\ Known(p, sections).runbook = p.runbook
        /\ Known(p, sections).logs \in {p.logs, {}} /\ DOMAIN Known(p, sections) = Fields
        /\ Known(p, sections).events = IF "events" \in sections THEN p.events ELSE {}
    BY <1>1 DEF Known, Unread
  <1> QED BY <1>2 DEF Sane

LEMMA ReadableSane ==
    ASSUME NEW p, DOMAIN p = Fields, Sane(p), NEW first
    PROVE  Sane(Readable(p, first)) /\ DOMAIN Readable(p, first) = Fields
  <1> DEFINE q == Known(p, UNION {Section(t) : t \in first \cup Refreshes})
             r == Readable(p, first)
  <1>1. Sane(q) /\ DOMAIN q = Fields
    BY KnownSane
  <1> HIDE DEF q
  <1>2. \E a, b : r = [q EXCEPT !["node"] = a, !["memory"] = b]
    BY DEF Readable, q
  <1> HIDE DEF r
  <1>3. r.events = q.events /\ r.logs = q.logs /\ r.config = q.config /\ r.runbook = q.runbook /\ DOMAIN r = Fields
    BY <1>1, <1>2, FieldsAre
  <1> QED BY <1>1, <1>3 DEF Sane, r

LEMMA MergeSane ==
    ASSUME NEW p, DOMAIN p = Fields, Sane(p), NEW ctx, Sane(ctx), ctx.events \subseteq p.events, NEW sections
    PROVE  LET c == MergeContext(ctx, p, sections)
           IN  Sane(c) /\ c.events \subseteq p.events /\ ctx.events \subseteq c.events
  <1> DEFINE c == MergeContext(ctx, p, sections)
  <1>1. {"events", "logs", "config", "runbook"} \subseteq Fields
    BY FieldsAre
  <1> HIDE DEF Fields
  <1>2. /\ c.config = p.config /\ c.runbook = p.runbook /\ c.logs \in {p.logs, ctx.logs}
        /\ c.events \in {p.events, ctx.events}
    BY <1>1 DEF MergeContext, Unread
  <1> HIDE DEF c
  <1>3. Sane(c) /\ c.events \subseteq p.events /\ ctx.events \subseteq c.events
    BY <1>2 DEF Sane
  <1> QED BY <1>3 DEF c

-----------------------------------------------------------------------------
(* The snapshot and the report agree. *)

HushInv ==
    /\ Sane(pod)
    /\ stage # "cluster" => Sane(context) /\ context.events \subseteq pod.events
    /\ stage \in {"observing", "analyzing"} => (NoSchedule(context) => Hush(seen))
    /\ stage \in {"analyzed", "aligned", "remediated"} => (Found(context) = {} => Hush(report.ev))

LEMMA HushInit == Init => HushInv
  BY HealthySane DEF Init, HushInv

LEMMA FewerEvents ==
    ASSUME NEW p, NEW q, q.events \subseteq p.events, NoSchedule(p)
    PROVE  NoSchedule(q)
  BY DEF NoSchedule, Events

LEMMA SnapshotIsQuiet ==
    ASSUME NEW p, DOMAIN p = Fields, Sane(p), NEW first, first \subseteq Tools,
           NoSchedule(Known(p, UNION {Section(t) : t \in first}))
    PROVE  Hush(UNION {ToolRecords(t, Known(p, Section(t))) : t \in first})
  <1> DEFINE sections == UNION {Section(t) : t \in first}
  <1>1. ASSUME NEW t \in first PROVE Hush(ToolRecords(t, Known(p, Section(t))))
    <2>1. Section(t) \subseteq sections
      OBVIOUS
    <2>2. Known(p, sections).events = IF "events" \in sections THEN p.events ELSE {}
      BY KnownSane
    <2>3. /\ Sane(Known(p, Section(t)))
          /\ Known(p, Section(t)).events = IF "events" \in Section(t) THEN p.events ELSE {}
      BY KnownSane
    <2>4. NoSchedule(Known(p, sections))
      OBVIOUS
    <2> HIDE DEF sections
    <2>5. Known(p, Section(t)).events \subseteq Known(p, sections).events
      BY <2>1, <2>2, <2>3
    <2>6. NoSchedule(Known(p, Section(t)))
      BY <2>4, <2>5, FewerEvents
    <2>7. t \in Tools
      OBVIOUS
    <2> QED BY <2>3, <2>6, <2>7, ToolsAreQuiet
  <1> QED BY <1>1 DEF Hush

(* What the run has seen is silent about scheduling when its context is, and so is the      *)
(* report of a pod that no analyzer matches.                                                *)
LEMMA HushStep == HushInv /\ NameInv /\ [Next]_vars => HushInv'
  <1> SUFFICES ASSUME HushInv, NameInv, [Next]_vars PROVE HushInv'
    OBVIOUS
  <1>0. DOMAIN pod = Fields /\ Sane(pod)
    BY DEF NameInv, PodOK, HushInv
  <1>1. CASE Change
    <2>1. stage = "cluster" /\ stage' = "cluster" /\ pod' \in Worse(pod) \cup Settings(pod)
      BY <1>1 DEF Change, Become
    <2>2. Sane(pod')
      BY <1>0, <2>1, WorseSane, SettingsSane
    <2> QED BY <2>1, <2>2 DEF HushInv
  <1>2. CASE Snapshot
    <2>1. PICK first \in FirstGroups :
             /\ pod' = Readable(pod, first)
             /\ context' = Known(pod', UNION {Section(t) : t \in first})
             /\ seen' = UNION {ToolRecords(t, Known(pod', Section(t))) : t \in first}
      BY <1>2 DEF Snapshot
    <2>2. stage' = "observing"
      BY <1>2 DEF Snapshot
    <2>3. DOMAIN pod' = Fields /\ Sane(pod')
      BY <1>0, <2>1, ReadableSane
    <2>4. Sane(context') /\ context'.events \subseteq pod'.events
      BY <2>1, <2>3, KnownSane
    <2>5. first \subseteq Tools
      BY ToolsAssumption
    <2>6. NoSchedule(context') => Hush(seen')
      BY <2>1, <2>3, <2>5, SnapshotIsQuiet
    <2> QED BY <2>2, <2>3, <2>4, <2>6 DEF HushInv, NoSchedule, Events, Hush
  <1>3. CASE Observe
    <2>1. PICK tool \in Tools : /\ \E sections : context' = MergeContext(context, pod, sections)
                                /\ seen' = seen \cup ToolRecords(tool, context')
      BY <1>3 DEF Observe
    <2>2. stage = "observing" /\ UNCHANGED <<pod, stage>>
      BY <1>3 DEF Observe
    <2>3. Sane(context') /\ context'.events \subseteq pod.events /\ context.events \subseteq context'.events
      BY <1>0, <2>1, <2>2, MergeSane DEF HushInv
    <2>4. ASSUME NoSchedule(context') PROVE Hush(seen')
      <3>1. Hush(seen)
        BY <2>2, <2>3, <2>4, FewerEvents DEF HushInv
      <3>2. Hush(ToolRecords(tool, context'))
        BY <2>3, <2>4, ToolsAreQuiet
      <3> QED BY <2>1, <3>1, <3>2 DEF Hush
    <2> QED BY <2>2, <2>3, <2>4 DEF HushInv, NoSchedule, Events, Hush
  <1>4. CASE StopObserving
    BY <1>4 DEF StopObserving, HushInv, NoSchedule, Events, Hush
  <1>5. CASE Analyze
    <2>1. PICK r \in Reports(context) : \E ev \in Merged(r.ev, seen) : report' = [r EXCEPT !.ev = ev]
      BY <1>5 DEF Analyze
    <2>2. PICK ev \in Merged(r.ev, seen) : report' = [r EXCEPT !.ev = ev]
      BY <2>1
    <2>3. stage = "analyzing" /\ stage' = "analyzed" /\ UNCHANGED <<pod, context>>
      BY <1>5 DEF Analyze
    <2>4. report'.ev = ev
      BY <2>1, <2>2, ReportsAre, WithEvidence
    <2>5. ASSUME Found(context) = {} PROVE Hush(report'.ev)
      <3>1. r = NoResultReport(context)
        BY <2>5, <2>1, ReportsAre
      <3>2. Hush(r.ev)
        BY <3>1, EngineIsQuiet
      <3>3. Hush(seen)
        BY <2>3, <2>5, NothingScheduled DEF HushInv
      <3>4. ev \subseteq r.ev \cup seen
        BY <2>2, MergedWithin
      <3> QED BY <2>4, <3>2, <3>3, <3>4 DEF Hush
    <2> QED BY <2>3, <2>5 DEF HushInv, Found, Hush
  <1>6. CASE Legacy
    BY <1>0, <1>6 DEF Legacy, HushInv
  <1>7. CASE Reconcile
    <2>1. PICK ev : /\ ev = report.ev \cup IntegrityRecords(scores, report.ev)
                    /\ report' = Aligned([report EXCEPT !.ev = ev], scores')
      BY <1>7 DEF Reconcile
    <2>2. stage = "analyzed" /\ stage' = "aligned" /\ UNCHANGED <<pod, context>>
      BY <1>7 DEF Reconcile
    <2> DEFINE r == [report EXCEPT !.ev = ev]
    <2>3. DOMAIN r = ReportFields /\ r.ev = ev
      BY <2>2, WithEvidence DEF NameInv, Reported
    <2> HIDE DEF r
    <2>4. report'.ev = ev
      BY <2>1, <2>3, AlignedIs DEF r
    <2>5. ASSUME Found(context) = {} PROVE Hush(report'.ev)
      BY <2>1, <2>2, <2>4, <2>5, IntegrityIsQuiet DEF HushInv, Hush
    <2> QED BY <2>2, <2>5 DEF HushInv, Found, Hush
  <1>8. CASE Remediate
    <2>1. stage = "aligned" /\ stage' = "remediated" /\ UNCHANGED <<pod, context>>
      BY <1>8 DEF Remediate
    <2> DEFINE note == Record("agent", "NoRemediation", {}, "warning")
    <2>2. Quiet(note)
      BY TitlesAreQuiet, QuietIs
    <2>3. report' = report \/ report' = [report EXCEPT !.ev = report.ev \cup {note}]
      BY <1>8 DEF Remediate
    <2> HIDE DEF note
    <2>4. report'.ev \subseteq report.ev \cup {note}
      BY <2>1, <2>3, WithEvidence DEF NameInv, Reported
    <2>5. ASSUME Found(context) = {} PROVE Hush(report'.ev)
      BY <2>1, <2>2, <2>4, <2>5 DEF HushInv, Hush
    <2> QED BY <2>1, <2>5 DEF HushInv, Found, Hush
  <1>9. CASE Store
    BY <1>9 DEF Store, HushInv
  <1>10. CASE UNCHANGED vars
    BY <1>10 DEF vars, HushInv, Found, Hush, NoSchedule, Events
  <1> QED BY <1>1, <1>2, <1>3, <1>4, <1>5, <1>6, <1>7, <1>8, <1>9, <1>10 DEF Next

(* The report names the fault of the hypothesis the scan chooses. *)
Headed(r, hyps, p) ==
    /\ Found(p) = {} /\ SelectPrimary(hyps) # << >> /\ SelectPrimary(hyps)[1].status = "confirmed"
    /\ FaultOf(SelectPrimary(hyps)[1].type) \in r.faults
AgreeInv ==
  ~scorer =>
    /\ stage \in {"aligned", "remediated"} =>
          /\ scores = KeywordScores(context, report.ev)
          /\ report.faults = {"unknown"} \/ AnalyzerPrimaryAuthoritative(report) \/ Headed(report, scores, context)
    /\ HeadIsReported

LEMMA AgreeInit == Init => AgreeInv
  BY DEF Init, AgreeInv, HeadIsReported

LEMMA ReconcileHeads ==
    ~scorer /\ NameInv /\ OwnerInv /\ Reconcile =>
        /\ scores' = KeywordScores(context, report'.ev)
        /\ report'.faults = {"unknown"} \/ AnalyzerPrimaryAuthoritative(report') \/ Headed(report', scores', context)
  <1> SUFFICES ASSUME ~scorer, NameInv, OwnerInv, Reconcile
               PROVE  /\ scores' = KeywordScores(context, report'.ev)
                      /\ \/ report'.faults = {"unknown"} \/ AnalyzerPrimaryAuthoritative(report')
                         \/ Headed(report', scores', context)
    OBVIOUS
  <1>1. PICK ev : /\ report.ev \subseteq ev /\ scores' = KeywordScores(context, ev)
                  /\ report' = Aligned([report EXCEPT !.ev = ev], scores')
    BY NoScorer DEF Reconcile
  <1> DEFINE r == [report EXCEPT !.ev = ev]
  <1>2. /\ DOMAIN report = ReportFields /\ (report.faults = {"unknown"} \/ AnalyzerPrimaryAuthoritative(report))
        /\ report.faults = {"unknown"} => Found(context) = {}
    BY DEF Reconcile, OwnerInv, NameInv, Reported
  <1>3. DOMAIN r = ReportFields /\ r.faults = report.faults /\ r.primary = report.primary /\ r.ev = ev
    BY <1>2, WithEvidence
  <1>4. AnalyzerPrimaryAuthoritative(report) => AnalyzerPrimaryAuthoritative(r)
    BY <1>1, <1>2, StaysAuthoritative
  <1> HIDE DEF r
  <1>5. /\ report'.ev = r.ev
        /\ \/ report'.faults = r.faults /\ report'.primary = r.primary
           \/ SelectPrimary(scores') # << >> /\ Renamed(report', r, SelectPrimary(scores')[1])
    BY <1>1, <1>3, AlignedIs DEF r
  <1>6. CASE report'.faults = r.faults /\ report'.primary = r.primary
    <2>1. AnalyzerPrimaryAuthoritative(r) => AnalyzerPrimaryAuthoritative(report')
      BY <1>5, <1>6 DEF AnalyzerPrimaryAuthoritative
    <2> QED BY <1>1, <1>2, <1>3, <1>4, <1>5, <1>6, <2>1
  <1>7. CASE SelectPrimary(scores') # << >> /\ Renamed(report', r, SelectPrimary(scores')[1])
    <2>1. Found(context) = {}
      BY <1>2, <1>4, <1>7 DEF Renamed
    <2> DEFINE h == SelectPrimary(scores')[1]
    <2>2. h.status = "confirmed" /\ report'.faults = {FaultOf(h.type)}
      BY <1>7 DEF Renamed
    <2>3. Headed(report', scores', context)
      BY <1>7, <2>1, <2>2 DEF Headed
    <2> QED BY <1>1, <1>3, <1>5, <2>3
  <1> QED BY <1>5, <1>6, <1>7

LEMMA RemediateHeads ==
    ~scorer /\ NameInv /\ AgreeInv /\ Remediate =>
        /\ scores' = KeywordScores(context', report'.ev)
        /\ report'.faults = {"unknown"} \/ AnalyzerPrimaryAuthoritative(report') \/ Headed(report', scores', context')
  <1> SUFFICES ASSUME ~scorer, NameInv, AgreeInv, Remediate
               PROVE  /\ scores' = KeywordScores(context', report'.ev)
                      /\ \/ report'.faults = {"unknown"} \/ AnalyzerPrimaryAuthoritative(report')
                         \/ Headed(report', scores', context')
    OBVIOUS
  <1>1. /\ stage = "aligned" /\ UNCHANGED <<context, scores>> /\ DOMAIN report = ReportFields
        /\ scores = KeywordScores(context, report.ev)
        /\ report.faults = {"unknown"} \/ AnalyzerPrimaryAuthoritative(report) \/ Headed(report, scores, context)
    BY DEF Remediate, NameInv, Reported, AgreeInv
  <1> DEFINE note == Record("agent", "NoRemediation", {}, "warning")
             ev == report.ev \cup {note}
  <1>2. CASE report' = report
    BY <1>1, <1>2
  <1>3. CASE report' = [report EXCEPT !.ev = ev]
    <2>1. Words(note) = {} /\ note.src = "agent"
      <3>1. TitleWords["NoRemediation"] = {} /\ SourceWords("agent") = {}
        BY DEF TitleWords, SourceWords
      <3> QED BY <3>1 DEF Words, Record
    <2> HIDE DEF note
    <2>2. KeywordScores(context, ev) = KeywordScores(context, report.ev)
      BY <2>1, SameScores
    <2>3. report'.ev = ev /\ report'.faults = report.faults
      BY <1>1, <1>3, WithEvidence
    <2>4. AnalyzerPrimaryAuthoritative(report) => AnalyzerPrimaryAuthoritative(report')
      BY <1>1, <1>3, StaysAuthoritative
    <2>5. Headed(report, scores, context) => Headed(report', scores', context')
      BY <1>1, <2>3 DEF Headed
    <2> QED BY <1>1, <2>2, <2>3, <2>4, <2>5
  <1>4. report' = report \/ report' = [report EXCEPT !.ev = ev]
    BY DEF Remediate
  <1> QED BY <1>2, <1>3, <1>4

LEMMA StoreAgrees == ~scorer /\ HushInv /\ AgreeInv /\ Store => HeadIsReported'
  <1> SUFFICES ASSUME ~scorer, HushInv, AgreeInv, Store, snapshot'.primary.kind = "hypothesis", report.faults # {"unknown"}
               PROVE  FaultOf(snapshot'.primary.name) \in report.faults
    BY DEF HeadIsReported, Store
  <1>1. /\ scores = KeywordScores(context, report.ev) /\ scores' = scores
        /\ AnalyzerPrimaryAuthoritative(report) \/ Headed(report, scores, context)
        /\ snapshot'.primary = SnapshotPrimary(report, scores)
    BY NoScorer DEF AgreeInv, Store, FinalScores
  <1> DEFINE sorted == SortBy(BetterPrimary, scores)
             left == {i \in DOMAIN sorted : sorted[i].status # "rejected"}
  <1>2. ~AnalyzerPrimaryAuthoritative(report)
    BY <1>1 DEF SnapshotPrimary
  <1>3. Headed(report, scores, context)
    BY <1>1, <1>2
  <1>4. Hush(report.ev)
    BY <1>3 DEF Headed, HushInv, Store
  <1>5. left # {} /\ sorted[Min(left)].type = SelectPrimary(scores)[1].type
    BY <1>1, <1>3, <1>4, PrimariesAgree DEF Headed
  <1>6. snapshot'.primary.name = sorted[Min(left)].type
    BY <1>1, <1>2, <1>5 DEF SnapshotPrimary
  <1> QED BY <1>3, <1>5, <1>6 DEF Headed

LEMMA AgreeStep == AgreeInv /\ NameInv /\ OwnerInv /\ HushInv /\ [Next]_vars => AgreeInv'
  <1> SUFFICES ASSUME AgreeInv, NameInv, OwnerInv, HushInv, [Next]_vars, ~scorer PROVE AgreeInv'
    BY ScorerStays DEF AgreeInv
  <1>1. CASE Reconcile
    <2>1. stage' = "aligned" /\ context' = context
      BY <1>1 DEF Reconcile
    <2>2. /\ scores' = KeywordScores(context, report'.ev)
          /\ report'.faults = {"unknown"} \/ AnalyzerPrimaryAuthoritative(report') \/ Headed(report', scores', context')
      BY <1>1, <2>1, ReconcileHeads DEF Headed
    <2> QED BY <2>1, <2>2 DEF AgreeInv, HeadIsReported, AnalyzerPrimaryAuthoritative, Structural, Headed
  <1>2. CASE Remediate
    <2>1. stage' = "remediated"
      BY <1>2 DEF Remediate
    <2>2. /\ scores' = KeywordScores(context', report'.ev)
          /\ report'.faults = {"unknown"} \/ AnalyzerPrimaryAuthoritative(report') \/ Headed(report', scores', context')
      BY <1>2, RemediateHeads
    <2> QED BY <2>1, <2>2 DEF AgreeInv, HeadIsReported, AnalyzerPrimaryAuthoritative, Structural, Headed
  <1>3. CASE Store
    <2>1. HeadIsReported' /\ stage' = "stored"
      BY <1>3, StoreAgrees DEF Store
    <2> QED BY <2>1 DEF AgreeInv
  <1>4. CASE Analyze
    BY <1>4 DEF Analyze, AgreeInv, HeadIsReported
  <1>5. CASE Legacy
    BY <1>5 DEF Legacy, AgreeInv, HeadIsReported
  <1>6. CASE Change
    BY <1>6 DEF Change, AgreeInv, HeadIsReported
  <1>7. CASE Snapshot
    BY <1>7 DEF Snapshot, AgreeInv, HeadIsReported
  <1>8. CASE Observe
    BY <1>8 DEF Observe, AgreeInv, HeadIsReported
  <1>9. CASE StopObserving
    BY <1>9 DEF StopObserving, AgreeInv, HeadIsReported
  <1>10. CASE UNCHANGED vars
    BY <1>10 DEF vars, AgreeInv, HeadIsReported, AnalyzerPrimaryAuthoritative, Structural, Headed, Found
  <1> QED BY <1>1, <1>2, <1>3, <1>4, <1>5, <1>6, <1>7, <1>8, <1>9, <1>10 DEF Next

(* Without a scorer, the snapshot and the report agree, for any pod and evidence.  Where no *)
(* analyzer matches there is no word of the scheduler (HushInv), so the hypothesis about    *)
(* scheduling, the one that can close a cycle of the comparison, is not confirmed; among    *)
(* the other twelve the comparison of those that are is an order after all, and the scan    *)
(* and the sort both find its greatest.  The scores are the same: what remediation adds has *)
(* no word a hypothesis looks for (AgreeInv).                                               *)
THEOREM SnapshotsAgree == Spec => []SnapshotAgrees
  <1>1. NameInv /\ [Next]_vars => NameInv'
    BY NameStep
  <1>2. StandInv /\ NameInv /\ [Next]_vars => StandInv'
    BY StandStep
  <1>3. OwnerInv /\ NameInv' /\ [Next]_vars => OwnerInv'
    BY OwnerStep
  <1>4. HushInv /\ NameInv /\ [Next]_vars => HushInv'
    BY HushStep
  <1>5. BackInv /\ AgreeInv => SnapshotAgrees
    BY DEF BackInv, AgreeInv, SnapshotAgrees
  <1> QED BY <1>1, <1>2, <1>3, <1>4, <1>5, NameInit, StandInit, OwnerInit, HushInit, BackInit, AgreeInit,
             BackStep, AgreeStep, PTL DEF Spec

=============================================================================
