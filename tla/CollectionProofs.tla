-------------------------- MODULE CollectionProofs --------------------------
(***************************************************************************)
(* Proofs about Collection: the types of its state, that the logs of a     *)
(* call are those of the failure, that retries absorb errors, and that the *)
(* results of a group are merged without a loss.                           *)
(*                                                                         *)
(* The first part is about folds: what FoldLeft computes is reached step   *)
(* by step from the base.  Induction is had from the least element of a    *)
(* set of numbers, so that no theorem needs an operator as parameter.      *)
(***************************************************************************)
EXTENDS Collection, FiniteSetTheorems, WellFoundedInduction, TLAPS

-----------------------------------------------------------------------------
(* Induction, and folds over the positions of a sequence. *)

(* A set of numbers has a least element. *)
LEMMA Least ==
    ASSUME NEW T, T \subseteq Nat, T # {}
    PROVE  \E n \in T : \A m \in T : n <= m
<1> DEFINE R == {ss \in Nat \X Nat : ss[1] < ss[2]}
<1>1. IsWellFoundedOn(R, Nat)
  BY NatLessThanWellFounded DEF OpToRel
<1>2. \E n \in T : \A m \in T : <<m, n>> \notin R
  <2> HIDE DEF R
  <2> QED BY <1>1, WFMin
<1>3. PICK n \in T : \A m \in T : <<m, n>> \notin R
  BY <1>2
<1>4. ASSUME NEW m \in T PROVE n <= m
  <2>1. ~(m < n) /\ m \in Nat /\ n \in Nat
    BY <1>3
  <2> QED BY <2>1
<1> QED BY <1>4

(* Induction: what holds of 0, and of k whenever it holds of k - 1, holds of all. *)
LEMMA Induction ==
    ASSUME NEW T, 0 \in T, \A k \in Nat : k \in T => k + 1 \in T
    PROVE  Nat \subseteq T
<1> SUFFICES ASSUME Nat \ T # {} PROVE FALSE
  OBVIOUS
<1>1. PICK n \in Nat \ T : \A m \in Nat \ T : n <= m
  BY Least
<1>2. n - 1 \in Nat /\ n - 1 \notin T
  BY <1>1
<1> QED BY <1>1, <1>2

Upto(g, n, S, base, step) ==
    /\ g \in [0..n -> S] /\ g[0] = base
    /\ \A k \in 0..(n - 1) : g[k + 1] = step[g[k]]

Iterates(f, S, base, step) ==
    f \in [Nat -> S] /\ f[0] = base /\ \A n \in Nat : f[n + 1] = step[f[n]]

(* A function can be iterated: the values of the iteration are those of one function. *)
LEMMA Iterated ==
    ASSUME NEW S, NEW base \in S, NEW step \in [S -> S]
    PROVE  \E f : Iterates(f, S, base, step)
<1> DEFINE T == {n \in Nat : \E g : Upto(g, n, S, base, step)}
<1>1. Nat \subseteq T
  <2>1. 0 \in T
    <3>1. Upto([k \in 0..0 |-> base], 0, S, base, step)
      BY DEF Upto
    <3> QED BY <3>1
  <2>2. ASSUME NEW n \in Nat, n \in T PROVE n + 1 \in T
    <3>1. PICK g : Upto(g, n, S, base, step)
      BY <2>2
    <3> DEFINE h == [k \in 0..(n + 1) |-> IF k = n + 1 THEN step[g[n]] ELSE g[k]]
    <3>2. g \in [0..n -> S] /\ g[n] \in S
      BY <3>1 DEF Upto
    <3>3. h \in [0..(n + 1) -> S] /\ h[0] = base
      BY <3>1, <3>2 DEF Upto
    <3>4. ASSUME NEW k \in 0..n PROVE h[k + 1] = step[h[k]]
      <4>1. CASE k = n
        BY <4>1
      <4>2. CASE k < n
        BY <3>1, <4>2 DEF Upto
      <4> QED BY <3>4, <4>1, <4>2
    <3> HIDE DEF h
    <3>5. \A k \in 0..n : h[k + 1] = step[h[k]]
      BY <3>4
    <3>6. \A k \in 0..(n + 1 - 1) : h[k + 1] = step[h[k]]
      <4>1. 0..(n + 1 - 1) = 0..n
        BY <2>2
      <4> QED BY <3>5, <4>1, Zenon
    <3>7. Upto(h, n + 1, S, base, step)
      BY <3>3, <3>6 DEF Upto
    <3> QED BY <3>7
  <2> HIDE DEF T
  <2> QED BY <2>1, <2>2, Induction
<1>2. ASSUME NEW m \in Nat, NEW n \in Nat, m <= n,
             NEW g, Upto(g, m, S, base, step), NEW h, Upto(h, n, S, base, step)
      PROVE  g[m] = h[m]
  <2> DEFINE U == {k \in Nat : k <= m => g[k] = h[k]}
  <2>1. 0 \in U
    BY <1>2 DEF Upto
  <2>2. ASSUME NEW k \in Nat, k \in U PROVE k + 1 \in U
    <3>1. CASE k + 1 <= m
      <4>1. k \in 0..(m - 1) /\ k \in 0..(n - 1)
        BY <1>2, <3>1
      <4>2. g[k + 1] = step[g[k]] /\ h[k + 1] = step[h[k]]
        BY <1>2, <4>1 DEF Upto
      <4> QED BY <2>2, <3>1, <4>2
    <3> QED BY <3>1
  <2>3. Nat \subseteq U
    <3> HIDE DEF U
    <3> QED BY <2>1, <2>2, Induction
  <2> QED BY <2>3
<1> DEFINE pick(n) == CHOOSE g : Upto(g, n, S, base, step)
           f == [n \in Nat |-> pick(n)[n]]
<1>3. \A n \in Nat : Upto(pick(n), n, S, base, step)
  BY <1>1
<1> HIDE DEF pick
<1>4. f \in [Nat -> S]
  <2>1. ASSUME NEW n \in Nat PROVE pick(n)[n] \in S
    BY <1>3 DEF Upto
  <2> QED BY <2>1
<1>5. f[0] = base
  BY <1>3 DEF Upto
<1>6. ASSUME NEW n \in Nat PROVE f[n + 1] = step[f[n]]
  <2>1. pick(n)[n] = pick(n + 1)[n]
    BY <1>2, <1>3
  <2>2. pick(n + 1)[n + 1] = step[pick(n + 1)[n]]
    BY <1>3 DEF Upto
  <2> QED BY <2>1, <2>2
<1> HIDE DEF f
<1> QED BY <1>4, <1>5, <1>6 DEF Iterates

(* The last of a set of positions. *)
LEMMA MaxIn ==
    ASSUME NEW n \in Nat, NEW s \in SUBSET (1..n), s # {}
    PROVE  /\ Max(s) \in s /\ Max(s) \in 1..n /\ s \ {Max(s)} \in SUBSET (1..n)
           /\ \A k \in s : k <= Max(s)
<1> DEFINE T == {n - k : k \in s}
<1>1. T \subseteq Nat /\ T # {}
  <2>1. \A k \in s : n - k \in Nat
    OBVIOUS
  <2> QED BY <2>1
<1>2. PICK t \in T : \A u \in T : t <= u
  <2> HIDE DEF T
  <2> QED BY <1>1, Least
<1>3. PICK k \in s : t = n - k
  BY <1>2
<1>4. \A j \in s : n - k <= n - j
  BY <1>2, <1>3
<1>5. \A j \in s : k >= j
  BY <1>4
<1>6. \E x \in s : \A y \in s : x >= y
  BY <1>5
<1>7. Max(s) \in s /\ \A y \in s : Max(s) >= y
  BY <1>6 DEF Max
<1>8. Max(s) \in 1..n /\ s \ {Max(s)} \in SUBSET (1..n)
  BY <1>7
<1>9. ASSUME NEW j \in s PROVE j <= Max(s)
  <2>1. j \in Int /\ Max(s) \in Int /\ Max(s) >= j
    BY <1>7, <1>8
  <2> QED BY <2>1
<1> QED BY <1>7, <1>8, <1>9

(* A fold over positions: the value of each set of positions is that of the set without its *)
(* last position, one step on.                                                              *)
Folds(g, n, S, base, step) ==
    /\ g \in [SUBSET (1..n) -> S]
    /\ \A s \in SUBSET (1..n) :
          g[s] = IF s = {} THEN base ELSE step[<<Max(s), g[s \ {Max(s)}]>>]

(* A fold over 1..n has a graph, a function over the sets it passes. *)
LEMMA FoldGraph ==
    ASSUME NEW n \in Nat, NEW S, NEW base \in S, NEW step \in [(1..n) \X S -> S]
    PROVE  \E g : Folds(g, n, S, base, step)
<1> DEFINE D == SUBSET (1..n)
           F == [D -> S]
           base0 == [s \in D |-> base]
           next(h) == [s \in D |-> IF s = {} THEN base ELSE step[<<Max(s), h[s \ {Max(s)}]>>]]
           step0 == [h \in F |-> next(h)]
<1>1. ASSUME NEW s \in D, s # {}
      PROVE  Max(s) \in s /\ Max(s) \in 1..n /\ s \ {Max(s)} \in D
  BY <1>1, MaxIn
<1>2. \A h \in F : next(h) \in F
  <2> SUFFICES ASSUME NEW h \in F, NEW s \in D, s # {}
               PROVE  step[<<Max(s), h[s \ {Max(s)}]>>] \in S
    OBVIOUS
  <2>1. h[s \ {Max(s)}] \in S /\ Max(s) \in 1..n
    BY <1>1
  <2> QED BY <2>1
<1>3. base0 \in F /\ step0 \in [F -> F]
  BY <1>2
<1>0. PICK f : Iterates(f, F, base0, step0)
  <2> HIDE DEF D, F, base0, step0
  <2> QED BY <1>3, Iterated
<1>4. f \in [Nat -> F] /\ f[0] = base0 /\ \A k \in Nat : f[k + 1] = step0[f[k]]
  <2> HIDE DEF D, F, base0, step0
  <2> QED BY <1>0 DEF Iterates
<1>5. ASSUME NEW s \in D PROVE IsFiniteSet(s) /\ Cardinality(s) \in Nat
  <2>1. IsFiniteSet(1..n) /\ s \subseteq 1..n
    BY <1>5, FS_Interval
  <2>2. IsFiniteSet(s)
    BY <2>1, FS_Subset
  <2> QED BY <2>2, FS_CardinalityType
<1> DEFINE g == [s \in D |-> f[Cardinality(s)][s]]
<1>6. g \in [D -> S]
  <2>1. ASSUME NEW s \in D PROVE f[Cardinality(s)][s] \in S
    <3>1. f[Cardinality(s)] \in F
      <4> HIDE DEF F
      <4> QED BY <1>4, <1>5
    <3> QED BY <3>1
  <2> QED BY <2>1
<1>7. ASSUME NEW s \in D, s = {} PROVE g[s] = base
  <2>1. Cardinality(s) = 0
    BY <1>7, FS_EmptySet
  <2>2. f[0][s] = base
    BY <1>4
  <2> QED BY <2>1, <2>2
<1>8. ASSUME NEW s \in D, s # {} PROVE g[s] = step[<<Max(s), g[s \ {Max(s)}]>>]
  <2> DEFINE r == s \ {Max(s)}
             k == Cardinality(r)
  <2>1. r \in D /\ k \in Nat /\ Cardinality(s) = k + 1
    <3>1. r \in D /\ Max(s) \in s
      BY <1>1, <1>8
    <3>2. Cardinality(r) = Cardinality(s) - 1
      BY <1>5, <3>1, FS_RemoveElement
    <3>3. k \in Nat /\ Cardinality(s) \in Nat
      BY <1>5, <3>1
    <3> QED BY <3>1, <3>2, <3>3
  <2>2. f[k + 1] = next(f[k])
    BY <1>4, <2>1
  <2>3. f[k + 1][s] = step[<<Max(s), f[k][r]>>]
    BY <1>8, <2>2
  <2> QED BY <2>1, <2>3
<1> HIDE DEF g
<1> QED BY <1>6, <1>7, <1>8 DEF Folds

(* The last of the first k + 1 positions. *)
LEMMA MaxUpto ==
    ASSUME NEW k \in Nat
    PROVE  Max(1..(k + 1)) = k + 1 /\ (1..(k + 1)) \ {k + 1} = 1..k /\ 1..(k + 1) # {}
<1>1. k + 1 \in 1..(k + 1) /\ \A y \in 1..(k + 1) : k + 1 >= y
  OBVIOUS
<1>2. \E x \in 1..(k + 1) : \A y \in 1..(k + 1) : x >= y
  BY <1>1
<1>3. Max(1..(k + 1)) \in 1..(k + 1) /\ \A y \in 1..(k + 1) : Max(1..(k + 1)) >= y
  BY <1>2 DEF Max
<1>4. Max(1..(k + 1)) >= k + 1 /\ Max(1..(k + 1)) <= k + 1 /\ Max(1..(k + 1)) \in Int
  BY <1>1, <1>3
<1> QED BY <1>4

(* What CHOOSE finds for a fold agrees with the steps as long as the values are in S; it is  *)
(* a walk from the base then, a step for each position.                                      *)
Steps(g, n, S, base, step) ==
    /\ g[{}] = base
    /\ \A s \in SUBSET (1..n) :
          s # {} /\ g[s \ {Max(s)}] \in S => g[s] = step[<<Max(s), g[s \ {Max(s)}]>>]
Walks(f, g, n, S, base, step) ==
    /\ f \in [0..n -> S] /\ f[0] = base /\ f[n] = g[1..n]
    /\ \A k \in 0..(n - 1) : f[k + 1] = step[<<k + 1, f[k]>>]

(* The same for a fold whose steps know their position. *)
LEMMA Walked ==
    ASSUME NEW n \in Nat, NEW S, NEW base \in S, NEW step \in [(1..n) \X S -> S],
           NEW g, Steps(g, n, S, base, step)
    PROVE  \E f : Walks(f, g, n, S, base, step)
<1> DEFINE f == [k \in 0..n |-> g[1..k]]
<1>1. f[0] = base
  <2>1. 1..0 = {}
    OBVIOUS
  <2> QED BY <2>1 DEF Steps
<1>2. ASSUME NEW k \in Nat, k + 1 <= n, f[k] \in S
      PROVE  f[k + 1] = step[<<k + 1, f[k]>>] /\ f[k + 1] \in S
  <2> DEFINE x == 1..(k + 1)
  <2>1. x \in SUBSET (1..n) /\ f[k] = g[1..k] /\ f[k + 1] = g[x]
    BY <1>2
  <2>2. x # {} /\ Max(x) = k + 1 /\ x \ {Max(x)} = 1..k
    BY MaxUpto
  <2> HIDE DEF x, f
  <2>3. g[x] = step[<<Max(x), g[x \ {Max(x)}]>>]
    BY <1>2, <2>1, <2>2 DEF Steps
  <2>4. f[k + 1] = step[<<k + 1, f[k]>>]
    BY <2>1, <2>2, <2>3
  <2>5. k + 1 \in 1..n
    BY <1>2
  <2> QED BY <1>2, <2>4, <2>5
<1> DEFINE U == {k \in Nat : k <= n => f[k] \in S}
<1> HIDE DEF f
<1>3. 0 \in U
  BY <1>1
<1>4. ASSUME NEW k \in Nat, k \in U PROVE k + 1 \in U
  <2> SUFFICES ASSUME k + 1 <= n PROVE f[k + 1] \in S
    OBVIOUS
  <2>1. f[k] \in S
    BY <1>4
  <2> QED BY <1>2, <2>1
<1>5. Nat \subseteq U
  <2> HIDE DEF U
  <2> QED BY <1>3, <1>4, Induction
<1>6. f \in [0..n -> S]
  <2>1. \A k \in 0..n : f[k] \in S
    BY <1>5
  <2> QED BY <2>1 DEF f
<1>7. ASSUME NEW k \in 0..(n - 1) PROVE f[k + 1] = step[<<k + 1, f[k]>>]
  <2>1. k \in Nat /\ k + 1 <= n /\ k \in 0..n
    OBVIOUS
  <2> QED BY <1>2, <1>6, <2>1
<1>8. f[n] = g[1..n]
  BY DEF f
<1> QED BY <1>1, <1>6, <1>7, <1>8 DEF Walks

(* Within keeps the type of what it keeps. *)
LEMMA WithinType ==
    ASSUME NEW T, NEW s \in Seq(T), NEW set
    PROVE  Within(s, set) \in Seq(T)
<1> DEFINE n == Len(s)
           S == Seq(T)
           op(some, x) == IF x \in set THEN Append(some, x) ELSE some
           step == [p \in (1..n) \X S |-> op(p[2], s[p[1]])]
           Graph(g) == g = [x \in SUBSET (1..n) |-> IF x = {} THEN << >>
                                                   ELSE op(g[x \ {Max(x)}], s[Max(x)])]
<1>1. n \in Nat /\ << >> \in S /\ step \in [(1..n) \X S -> S] /\ DOMAIN s = 1..n
  OBVIOUS
<1>2. \E g : Graph(g)
  <2>1. PICK g : Folds(g, n, S, << >>, step)
    <3> HIDE DEF n, S, step
    <3> QED BY <1>1, FoldGraph
  <2>2. g \in [SUBSET (1..n) -> S] /\ g[{}] = << >>
    BY <2>1 DEF Folds
  <2>3. ASSUME NEW x \in SUBSET (1..n), x # {}
        PROVE  g[x] = op(g[x \ {Max(x)}], s[Max(x)])
    <3>1. Max(x) \in 1..n /\ x \ {Max(x)} \in SUBSET (1..n)
      BY <1>1, <2>3, MaxIn
    <3>2. g[x] = step[<<Max(x), g[x \ {Max(x)}]>>]
      BY <2>1, <2>3 DEF Folds
    <3>3. g[x \ {Max(x)}] \in S
      BY <2>2, <3>1
    <3> HIDE DEF S
    <3> QED BY <3>1, <3>2, <3>3
  <2> HIDE DEF n, S, step
  <2> QED BY <2>2, <2>3
<1> DEFINE iter == CHOOSE g : Graph(g)
<1>3. Graph(iter)
  <2> HIDE DEF Graph
  <2> QED BY <1>2
<1>4. Within(s, set) = iter[1..n]
  BY <1>1 DEF Within, FoldLeft, MapThenFoldSet, iter
<1> HIDE DEF iter
<1>5. Steps(iter, n, S, << >>, step)
  <2>1. iter[{}] = << >>
    BY <1>3
  <2>2. ASSUME NEW x \in SUBSET (1..n), x # {}, iter[x \ {Max(x)}] \in S
        PROVE  iter[x] = step[<<Max(x), iter[x \ {Max(x)}]>>]
    <3>1. Max(x) \in 1..n
      BY <1>1, <2>2, MaxIn
    <3>2. iter[x] = op(iter[x \ {Max(x)}], s[Max(x)])
      <4> HIDE DEF n, S, op
      <4> QED BY <1>3, <2>2
    <3> HIDE DEF S, n
    <3> QED BY <2>2, <3>1, <3>2
  <2> HIDE DEF n, S, step
  <2> QED BY <2>1, <2>2 DEF Steps
<1>6. PICK f : Walks(f, iter, n, S, << >>, step)
  <2> HIDE DEF n, S, step
  <2> QED BY <1>1, <1>5, Walked
<1> QED BY <1>1, <1>4, <1>6 DEF Walks

(* The groups of a plan, end to end, are calls again. *)
LEMMA FlattenType ==
    ASSUME NEW T, NEW s \in Seq(Seq(T))
    PROVE  Flat(s) \in Seq(T)
<1> DEFINE n == Len(s)
           S == Seq(T)
           op(steps, group) == steps \o group
           step == [p \in (1..n) \X S |-> op(p[2], s[p[1]])]
           Graph(g) == g = [x \in SUBSET (1..n) |-> IF x = {} THEN << >>
                                                   ELSE op(g[x \ {Max(x)}], s[Max(x)])]
<1>1. n \in Nat /\ << >> \in S /\ step \in [(1..n) \X S -> S] /\ DOMAIN s = 1..n
  OBVIOUS
<1>2. \E g : Graph(g)
  <2>1. PICK g : Folds(g, n, S, << >>, step)
    <3> HIDE DEF n, S, step
    <3> QED BY <1>1, FoldGraph
  <2>2. g \in [SUBSET (1..n) -> S] /\ g[{}] = << >>
    BY <2>1 DEF Folds
  <2>3. ASSUME NEW x \in SUBSET (1..n), x # {}
        PROVE  g[x] = op(g[x \ {Max(x)}], s[Max(x)])
    <3>1. Max(x) \in 1..n /\ x \ {Max(x)} \in SUBSET (1..n)
      BY <1>1, <2>3, MaxIn
    <3>2. g[x] = step[<<Max(x), g[x \ {Max(x)}]>>]
      BY <2>1, <2>3 DEF Folds
    <3>3. g[x \ {Max(x)}] \in S
      BY <2>2, <3>1
    <3> HIDE DEF S
    <3> QED BY <3>1, <3>2, <3>3
  <2> HIDE DEF n, S, step
  <2> QED BY <2>2, <2>3
<1> DEFINE iter == CHOOSE g : Graph(g)
<1>3. Graph(iter)
  <2> HIDE DEF Graph
  <2> QED BY <1>2
<1>4. Flat(s) = iter[1..n]
  BY <1>1 DEF Flat, FoldLeft, MapThenFoldSet, iter
<1> HIDE DEF iter
<1>5. Steps(iter, n, S, << >>, step)
  <2>1. iter[{}] = << >>
    BY <1>3
  <2>2. ASSUME NEW x \in SUBSET (1..n), x # {}, iter[x \ {Max(x)}] \in S
        PROVE  iter[x] = step[<<Max(x), iter[x \ {Max(x)}]>>]
    <3>1. Max(x) \in 1..n
      BY <1>1, <2>2, MaxIn
    <3>2. iter[x] = op(iter[x \ {Max(x)}], s[Max(x)])
      <4> HIDE DEF n, S, op
      <4> QED BY <1>3, <2>2
    <3> HIDE DEF S, n
    <3> QED BY <2>2, <3>1, <3>2
  <2> HIDE DEF n, S, step
  <2> QED BY <2>1, <2>2 DEF Steps
<1>6. PICK f : Walks(f, iter, n, S, << >>, step)
  <2> HIDE DEF n, S, step
  <2> QED BY <1>1, <1>5, Walked
<1> HIDE DEF op
<1> QED BY <1>1, <1>4, <1>6 DEF Walks

-----------------------------------------------------------------------------
(* The invariant of the types. *)

Harmless == {"object", "range", "window", "vector", "runbook"}    \* reads that leave the draft alone
Surround == {"events", "log", "loki", "claims", "topology", "correlations", "nodes", "rest", "trends"}
ReadType == (({"pod", "live"} \cup Harmless \cup (Surround \ {"log"})) \X {All}) \cup ({"log"} \X Containers)
SaysType == {"fault", "recent", "alert", "hit", "nothing", "unread", "", "object_missing",
             "object_present", "key_missing", "empty", "non_empty"}
CallType == [tool: Tools, target: Targets, fresh: BOOLEAN, todo: Seq(ReadType), tries: Nat,
             draft: ContextType, says: SaysType, status: {"running", "hung", "done", "failed"}]
Has(s, kind) == \E i \in DOMAIN s : s[i][1] = kind
AllOf(s, kinds) == \A i \in DOMAIN s : s[i][1] \in kinds

DraftOK(d) == d \in ContextType /\ (d.pod = << >> => d = Nothing)

(* What a call has read and has left to read: the pod is read first, and only once it is    *)
(* known anything is read that belongs to it.                                               *)
TodoOK(call) ==
    /\ call.status = "done" => call.todo = << >>
    /\ call.status \in {"running", "hung"} => call.todo # << >>
    /\ \A i \in DOMAIN call.todo : call.todo[i][1] \in {"pod", "live"} => i = 1 /\ call.draft = Nothing
    /\ call.draft = Nothing /\ call.todo # << >> =>
           Head(call.todo)[1] = "pod" \/ AllOf(call.todo, Harmless \cup {"live"})
    /\ call.tool \in SnapshotTools => AllOf(call.todo, Surround \cup {"pod"})

(* Of the snapshot a tool has its section; a tool that has nothing to refresh reads nothing. *)
SnapshotOK(call, known) ==
    /\ call.tool = "collect" => ~known
    /\ call.tool \in SnapshotTools => call.says # "hit"
    /\ call.fresh => call.tool \in SnapshotTools
    /\ call.tool \in SnapshotTools /\ ~call.fresh => call.todo = << >> /\ call.draft = Nothing
    /\ known /\ call.fresh => Sections(call.tool) # {}
    /\ \A f \in DOMAIN Nothing \ Section(call.tool) : call.draft[f] = Nothing[f]
CallOK(call, known) ==
    call \in CallType /\ DraftOK(call.draft) /\ TodoOK(call) /\ SnapshotOK(call, known)

ClusterOK(cl) ==
    /\ cl \in [now: Moments, deaths: [Containers -> Seq(Moments)], events: SUBSET EventType]
    /\ [at |-> 1, fault |-> FALSE] \in cl.events
    /\ \A c \in Containers : /\ Len(cl.deaths[c]) < cl.now
                             /\ \A n \in DOMAIN cl.deaths[c] : cl.deaths[c][n] <= cl.now
                             /\ \A m, n \in DOMAIN cl.deaths[c] : m < n => cl.deaths[c][m] < cl.deaths[c][n]

CollectInv ==
    /\ ClusterOK(cluster)
    /\ goal \in RequestType /\ called \subseteq Tools
    /\ budget \in [errors: 0..MaxErrors, hangs: 0..MaxHangs]
    /\ DraftOK(context)
    /\ plan \in Seq(Seq(AgentCalls)) \/ (plan = LegacyPlan /\ calls = << >> /\ ~Known)
    /\ calls \in Seq(CallType) /\ \A i \in DOMAIN calls : CallOK(calls[i], Known)

-----------------------------------------------------------------------------
(* Lemmas about the operators of the model. *)

(* The latest of some moments is one of them and no earlier than any. *)
LEMMA LatestIn ==
    ASSUME NEW m \in Nat, NEW T \in SUBSET (0..m), T # {}
    PROVE  Latest(T) \in T /\ \A u \in T : u <= Latest(T)
<1> DEFINE B == {m - t : t \in T}
<1>1. B \subseteq Nat /\ B # {}
  <2>1. \A t \in T : m - t \in Nat
    OBVIOUS
  <2> QED BY <2>1
<1>2. PICK b \in B : \A x \in B : b <= x
  <2> HIDE DEF B
  <2> QED BY <1>1, Least
<1>3. PICK t \in T : b = m - t
  BY <1>2
<1>4. \A u \in T : m - t <= m - u
  BY <1>2, <1>3
<1>5. \A u \in T : u <= t
  BY <1>4
<1> QED BY <1>5 DEF Latest

(* The latest of moments is a moment, or 0 when there are none. *)
LEMMA LatestType ==
    ASSUME NEW m \in Nat, NEW T \in SUBSET (0..m)
    PROVE  Latest(T) \in 0..m
<1>1. CASE T = {}
  BY <1>1 DEF Latest
<1>2. CASE T # {}
  BY <1>2, LatestIn
<1> QED BY <1>1, <1>2

(* The sequence that SetToSeq makes of a finite set. *)
LEMMA SequenceOfSet ==
    ASSUME NEW T, IsFiniteSet(T)
    PROVE  SetToSeq(T) \in Seq(T) /\ (T # {} => SetToSeq(T) # << >>)
<1> DEFINE n == Cardinality(T)
<1>1. n \in Nat /\ (T # {} => n # 0)
  BY FS_CardinalityType, FS_EmptySet
<1>2. \E f \in [1..n -> T] : IsInjective(f)
  <2>1. PICK f : f \in Bijection(1..n, T)
    BY FS_CardinalityType DEF ExistsBijection
  <2> QED BY <2>1 DEF Bijection, Injection, IsInjective
<1>3. SetToSeq(T) \in [1..n -> T]
  BY <1>2 DEF SetToSeq
<1> HIDE DEF n
<1> QED BY <1>1, <1>3

(* One read for each container of a set. *)
LEMMA EachType ==
    ASSUME NEW what, NEW T, IsFiniteSet(T)
    PROVE  /\ Each(what, T) \in Seq({what} \X T)
           /\ T # {} => Each(what, T) # << >>
<1> DEFINE s == SetToSeq(T)
<1>1. s \in Seq(T) /\ (T # {} => s # << >>)
  BY SequenceOfSet
<1>2. Each(what, T) = [i \in DOMAIN s |-> <<what, s[i]>>]
  BY DEF Each
<1> HIDE DEF s
<1> QED BY <1>1, <1>2

(* Sequences of reads: what they have when they are joined, and when one is done. *)
LEMMA HasJoined ==
    ASSUME NEW R, NEW s \in Seq(R), NEW t \in Seq(R), NEW kind
    PROVE  Has(s, kind) \/ Has(t, kind) => Has(s \o t, kind)
<1>1. ASSUME NEW i \in DOMAIN s, s[i][1] = kind PROVE Has(s \o t, kind)
  <2>1. i \in DOMAIN (s \o t) /\ (s \o t)[i] = s[i]
    OBVIOUS
  <2> QED BY <1>1, <2>1 DEF Has
<1>2. ASSUME NEW i \in DOMAIN t, t[i][1] = kind PROVE Has(s \o t, kind)
  <2>1. Len(s) + i \in DOMAIN (s \o t) /\ (s \o t)[Len(s) + i] = t[i]
    OBVIOUS
  <2> QED BY <1>2, <2>1 DEF Has
<1> QED BY <1>1, <1>2 DEF Has

(* Joined sequences hold the kinds of reads that both hold. *)
LEMMA AllJoined ==
    ASSUME NEW R, NEW s \in Seq(R), NEW t \in Seq(R), NEW kinds, AllOf(s, kinds), AllOf(t, kinds)
    PROVE  AllOf(s \o t, kinds)
<1> SUFFICES ASSUME NEW i \in DOMAIN (s \o t) PROVE (s \o t)[i][1] \in kinds
  BY DEF AllOf
<1>1. CASE i <= Len(s)
  <2>1. i \in DOMAIN s /\ (s \o t)[i] = s[i]
    BY <1>1
  <2> QED BY <2>1 DEF AllOf
<1>2. CASE i > Len(s)
  <2>1. i - Len(s) \in DOMAIN t /\ (s \o t)[i] = t[i - Len(s)]
    BY <1>2
  <2> QED BY <2>1 DEF AllOf
<1> QED BY <1>1, <1>2

(* What is left of a sequence of reads when the first is done. *)
LEMMA TailOf ==
    ASSUME NEW R, NEW s \in Seq(R), s # << >>
    PROVE  /\ Tail(s) \in Seq(R) /\ Head(s) \in R /\ Head(s) = s[1] /\ 1 \in DOMAIN s
           /\ \A i \in DOMAIN Tail(s) : i + 1 \in DOMAIN s /\ Tail(s)[i] = s[i + 1] /\ i + 1 # 1
           /\ \A kinds : AllOf(s, kinds) => AllOf(Tail(s), kinds) /\ Head(s)[1] \in kinds
           /\ \A kind : Has(s, kind) => Head(s)[1] = kind \/ Has(Tail(s), kind)
<1>1. Tail(s) \in Seq(R) /\ Head(s) \in R /\ Head(s) = s[1] /\ 1 \in DOMAIN s
  OBVIOUS
<1>2. \A i \in DOMAIN Tail(s) : i + 1 \in DOMAIN s /\ Tail(s)[i] = s[i + 1] /\ i + 1 # 1
  OBVIOUS
<1>3. ASSUME NEW kinds, AllOf(s, kinds) PROVE AllOf(Tail(s), kinds) /\ Head(s)[1] \in kinds
  BY <1>1, <1>2, <1>3 DEF AllOf
<1>4. ASSUME NEW kind, NEW i \in DOMAIN s, s[i][1] = kind, i # 1 PROVE Has(Tail(s), kind)
  <2>1. i - 1 \in DOMAIN Tail(s) /\ Tail(s)[i - 1] = s[i]
    BY <1>4
  <2> QED BY <1>4, <2>1 DEF Has
<1>5. ASSUME NEW kind, Has(s, kind) PROVE Head(s)[1] = kind \/ Has(Tail(s), kind)
  BY <1>1, <1>4, <1>5 DEF Has
<1> QED BY <1>1, <1>2, <1>3, <1>5

(* The reads of Collect: the pod, and then what belongs to it. *)
ReadsOK(r) ==
    /\ r \in Seq(ReadType) /\ r # << >> /\ r[1] = <<"pod", All>>
    /\ \A i \in DOMAIN r : i # 1 => r[i][1] \in Surround

(* The sequences of reads that follow the pod can be joined. *)
LEMMA ReadsJoined ==
    ASSUME NEW r, ReadsOK(r), NEW t \in Seq(ReadType), AllOf(t, Surround)
    PROVE  /\ ReadsOK(r \o t)
           /\ \A kind : Has(r, kind) \/ Has(t, kind) => Has(r \o t, kind)
<1> DEFINE u == r \o t
<1>1. r \in Seq(ReadType) /\ r # << >>
  BY DEF ReadsOK
<1>2. u \in Seq(ReadType) /\ u # << >> /\ u[1] = r[1]
  BY <1>1
<1>3. ASSUME NEW i \in DOMAIN u, i # 1 PROVE u[i][1] \in Surround
  <2>1. CASE i <= Len(r)
    <3>1. i \in DOMAIN r /\ u[i] = r[i]
      BY <1>1, <2>1
    <3> QED BY <1>3, <3>1 DEF ReadsOK
  <2>2. CASE i > Len(r)
    <3>1. i - Len(r) \in DOMAIN t /\ u[i] = t[i - Len(r)]
      BY <1>1, <2>2
    <3> QED BY <3>1 DEF AllOf
  <2> QED BY <1>1, <2>1, <2>2
<1>4. ReadsOK(u)
  BY <1>2, <1>3 DEF ReadsOK
<1> QED BY <1>1, <1>4, HasJoined

(* Collect reads the pod first, and of its sections what it was asked for. *)
LEMMA CollectReadsOK ==
    ASSUME NEW sections, NEW target \in Targets, NEW surroundings \in BOOLEAN
    PROVE  LET r == CollectReads(sections, target, surroundings) IN
           /\ ReadsOK(r)
           /\ sections \cap {"events", "logs"} # {} => Has(r, "events")
           /\ "logs" \in sections => Has(r, "log")
           /\ surroundings => Has(r, "claims")
<1> DEFINE cs == IF target = All THEN Containers ELSE {target}
           a == Optional(sections \cap {"events", "logs"} # {}, << <<"events", All>> >>)
           b == Optional("logs" \in sections, Each("log", cs))
           l == Optional("logs" \in sections /\ "loki" \in Configured, << <<"loki", All>> >>)
           s == IF surroundings THEN << <<"claims", All>>, <<"topology", All>>, <<"correlations", All>>, <<"nodes", All>> >>
                ELSE << <<"rest", All>> >>
           m == Optional("metrics" \in sections /\ "prometheus" \in Configured, << <<"trends", All>> >>)
           p == << <<"pod", All>> >>
<1>1. IsFiniteSet(cs) /\ cs # {} /\ cs \subseteq Containers
  <2>1. target # All => IsFiniteSet({target}) /\ target \in Containers
    BY FS_Singleton DEF Targets
  <2> QED BY <2>1, ContainerAssumption
<1>2. Each("log", cs) \in Seq({"log"} \X cs) /\ Each("log", cs) # << >>
  <2> HIDE DEF cs
  <2> QED BY <1>1, EachType
<1>3. Each("log", cs) \in Seq(ReadType) /\ AllOf(Each("log", cs), Surround) /\ Has(Each("log", cs), "log")
  <2> DEFINE e == Each("log", cs)
  <2> HIDE DEF e, cs
  <2>1. e \in Seq({"log"} \X cs) /\ e # << >>
    BY <1>2 DEF e
  <2>2. \A i \in DOMAIN e : e[i] \in {"log"} \X cs /\ e[i] \in ReadType
    BY <1>1, <2>1 DEF ReadType
  <2>3. e \in Seq(ReadType)
    BY <2>1, <2>2
  <2>4. 1 \in DOMAIN e
    BY <2>1
  <2> QED BY <2>2, <2>3, <2>4 DEF Has, AllOf, Surround, e
<1>4. ReadsOK(p)
  BY DEF ReadsOK, ReadType
<1>5. a \in Seq(ReadType) /\ AllOf(a, Surround) /\ (sections \cap {"events", "logs"} # {} => Has(a, "events"))
  BY DEF Optional, AllOf, Has, Surround, ReadType
<1>6. b \in Seq(ReadType) /\ AllOf(b, Surround) /\ ("logs" \in sections => Has(b, "log"))
  <2> HIDE DEF cs
  <2>1. AllOf(<< >>, Surround)
    BY DEF AllOf
  <2> QED BY <1>3, <2>1 DEF Optional
<1>0. \A kind \in Surround \ {"log"} : <<kind, All>> \in ReadType
  BY DEF ReadType
<1>7. l \in Seq(ReadType) /\ AllOf(l, Surround)
  <2>1. << <<"loki", All>> >> \in Seq(ReadType) /\ AllOf(<< <<"loki", All>> >>, Surround)
    BY <1>0 DEF AllOf, Surround
  <2>2. << >> \in Seq(ReadType) /\ AllOf(<< >>, Surround)
    BY DEF AllOf
  <2> QED BY <2>1, <2>2 DEF Optional
<1>8. s \in Seq(ReadType) /\ AllOf(s, Surround) /\ (surroundings => Has(s, "claims"))
  <2> DEFINE full == << <<"claims", All>>, <<"topology", All>>, <<"correlations", All>>, <<"nodes", All>> >>
             rest == << <<"rest", All>> >>
  <2>1. full \in Seq(ReadType) /\ rest \in Seq(ReadType)
    BY <1>0 DEF Surround
  <2>2. AllOf(rest, Surround)
    BY DEF AllOf, Surround
  <2>3. DOMAIN full = 1..4 /\ full[1][1] = "claims" /\ full[2][1] = "topology"
          /\ full[3][1] = "correlations" /\ full[4][1] = "nodes"
    OBVIOUS
  <2>4. s = IF surroundings THEN full ELSE rest
    OBVIOUS
  <2> HIDE DEF full, rest, s
  <2>5. AllOf(full, Surround) /\ Has(full, "claims")
    BY <2>3 DEF AllOf, Has, Surround
  <2> QED BY <2>1, <2>2, <2>4, <2>5
<1>9. m \in Seq(ReadType) /\ AllOf(m, Surround)
  <2>1. << <<"trends", All>> >> \in Seq(ReadType) /\ AllOf(<< <<"trends", All>> >>, Surround)
    BY <1>0 DEF AllOf, Surround
  <2>2. << >> \in Seq(ReadType) /\ AllOf(<< >>, Surround)
    BY DEF AllOf
  <2> QED BY <2>1, <2>2 DEF Optional
<1>10. CollectReads(sections, target, surroundings) = ((((p \o a) \o b) \o l) \o s) \o m
  BY DEF CollectReads
<1> HIDE DEF a, b, l, s, m, p, cs
<1>11. ReadsOK(p \o a) /\ (sections \cap {"events", "logs"} # {} => Has(p \o a, "events"))
  BY <1>4, <1>5, ReadsJoined
<1>12. ReadsOK((p \o a) \o b) /\ (sections \cap {"events", "logs"} # {} => Has((p \o a) \o b, "events"))
         /\ ("logs" \in sections => Has((p \o a) \o b, "log"))
  BY <1>6, <1>11, ReadsJoined
<1> DEFINE x == (p \o a) \o b
           y == x \o l
           z == y \o s
<1>13. /\ ReadsOK(x) /\ (sections \cap {"events", "logs"} # {} => Has(x, "events"))
       /\ "logs" \in sections => Has(x, "log")
  BY <1>12
<1> HIDE DEF x
<1>14. /\ ReadsOK(y) /\ (sections \cap {"events", "logs"} # {} => Has(y, "events"))
       /\ "logs" \in sections => Has(y, "log")
  BY <1>7, <1>13, ReadsJoined
<1> HIDE DEF y
<1>15. /\ ReadsOK(z) /\ (sections \cap {"events", "logs"} # {} => Has(z, "events"))
       /\ ("logs" \in sections => Has(z, "log")) /\ (surroundings => Has(z, "claims"))
  BY <1>8, <1>14, ReadsJoined
<1> HIDE DEF z
<1>16. /\ ReadsOK(z \o m) /\ (sections \cap {"events", "logs"} # {} => Has(z \o m, "events"))
       /\ ("logs" \in sections => Has(z \o m, "log")) /\ (surroundings => Has(z \o m, "claims"))
  BY <1>9, <1>15, ReadsJoined
<1> QED BY <1>10, <1>16 DEF x, y, z

(* What a context is made of. *)
PodType == {<< >>} \cup [Containers -> 0..MaxMoments]
LogType == [shows: SUBSET (0..MaxMoments), fault: 0..MaxMoments, loki: BOOLEAN]
LogsType == UNION {[cs -> LogType] : cs \in SUBSET Containers}
TrendType == {"no_data", "progressive_growth", "sudden_spike", "restart_increasing", "stable", "query_failed"}
TrendsType == UNION {[ps -> TrendType] : ps \in SUBSET Profiles}
Extents == {"none", "partial", "full"}

(* The type of a context, with its fields named. *)
LEMMA ContextIs ==
    ContextType = [pod: PodType, events: SUBSET EventType, logs: LogsType, fault: 0..MaxMoments,
                   claim: Phases \cup {"none", "Unknown"}, topology: Extents, correlations: Extents,
                   nodes: BOOLEAN, trends: TrendsType]
BY DEF ContextType, PodType, LogType, LogsType, TrendType, TrendsType, Extents

(* The bounds of the model are numbers. *)
LEMMA Bounds == MaxAttempts \in Nat \ {0} /\ MaxMoments \in Nat \ {0} /\ MaxErrors \in Nat /\ MaxHangs \in Nat
BY BoundAssumption

(* The logs of a context are a function on some of the containers. *)
LEMMA LogsIs ==
    ASSUME NEW f
    PROVE  f \in LogsType <=> \E cs \in SUBSET Containers : f \in [cs -> LogType]
BY DEF LogsType

(* The empty context is a context. *)
LEMMA NothingOK == DraftOK(Nothing) /\ Nothing.pod = << >> /\ DOMAIN Nothing.logs = {}
<1>1. << >> \in LogsType
  <2>1. << >> \in [{} -> LogType]
    OBVIOUS
  <2> QED BY <2>1 DEF LogsType
<1>2. << >> \in TrendsType
  <2>1. << >> \in [{} -> TrendType]
    OBVIOUS
  <2> QED BY <2>1 DEF TrendsType
<1>3. 0 \in 0..MaxMoments
  BY Bounds
<1>4. Nothing \in ContextType
  <2> HIDE DEF LogsType, TrendsType
  <2> QED BY <1>1, <1>2, <1>3, ContextIs DEF Nothing, PodType, Extents
<1> QED BY <1>4 DEF DraftOK, Nothing

(* A pod that was read is not the empty one: it has a container. *)
LEMMA PodKnown ==
    ASSUME NEW f \in [Containers -> 0..MaxMoments]
    PROVE  f # << >>
<1>1. DOMAIN f # {} /\ DOMAIN << >> = {}
  BY ContainerAssumption
<1> QED BY <1>1

(* The logs with one more, or one replaced. *)
LEMMA WithType ==
    ASSUME NEW f \in LogsType, NEW x \in Containers, NEW v \in LogType
    PROVE  /\ With(f, x, v) \in LogsType /\ DOMAIN With(f, x, v) = DOMAIN f \cup {x}
           /\ \A y \in DOMAIN f \cup {x} : With(f, x, v)[y] = IF y = x THEN v ELSE f[y]
<1>1. PICK cs \in SUBSET Containers : f \in [cs -> LogType]
  BY LogsIs
<1>2. With(f, x, v) \in [cs \cup {x} -> LogType]
  BY <1>1 DEF With
<1>3. With(f, x, v) \in LogsType
  BY <1>2, LogsIs
<1> QED BY <1>3 DEF With

(* The last death of a container is a moment, and none of its deaths is later. *)
LEMMA LastDeathType ==
    ASSUME ClusterOK(cluster), NEW c \in Containers
    PROVE  /\ LastDeath(c) \in 0..MaxMoments /\ LastDeath(c) <= cluster.now
           /\ LastDeath(c) # 0 => Len(cluster.deaths[c]) \in DOMAIN cluster.deaths[c]
                                  /\ LastDeath(c) = cluster.deaths[c][Len(cluster.deaths[c])]
           /\ \A n \in DOMAIN cluster.deaths[c] : cluster.deaths[c][n] <= LastDeath(c)
<1> DEFINE ds == cluster.deaths[c]
<1>1. ds \in Seq(Moments) /\ cluster.now \in Moments /\ Len(ds) \in Nat /\ DOMAIN ds = 1..Len(ds)
  BY DEF ClusterOK
<1>2. /\ \A n \in DOMAIN ds : ds[n] <= cluster.now
      /\ \A m, n \in DOMAIN ds : m < n => ds[m] < ds[n]
  BY DEF ClusterOK
<1>3. LastDeath(c) = IF ds = << >> THEN 0 ELSE ds[Len(ds)]
  BY DEF LastDeath, Last
<1> HIDE DEF ds
<1>4. CASE ds = << >>
  BY <1>1, <1>3, <1>4, Bounds DEF Moments, ds
<1>5. CASE ds # << >>
  <2>1. Len(ds) \in DOMAIN ds /\ LastDeath(c) = ds[Len(ds)]
    BY <1>1, <1>3, <1>5
  <2>2. \A n \in DOMAIN ds : ds[n] \in Moments
    BY <1>1
  <2>3. ASSUME NEW n \in DOMAIN ds PROVE ds[n] <= ds[Len(ds)]
    <3>1. n = Len(ds) \/ n < Len(ds)
      BY <1>1
    <3>2. ds[n] \in Int /\ ds[Len(ds)] \in Int
      BY <2>1, <2>2, Bounds DEF Moments
    <3> QED BY <1>2, <2>1, <3>1, <3>2
  <2>4. LastDeath(c) \in Moments /\ LastDeath(c) <= cluster.now
    BY <1>2, <2>1, <2>2
  <2> QED BY <2>1, <2>3, <2>4, Bounds DEF Moments, ds
<1> QED BY <1>4, <1>5

(* The lines that are kept are numbered by instances of the container. *)
LEMMA LinesType ==
    ASSUME ClusterOK(cluster), NEW c \in Containers, NEW f
    PROVE  Lines(c, f) \in SUBSET (0..MaxMoments)
<1>1. cluster.deaths[c] \in Seq(Moments) /\ Len(cluster.deaths[c]) < cluster.now /\ cluster.now \in Moments
  BY DEF ClusterOK
<1> DEFINE n == Len(cluster.deaths[c])
<1>2. n \in 0..MaxMoments
  BY <1>1, Bounds DEF Moments
<1>3. Lines(c, f) \subseteq {n, n - 1} \cap Nat
  BY DEF Lines
<1> HIDE DEF n
<1> QED BY <1>2, <1>3, Bounds

(* A trend has one of its classes. *)
LEMMA ClassifyType ==
    ASSUME NEW p, NEW s
    PROVE  Classify(p, s) \in TrendType
BY DEF Classify, TrendType

(* The fault time is a moment; a death outranks events and the alert. *)
LEMMA FaultTimeType ==
    ASSUME NEW d \in ContextType, d.pod # << >>, goal \in RequestType
    PROVE  /\ FaultTime(d) \in 0..MaxMoments
           /\ \A c \in Containers : d.pod[c] > 0 /\ (\A k \in Containers : d.pod[k] <= d.pod[c]) =>
                                        FaultTime(d) = d.pod[c]
<1> DEFINE P == {d.pod[c] : c \in Containers}
           F == {e.at : e \in {x \in d.events : x.fault}}
           E == {e.at : e \in d.events}
<1>1. d.pod \in [Containers -> 0..MaxMoments] /\ d.events \subseteq EventType /\ goal.alert \in 0..MaxMoments
  BY ContextIs DEF PodType, RequestType
<1>2. P \in SUBSET (0..MaxMoments)
  BY <1>1
<1>3. F \in SUBSET (0..MaxMoments) /\ E \in SUBSET (0..MaxMoments)
  <2>1. \A e \in d.events : e.at \in 0..MaxMoments
    BY <1>1, Bounds DEF EventType, Moments
  <2> QED BY <2>1
<1>4. FaultTime(d) = IF Latest(P) # 0 THEN Latest(P) ELSE IF Latest(F) # 0 THEN Latest(F)
                     ELSE IF Latest(E) # 0 THEN Latest(E) ELSE goal.alert
  BY DEF FaultTime
<1> HIDE DEF F, E
<1>5. FaultTime(d) \in 0..MaxMoments
  <2> HIDE DEF P
  <2>1. Latest(P) \in 0..MaxMoments /\ Latest(F) \in 0..MaxMoments /\ Latest(E) \in 0..MaxMoments
    BY <1>2, <1>3, LatestType, Bounds
  <2> QED BY <1>1, <1>4, <2>1
<1>6. ASSUME NEW c \in Containers, d.pod[c] > 0, \A k \in Containers : d.pod[k] <= d.pod[c]
      PROVE  FaultTime(d) = d.pod[c]
  <2>1. d.pod[c] \in P /\ P # {}
    OBVIOUS
  <2>2. Latest(P) \in P /\ d.pod[c] <= Latest(P)
    <3> HIDE DEF P
    <3> QED BY <1>2, <2>1, LatestIn, Bounds
  <2>3. PICK k \in Containers : Latest(P) = d.pod[k]
    BY <2>2
  <2>4. Latest(P) = d.pod[c]
    BY <1>1, <1>6, <2>2, <2>3
  <2> HIDE DEF P
  <2> QED BY <1>1, <1>4, <1>6, <2>4
<1> QED BY <1>5, <1>6

(* The kinds of reads. *)
LEMMA ReadIs ==
    ASSUME NEW read \in ReadType
    PROVE  /\ read[1] \in {"pod", "live"} \cup Harmless \cup Surround
           /\ read[1] = "log" => read[2] \in Containers
BY DEF ReadType, Surround, Harmless

(* A read that succeeds leaves a context in its type, changes what it is about and nothing  *)
(* else.                                                                                    *)
Learned(e, d, read) ==
    /\ read[1] \in Harmless => e = d
    /\ read[1] \in {"pod", "live"} => e = GetPod(d) /\ e.pod = [c \in Containers |-> LastDeath(c)]
    /\ read[1] \notin {"pod", "live"} => e.pod = d.pod
    /\ read[1] = "events" => e.events = cluster.events
    /\ read[1] # "events" => e.events = d.events
    /\ read[1] = "log" => e = CollectPodLogs(d, read[2], Lines(read[2], FaultTime(d)))
    /\ read[1] = "loki" => e = CollectLokiLogs(d)
    /\ read[1] \notin {"log", "loki"} => e.logs = d.logs
    /\ read[1] = "claims" => e.claim \in Phases
    /\ read[1] # "claims" => e.claim = d.claim

(* Every outcome of a read that succeeds is in its type, and is as said. *)
LEMMA LearntOK ==
    ASSUME ClusterOK(cluster), goal \in RequestType, NEW d, DraftOK(d), NEW read \in ReadType,
           read[1] \in Surround => d.pod # << >>, NEW e \in Learnt(d, read)
    PROVE  DraftOK(e) /\ Learned(e, d, read)
<1>1. d \in ContextType /\ (d.pod = << >> => d = Nothing)
  BY DEF DraftOK
<1>2. /\ d.pod \in PodType /\ d.logs \in LogsType /\ d.topology \in Extents /\ DOMAIN d = DOMAIN Nothing
      /\ \A c \in Containers : LastDeath(c) \in 0..MaxMoments
  BY <1>1, ContextIs, LastDeathType DEF Nothing
<1>3. CASE read[1] \in {"pod", "live"}
  <2>1. e = GetPod(d)
    BY <1>3 DEF Learnt
  <2>2. e = [d EXCEPT !.pod = [c \in Containers |-> LastDeath(c)]]
    BY <2>1 DEF GetPod
  <2>3. [c \in Containers |-> LastDeath(c)] \in [Containers -> 0..MaxMoments]
    BY <1>2
  <2>4. e \in ContextType /\ e.pod # << >>
    BY <1>1, <2>2, <2>3, PodKnown, ContextIs DEF PodType
  <2>5. e.pod = [c \in Containers |-> LastDeath(c)]
    BY <1>1, <2>2, ContextIs
  <2> QED BY <1>1, <1>3, <2>1, <2>2, <2>4, <2>5, ContextIs DEF DraftOK, Learned, Harmless
<1>4. CASE read[1] = "events"
  <2>1. e = [d EXCEPT !.events = cluster.events]
    BY <1>4 DEF Learnt, ListPodEvents
  <2>2. cluster.events \in SUBSET EventType
    BY DEF ClusterOK
  <2>3. e \in ContextType
    BY <1>1, <2>1, <2>2, ContextIs
  <2> QED BY <1>1, <1>4, <2>1, <2>3, ContextIs DEF DraftOK, Learned, Harmless, Surround
<1>5. CASE read[1] = "log"
  <2> DEFINE c == read[2]
             t == FaultTime(d)
             v == [shows |-> Lines(c, t), fault |-> t, loki |-> FALSE]
  <2>1. c \in Containers /\ d.pod # << >>
    BY <1>5, ReadIs DEF Surround
  <2>2. v \in LogType
    BY <1>1, <2>1, FaultTimeType, LinesType DEF LogType
  <2>3. e = CollectPodLogs(d, c, Lines(c, t))
    BY <1>5 DEF Learnt
  <2>4. e = [d EXCEPT !.fault = t, !.logs = With(d.logs, c, v)]
    BY <1>1, <2>3, ContextIs DEF CollectPodLogs
  <2>5. t \in 0..MaxMoments
    BY <1>1, <2>1, FaultTimeType
  <2> HIDE DEF c, t, v
  <2>5a. With(d.logs, c, v) \in LogsType
    BY <1>1, <1>2, <2>1, <2>2, WithType
  <2>6. e \in ContextType
    BY <1>1, <2>4, <2>5, <2>5a, ContextIs
  <2> QED BY <1>1, <1>5, <2>1, <2>3, <2>4, <2>6, ContextIs DEF DraftOK, Learned, Harmless, Surround, c, t
<1>6. CASE read[1] = "loki"
  <2> DEFINE l == [c \in DOMAIN d.logs |-> [d.logs[c] EXCEPT !.loki = TRUE]]
  <2>1. d.pod # << >> /\ e = CollectLokiLogs(d)
    BY <1>6 DEF Learnt, Surround
  <2>2. e = [d EXCEPT !.logs = l]
    BY <1>1, <2>1, ContextIs DEF CollectLokiLogs
  <2>3. PICK cs \in SUBSET Containers : d.logs \in [cs -> LogType]
    BY <1>2, LogsIs
  <2>4. l \in [cs -> LogType]
    BY <2>3 DEF LogType
  <2>5. l \in LogsType
    BY <2>4, LogsIs
  <2> HIDE DEF l
  <2>6. e \in ContextType
    BY <1>1, <2>2, <2>5, ContextIs
  <2> QED BY <1>1, <1>6, <2>1, <2>2, <2>6, ContextIs DEF DraftOK, Learned, Harmless, Surround
<1>7. CASE read[1] = "claims"
  <2>1. PICK phase \in Phases : e = [d EXCEPT !.claim = phase]
    BY <1>7 DEF Learnt, ListPodPVCs
  <2>2. e \in ContextType
    BY <1>1, <2>1, ContextIs
  <2> QED BY <1>1, <1>7, <2>1, <2>2, ContextIs DEF DraftOK, Learned, Harmless, Surround
<1>8. CASE read[1] \in {"topology", "correlations", "nodes"}
  <2>1. \/ e = [d EXCEPT !.topology = "full"] \/ e = [d EXCEPT !.correlations = d.topology]
        \/ e = [d EXCEPT !.nodes = TRUE]
    BY <1>8 DEF Learnt, CollectTopology, CollectCorrelations, ListNodeSnapshots
  <2>2. e \in ContextType
    BY <1>1, <1>2, <2>1, ContextIs DEF Extents
  <2>3. e.pod = d.pod /\ e.events = d.events /\ e.logs = d.logs /\ e.claim = d.claim
    BY <1>1, <2>1, ContextIs
  <2> QED BY <1>1, <1>8, <2>2, <2>3, ContextIs DEF DraftOK, Learned, Harmless, Surround
<1>9. CASE read[1] = "trends"
  <2>1. PICK s \in Samples : e = [d EXCEPT !.trends = [p \in Profiles |-> Classify(p, s)]]
    BY <1>9 DEF Learnt, CollectTrends
  <2>2. [p \in Profiles |-> Classify(p, s)] \in TrendsType
    <3>1. [p \in Profiles |-> Classify(p, s)] \in [Profiles -> TrendType]
      BY ClassifyType
    <3> HIDE DEF Profiles
    <3> QED BY <3>1 DEF TrendsType
  <2>3. e \in ContextType
    BY <1>1, <2>1, <2>2, ContextIs
  <2> QED BY <1>1, <1>9, <2>1, <2>3, ContextIs DEF DraftOK, Learned, Harmless, Surround
<1>10. CASE read[1] \in Harmless \cup {"rest"}
  <2>1. e = d
    BY <1>10 DEF Learnt, Harmless
  <2> QED BY <1>1, <1>10, <2>1 DEF DraftOK, Learned, Harmless
<1> QED BY <1>3, <1>4, <1>5, <1>6, <1>7, <1>8, <1>9, <1>10, ReadIs DEF Surround

(* A read that fails for good leaves what was read before; without its pod nothing is read. *)
LEMMA MissedOK ==
    ASSUME goal \in RequestType, NEW d, DraftOK(d), NEW read \in ReadType,
           read[1] \in Surround => d.pod # << >>, NEW e, e = Missed(d, read)
    PROVE  /\ DraftOK(e) /\ e.pod = d.pod /\ e.events = d.events
           /\ read[1] \notin Surround => e = d
           /\ read[1] = "log" \/ d.logs # << >> => e.logs # << >>
           /\ read[1] = "claims" \/ d.claim # "none" => e.claim # "none"
           /\ read[1] \notin {"log"} => e.logs = d.logs
<1>1. d \in ContextType /\ (d.pod = << >> => d = Nothing)
  BY DEF DraftOK
<1>2. d.pod \in PodType /\ d.logs \in LogsType /\ d.topology \in Extents
  BY <1>1, ContextIs
<1>3. CASE read[1] = "log"
  <2> DEFINE c == read[2]
             t == FaultTime(d)
             v == [shows |-> {}, fault |-> t, loki |-> FALSE]
  <2>1. c \in Containers /\ d.pod # << >>
    BY <1>3, ReadIs DEF Surround
  <2>2. v \in LogType
    BY <1>1, <2>1, FaultTimeType DEF LogType
  <2>3. e = [d EXCEPT !.fault = t, !.logs = With(d.logs, c, v)]
    BY <1>1, <1>3, ContextIs DEF CollectPodLogs, Missed
  <2>4. With(d.logs, c, v) \in LogsType /\ t \in 0..MaxMoments /\ c \in DOMAIN With(d.logs, c, v)
    <3>1. t \in 0..MaxMoments
      BY <1>1, <2>1, FaultTimeType
    <3> HIDE DEF c, t, v
    <3>2. With(d.logs, c, v) \in LogsType
      BY <1>2, <2>1, <2>2, WithType
    <3>3. c \in DOMAIN With(d.logs, c, v)
      BY DEF With
    <3> QED BY <3>1, <3>2, <3>3
  <2> HIDE DEF c, t, v
  <2>5. e \in ContextType /\ e.logs = With(d.logs, c, v)
    BY <1>1, <2>3, <2>4, ContextIs
  <2>6. e.logs # << >>
    <3>1. DOMAIN e.logs # {} /\ DOMAIN << >> = {}
      BY <2>4, <2>5
    <3> QED BY <3>1
  <2> QED BY <1>1, <1>3, <2>1, <2>3, <2>5, <2>6, ContextIs DEF DraftOK, Surround
<1>4. CASE read[1] \in {"claims", "topology", "correlations"}
  <2>1. \/ read[1] = "claims" /\ e = [d EXCEPT !.claim = "Unknown"]
        \/ read[1] = "topology" /\ e = [d EXCEPT !.topology = "partial"]
        \/ read[1] = "correlations" /\ e = [d EXCEPT !.correlations = "partial"]
    BY <1>4 DEF Missed, ListPodPVCs, CollectTopology
  <2>2. e \in ContextType
    BY <1>1, <2>1, ContextIs DEF Extents
  <2>3. e.pod = d.pod /\ e.events = d.events /\ e.logs = d.logs
    BY <1>1, <2>1, ContextIs
  <2>4. read[1] = "claims" \/ d.claim # "none" => e.claim # "none"
    BY <1>1, <2>1, ContextIs
  <2> QED BY <1>1, <1>4, <2>2, <2>3, <2>4 DEF DraftOK, Surround
<1>5. CASE read[1] = "trends"
  <2>1. e = [d EXCEPT !.trends = [p \in Profiles |-> "query_failed"]]
    BY <1>5 DEF Missed
  <2>2. [p \in Profiles |-> "query_failed"] \in TrendsType
    <3>1. [p \in Profiles |-> "query_failed"] \in [Profiles -> TrendType]
      BY DEF TrendType
    <3> HIDE DEF Profiles
    <3> QED BY <3>1 DEF TrendsType
  <2>3. e \in ContextType
    BY <1>1, <2>1, <2>2, ContextIs
  <2> QED BY <1>1, <1>5, <2>1, <2>3, ContextIs DEF DraftOK, Surround
<1>6. CASE read[1] \notin {"log", "claims", "topology", "correlations", "trends"}
  <2>1. e = d
    BY <1>6 DEF Missed
  <2> QED BY <1>6, <2>1
<1> QED BY <1>3, <1>4, <1>5, <1>6

(* What a tool keeps of a snapshot. *)
LEMMA KeptOK ==
    ASSUME NEW tool, NEW d, DraftOK(d), NEW e, e = Kept(tool, d)
    PROVE  /\ DraftOK(e) /\ e.pod = d.pod
           /\ \A f \in Section(tool) \cap DOMAIN Nothing : e[f] = d[f]
           /\ \A f \in DOMAIN Nothing \ Section(tool) : e[f] = Nothing[f]
           /\ d = Nothing => e = Nothing
<1>1. d \in ContextType /\ (d.pod = << >> => d = Nothing) /\ DOMAIN d = DOMAIN Nothing /\ Nothing \in ContextType
  BY NothingOK, ContextIs DEF DraftOK, Nothing
<1>2. e = [f \in DOMAIN Nothing |-> IF f \in Section(tool) THEN d[f] ELSE Nothing[f]]
  BY <1>1 DEF Kept
<1>3. "pod" \in Section(tool)
  BY DEF Section, Nothing
<1>4. d = Nothing => e = Nothing
  BY <1>2 DEF Nothing
<1>5. e = [pod |-> d.pod, events |-> e.events, logs |-> e.logs, fault |-> e.fault, claim |-> e.claim,
           topology |-> e.topology, correlations |-> e.correlations, nodes |-> e.nodes, trends |-> e.trends]
  BY <1>2, <1>3 DEF Nothing
<1>6. \A f \in DOMAIN Nothing : e[f] = d[f] \/ e[f] = Nothing[f]
  BY <1>2
<1>7. /\ e.events = d.events \/ e.events = Nothing.events
      /\ e.logs = d.logs \/ e.logs = Nothing.logs
      /\ e.fault = d.fault \/ e.fault = Nothing.fault
      /\ e.claim = d.claim \/ e.claim = Nothing.claim
      /\ e.topology = d.topology \/ e.topology = Nothing.topology
      /\ e.correlations = d.correlations \/ e.correlations = Nothing.correlations
      /\ e.nodes = d.nodes \/ e.nodes = Nothing.nodes
      /\ e.trends = d.trends \/ e.trends = Nothing.trends
  BY <1>6 DEF Nothing
<1>8. e \in ContextType
  <2> HIDE DEF Nothing, Kept
  <2> QED BY <1>1, <1>5, <1>7, ContextIs
<1>9. e.pod = d.pod
  BY <1>5
<1> QED BY <1>1, <1>2, <1>4, <1>8, <1>9 DEF DraftOK

(* The deadline: all that is left to read is missed. *)
LEMMA MissedAll ==
    ASSUME goal \in RequestType, NEW d, DraftOK(d), NEW todo \in Seq(ReadType),
           \A i \in DOMAIN todo : todo[i][1] \in Surround => d.pod # << >>
    PROVE  LET e == FoldLeft(Missed, d, todo) IN
           /\ DraftOK(e) /\ e.pod = d.pod /\ e.events = d.events
           /\ Has(todo, "log") \/ d.logs # << >> => e.logs # << >>
           /\ Has(todo, "claims") \/ d.claim # "none" => e.claim # "none"
<1> DEFINE n == Len(todo)
           S == {x \in ContextType : DraftOK(x) /\ x.pod = d.pod /\ x.events = d.events}
           step == [p \in (1..n) \X S |-> Missed(p[2], todo[p[1]])]
           Graph(g) == g = [x \in SUBSET (1..n) |-> IF x = {} THEN d
                                                   ELSE Missed(g[x \ {Max(x)}], todo[Max(x)])]
<1>1. n \in Nat /\ DOMAIN todo = 1..n /\ \A i \in 1..n : todo[i] \in ReadType
  OBVIOUS
<1>2. d \in S
  BY DEF DraftOK
<1>3. ASSUME NEW k \in 1..n, NEW x \in S
      PROVE  /\ Missed(x, todo[k]) \in S
             /\ todo[k][1] = "log" \/ x.logs # << >> => Missed(x, todo[k]).logs # << >>
             /\ todo[k][1] = "claims" \/ x.claim # "none" => Missed(x, todo[k]).claim # "none"
  <2> DEFINE e == Missed(x, todo[k])
  <2>1. DraftOK(x) /\ x.pod = d.pod /\ x.events = d.events /\ todo[k] \in ReadType
        /\ (todo[k][1] \in Surround => x.pod # << >>)
    BY <1>1
  <2>2. /\ DraftOK(e) /\ e.pod = x.pod /\ e.events = x.events
        /\ todo[k][1] = "log" \/ x.logs # << >> => e.logs # << >>
        /\ todo[k][1] = "claims" \/ x.claim # "none" => e.claim # "none"
    BY <2>1, MissedOK
  <2>3. e \in ContextType
    BY <2>2 DEF DraftOK
  <2> HIDE DEF e
  <2>4. e \in S
    BY <2>1, <2>2, <2>3
  <2> QED BY <2>2, <2>4 DEF e
<1>4. step \in [(1..n) \X S -> S]
  <2> HIDE DEF S, n
  <2> QED BY <1>3
<1>5. \E g : Graph(g)
  <2>1. PICK g : Folds(g, n, S, d, step)
    <3> HIDE DEF n, S, step
    <3> QED BY <1>1, <1>2, <1>4, FoldGraph
  <2>2. g \in [SUBSET (1..n) -> S] /\ g[{}] = d
    BY <2>1 DEF Folds
  <2>3. ASSUME NEW x \in SUBSET (1..n), x # {}
        PROVE  g[x] = Missed(g[x \ {Max(x)}], todo[Max(x)])
    <3>1. Max(x) \in 1..n /\ x \ {Max(x)} \in SUBSET (1..n)
      BY <1>1, <2>3, MaxIn
    <3>2. g[x] = step[<<Max(x), g[x \ {Max(x)}]>>]
      BY <2>1, <2>3 DEF Folds
    <3>3. g[x \ {Max(x)}] \in S
      BY <2>2, <3>1
    <3> HIDE DEF S
    <3> QED BY <3>1, <3>2, <3>3
  <2> HIDE DEF n, S, step
  <2> QED BY <2>2, <2>3
<1> DEFINE iter == CHOOSE g : Graph(g)
<1>6. Graph(iter)
  <2> HIDE DEF Graph
  <2> QED BY <1>5
<1>7. FoldLeft(Missed, d, todo) = iter[1..n]
  BY <1>1 DEF FoldLeft, MapThenFoldSet, iter
<1> HIDE DEF iter
<1>8. Steps(iter, n, S, d, step)
  <2>1. iter[{}] = d
    BY <1>6
  <2>2. ASSUME NEW x \in SUBSET (1..n), x # {}, iter[x \ {Max(x)}] \in S
        PROVE  iter[x] = step[<<Max(x), iter[x \ {Max(x)}]>>]
    <3>1. Max(x) \in 1..n
      BY <1>1, <2>2, MaxIn
    <3>2. iter[x] = Missed(iter[x \ {Max(x)}], todo[Max(x)])
      <4> HIDE DEF n, S
      <4> QED BY <1>6, <2>2
    <3> HIDE DEF S, n
    <3> QED BY <2>2, <3>1, <3>2
  <2> HIDE DEF n, S, step
  <2> QED BY <2>1, <2>2 DEF Steps
<1>9. PICK f : Walks(f, iter, n, S, d, step)
  <2> HIDE DEF n, S, step
  <2> QED BY <1>1, <1>2, <1>4, <1>8, Walked
<1>10. f \in [0..n -> S] /\ f[0] = d /\ f[n] = FoldLeft(Missed, d, todo)
  BY <1>7, <1>9 DEF Walks
<1>11. ASSUME NEW k \in Nat, k + 1 <= n
       PROVE  /\ todo[k + 1][1] = "log" \/ f[k].logs # << >> => f[k + 1].logs # << >>
              /\ todo[k + 1][1] = "claims" \/ f[k].claim # "none" => f[k + 1].claim # "none"
  <2>1. k \in 0..(n - 1) /\ k + 1 \in 1..n /\ k \in 0..n
    BY <1>1, <1>11
  <2>2. f[k + 1] = step[<<k + 1, f[k]>>] /\ f[k] \in S
    BY <1>9, <1>10, <2>1 DEF Walks
  <2> HIDE DEF S, n
  <2>3. f[k + 1] = Missed(f[k], todo[k + 1])
    BY <2>1, <2>2
  <2> HIDE DEF step
  <2> QED BY <1>3, <2>1, <2>2, <2>3
<1> HIDE DEF step, S
<1> DEFINE U == {k \in Nat : k <= n =>
              /\ (\E i \in 1..k : todo[i][1] = "log") \/ d.logs # << >> => f[k].logs # << >>
              /\ (\E i \in 1..k : todo[i][1] = "claims") \/ d.claim # "none" => f[k].claim # "none"}
<1>12. 0 \in U
  BY <1>10
<1>13. ASSUME NEW k \in Nat, k \in U PROVE k + 1 \in U
  <2> SUFFICES ASSUME k + 1 <= n
               PROVE  /\ (\E i \in 1..(k + 1) : todo[i][1] = "log") \/ d.logs # << >> => f[k + 1].logs # << >>
                      /\ (\E i \in 1..(k + 1) : todo[i][1] = "claims") \/ d.claim # "none" => f[k + 1].claim # "none"
    OBVIOUS
  <2>1. /\ (\E i \in 1..k : todo[i][1] = "log") \/ d.logs # << >> => f[k].logs # << >>
        /\ (\E i \in 1..k : todo[i][1] = "claims") \/ d.claim # "none" => f[k].claim # "none"
    BY <1>1, <1>13
  <2>2. \A i \in 1..(k + 1) : i = k + 1 \/ i \in 1..k
    OBVIOUS
  <2> QED BY <1>11, <2>1, <2>2
<1>14. Nat \subseteq U
  <2> HIDE DEF U
  <2> QED BY <1>12, <1>13, Induction
<1>15. FoldLeft(Missed, d, todo) \in S
  BY <1>1, <1>10
<1>16. /\ Has(todo, "log") \/ d.logs # << >> => f[n].logs # << >>
       /\ Has(todo, "claims") \/ d.claim # "none" => f[n].claim # "none"
  BY <1>1, <1>14 DEF Has
<1> QED BY <1>10, <1>15, <1>16 DEF S

-----------------------------------------------------------------------------
(* The steps of a call keep it in its invariant. *)

(* What is read next, and what is known then. *)
LEMMA NextOK ==
    ASSUME NEW call, NEW known, CallOK(call, known), call.todo # << >>
    PROVE  /\ NextRead(call) \in ReadType
           /\ NextRead(call)[1] \in Surround => call.draft.pod # << >>
           /\ NextRead(call)[1] \in {"pod", "live"} => call.draft = Nothing
           /\ call.draft = Nothing => NextRead(call)[1] = "pod" \/ AllOf(call.todo, Harmless \cup {"live"})
           /\ call.tool \in SnapshotTools => NextRead(call)[1] \in Surround \cup {"pod"}
           /\ call.draft.pod = << >> <=> call.draft = Nothing
<1>1. call.todo \in Seq(ReadType) /\ DraftOK(call.draft) /\ TodoOK(call)
  BY DEF CallOK, CallType
<1>2. NextRead(call) \in ReadType /\ NextRead(call) = call.todo[1] /\ 1 \in DOMAIN call.todo
      /\ NextRead(call) = Head(call.todo)
  BY <1>1, TailOf DEF NextRead
<1>3. call.draft.pod = << >> <=> call.draft = Nothing
  BY <1>1, NothingOK DEF DraftOK
<1>4. NextRead(call)[1] \in {"pod", "live"} => call.draft = Nothing
  BY <1>1, <1>2 DEF TodoOK
<1>5. call.draft = Nothing => NextRead(call)[1] = "pod" \/ AllOf(call.todo, Harmless \cup {"live"})
  BY <1>1, <1>2 DEF TodoOK
<1>6. AllOf(call.todo, Harmless \cup {"live"}) => NextRead(call)[1] \in Harmless \cup {"live"}
  BY <1>2 DEF AllOf
<1>7. call.tool \in SnapshotTools => NextRead(call)[1] \in Surround \cup {"pod"}
  BY <1>1, <1>2 DEF TodoOK, AllOf
<1>8. NextRead(call)[1] \in Surround => call.draft.pod # << >>
  BY <1>3, <1>5, <1>6 DEF Surround, Harmless
<1> QED BY <1>2, <1>3, <1>4, <1>5, <1>7, <1>8

Advanced(new, call, d, says) ==
    /\ new.tool = call.tool /\ new.target = call.target /\ new.fresh = call.fresh
    /\ new.tries = 0 /\ new.says = says /\ new.draft = Kept(call.tool, d)
    /\ new.status \in {"running", "done"}
    /\ new.todo = IF says = "hit" THEN << >> ELSE Tail(call.todo)

(* A call goes on from a draft. *)
LEMMA AdvanceOK ==
    ASSUME NEW call, NEW known, CallOK(call, known), call.todo # << >>,
           NEW d, DraftOK(d), d = Nothing => AllOf(call.todo, Harmless \cup {"live"}),
           NEW says \in SaysType, call.tool \in SnapshotTools => says # "hit",
           NEW new, new = Advance(call, d, says)
    PROVE  CallOK(new, known) /\ Advanced(new, call, d, says)
<1> DEFINE left == IF says = "hit" THEN << >> ELSE Tail(call.todo)
           e == Kept(call.tool, d)
<1>1. call \in CallType /\ call.todo \in Seq(ReadType) /\ TodoOK(call) /\ SnapshotOK(call, known)
  BY DEF CallOK, CallType
<1>2. left \in Seq(ReadType)
  BY <1>1, TailOf
<1>3. /\ DraftOK(e) /\ e.pod = d.pod /\ e \in ContextType
      /\ \A f \in DOMAIN Nothing \ Section(call.tool) : e[f] = Nothing[f]
  BY KeptOK DEF DraftOK
<1>4. new = [call EXCEPT !.draft = e, !.says = says, !.tries = 0, !.todo = left,
                         !.status = IF left = << >> THEN "done" ELSE "running"]
  BY DEF Advance
<1> HIDE DEF e, left
<1>5. /\ new \in CallType
      /\ new.tool = call.tool /\ new.target = call.target /\ new.fresh = call.fresh
      /\ new.tries = 0 /\ new.says = says /\ new.draft = e /\ new.todo = left
      /\ new.status = IF left = << >> THEN "done" ELSE "running"
  <2> DEFINE st == IF left = << >> THEN "done" ELSE "running"
  <2>1. st \in {"running", "hung", "done", "failed"}
    OBVIOUS
  <2>2. new = [call EXCEPT !.draft = e, !.says = says, !.tries = 0, !.todo = left, !.status = st]
    BY <1>4
  <2> HIDE DEF st
  <2>3. new = [tool |-> call.tool, target |-> call.target, fresh |-> call.fresh, todo |-> left, tries |-> 0,
               draft |-> e, says |-> says, status |-> st]
    BY <1>1, <2>2 DEF CallType
  <2>4. new \in CallType
    BY <1>1, <1>2, <1>3, <2>1, <2>3 DEF CallType
  <2> QED BY <2>3, <2>4 DEF st
<1>6. \A i \in DOMAIN left : left[i][1] \notin {"pod", "live"}
  <2>1. CASE left = << >>
    BY <2>1
  <2>2. CASE left = Tail(call.todo)
    <3> SUFFICES ASSUME NEW i \in DOMAIN left PROVE left[i][1] \notin {"pod", "live"}
      OBVIOUS
    <3>1. i + 1 \in DOMAIN call.todo /\ left[i] = call.todo[i + 1] /\ i + 1 # 1
      BY <1>1, <2>2, TailOf
    <3> QED BY <1>1, <3>1 DEF TodoOK
  <2> QED BY <2>1, <2>2 DEF left
<1>7. \A kinds : AllOf(call.todo, kinds) => AllOf(left, kinds)
  <2>1. \A kinds : AllOf(<< >>, kinds)
    BY DEF AllOf
  <2> QED BY <1>1, <2>1, TailOf DEF left
<1>8. e = Nothing => d = Nothing
  BY <1>3, NothingOK DEF DraftOK
<1>9. TodoOK(new)
  <2>1. new.draft = Nothing /\ new.todo # << >> => AllOf(new.todo, Harmless \cup {"live"})
    BY <1>5, <1>7, <1>8
  <2>2. new.tool \in SnapshotTools => AllOf(new.todo, Surround \cup {"pod"})
    BY <1>1, <1>5, <1>7 DEF TodoOK
  <2> QED BY <1>5, <1>6, <2>1, <2>2 DEF TodoOK
<1>10. SnapshotOK(new, known)
  <2>1. call.tool \in SnapshotTools => call.fresh
    BY <1>1 DEF SnapshotOK
  <2> QED BY <1>1, <1>3, <1>5, <2>1 DEF SnapshotOK
<1>11. CallOK(new, known)
  BY <1>3, <1>5, <1>9, <1>10 DEF CallOK
<1> QED BY <1>5, <1>11 DEF e, left, Advanced

(* What a call may say; a snapshot tool says what it said at first. *)
LEMMA ToldOK ==
    ASSUME NEW call, NEW known, CallOK(call, known), call.todo # << >>, NEW says \in Told(call)
    PROVE  says \in SaysType /\ (call.tool \in SnapshotTools => says = call.says)
<1>1. call.says \in SaysType
  BY DEF CallOK, CallType
<1>2. call.tool \in SnapshotTools => NextRead(call)[1] \notin {"object", "vector", "runbook"}
  BY NextOK DEF Surround
<1>3. CASE NextRead(call)[1] = "object"
  <2>1. PICK ref \in PodConfigReferences, object \in InspectConfigObject : says = ContentStatus(ref, object)
    BY <1>3 DEF Told
  <2>2. ref.of \in {"object", "claim"}
    BY DEF PodConfigReferences
  <2>3. says \in SaysType
    <3>1. CASE ref.of = "claim"
      BY <2>1, <3>1 DEF ContentStatus, SaysType
    <3>2. CASE ref.of = "object" /\ ~object.exists
      BY <2>1, <3>2 DEF ContentStatus, SaysType
    <3>3. CASE ref.of = "object" /\ object.exists
      BY <2>1, <3>3 DEF ContentStatus, SaysType
    <3> QED BY <2>2, <3>1, <3>2, <3>3
  <2> QED BY <1>2, <1>3, <2>3
<1>4. CASE NextRead(call)[1] \in {"vector", "runbook"}
  <2>1. NextRead(call)[1] # "object"
    BY <1>4
  <2>2. says \in {"hit", "nothing"}
    BY <1>4, <2>1 DEF Told
  <2>3. says \in SaysType
    BY <2>2 DEF SaysType
  <2> QED BY <1>2, <1>4, <2>3
<1>5. CASE NextRead(call)[1] \notin {"object", "vector", "runbook"}
  BY <1>1, <1>5 DEF Told
<1> QED BY <1>3, <1>4, <1>5

(* A call as it starts. *)
LEMMA CallStart ==
    ASSUME goal \in RequestType, NEW tool \in Tools, NEW target \in Targets, tool = "collect" => ~Known,
           NEW new, new = Call(tool, target)
    PROVE  /\ CallOK(new, Known)
           /\ new.tool = tool /\ new.target = target /\ new.tries = 0 /\ new.draft = Nothing /\ new.status # "hung"
           /\ new.fresh => /\ new.status = "running"
                           /\ Sections(tool) # {} => Has(new.todo, "events")
                           /\ tool = "k8s.get_logs" => Has(new.todo, "log")
                           /\ tool = "k8s.get_pvc" => Has(new.todo, "claims")
                           /\ tool = "k8s.get_logs" /\ target = All /\ Known => context.logs = << >>
<1> DEFINE todo == Reads(tool, target)
           st == IF Server(tool) \ Configured # {} THEN "failed" ELSE IF todo = << >> THEN "done" ELSE "running"
           fr == todo # << >> /\ tool \in SnapshotTools
           where == IF target = All THEN goal.target ELSE target
           around == tool \in {"k8s.get_pvc", "k8s.get_topology"}
           r == CollectReads(Sections(tool), where, around)
<1>1. where \in Targets /\ goal.target \in Targets /\ around \in BOOLEAN
  BY DEF RequestType
<1>2. Sections(tool) \in {{}, {"events"}, {"events", "logs"}}
  BY DEF Sections
<1> DEFINE Shape ==
              /\ todo \in Seq(ReadType)
              /\ \A i \in DOMAIN todo : todo[i][1] \in {"pod", "live"} => i = 1
              /\ todo # << >> => Head(todo)[1] = "pod" \/ AllOf(todo, Harmless \cup {"live"})
              /\ tool \in SnapshotTools => AllOf(todo, Surround \cup {"pod"})
           Full ==
              /\ Sections(tool) # {} => Has(todo, "events")
              /\ tool = "k8s.get_logs" => Has(todo, "log")
              /\ tool = "k8s.get_pvc" => Has(todo, "claims")
              /\ Known => Sections(tool) # {}
              /\ tool = "k8s.get_logs" /\ target = All /\ Known => context.logs = << >>
              /\ Server(tool) = {}
<1>3. ASSUME tool \in SnapshotTools PROVE Shape /\ (fr => Full)
  <2>1. todo = IF Refreshes(tool, target) THEN r ELSE << >>
    <3>1. todo = ReadSnapshot(tool, target)
      BY <1>3 DEF Reads, SnapshotTools
    <3> QED BY <3>1 DEF ReadSnapshot, Optional
  <2>2. /\ ReadsOK(r) /\ (around => Has(r, "claims"))
        /\ (Sections(tool) \cap {"events", "logs"} # {} => Has(r, "events"))
        /\ ("logs" \in Sections(tool) => Has(r, "log"))
    <3> HIDE DEF where, around
    <3> QED BY <1>1, CollectReadsOK
  <2> HIDE DEF r, where, around
  <2>3. /\ todo \in Seq(ReadType)
        /\ \A i \in DOMAIN todo : todo[i][1] \in {"pod", "live"} => i = 1
        /\ todo # << >> => Head(todo)[1] = "pod"
        /\ AllOf(todo, Surround \cup {"pod"})
    <3>1. CASE todo = << >>
      BY <3>1 DEF AllOf
    <3>2. CASE todo = r
      <4>1. r \in Seq(ReadType) /\ r # << >> /\ r[1] = <<"pod", All>> /\ Head(r) = r[1]
        BY <2>2 DEF ReadsOK
      <4>2. \A i \in DOMAIN r : i # 1 => r[i][1] \in Surround
        BY <2>2 DEF ReadsOK
      <4>3. AllOf(r, Surround \cup {"pod"})
        BY <4>1, <4>2 DEF AllOf
      <4> HIDE DEF todo
      <4> QED BY <3>2, <4>1, <4>2, <4>3 DEF Surround
    <3> QED BY <2>1, <3>1, <3>2
  <2>4. todo # << >> => /\ Sections(tool) # {} => Has(todo, "events")
                        /\ tool = "k8s.get_logs" => Has(todo, "log")
                        /\ tool = "k8s.get_pvc" => Has(todo, "claims")
    BY <1>2, <2>1, <2>2 DEF Sections, around
  <2>5. todo # << >> /\ Known => Sections(tool) # {}
    BY <2>1 DEF Refreshes, Sections
  <2>6. todo # << >> /\ tool = "k8s.get_logs" /\ target = All /\ Known => context.logs = << >>
    BY <2>1 DEF Refreshes
  <2>7. Server(tool) = {}
    BY <1>3 DEF Server, SnapshotTools
  <2> HIDE DEF todo
  <2>8. Shape
    BY <2>3
  <2>9. fr => Full
    BY <2>4, <2>5, <2>6, <2>7
  <2> QED BY <2>8, <2>9
<1>4. ASSUME tool = "collect" PROVE Shape /\ ~fr
  <2> DEFINE c == CollectReads(goal.sections, goal.target, TRUE)
  <2>1. todo = c
    BY <1>4 DEF Reads, SnapshotTools
  <2>2. ReadsOK(c)
    BY <1>1, CollectReadsOK
  <2> HIDE DEF c
  <2>3. c \in Seq(ReadType) /\ c # << >> /\ c[1] = <<"pod", All>> /\ Head(c) = c[1]
        /\ \A i \in DOMAIN c : i # 1 => c[i][1] \in Surround
    BY <2>2 DEF ReadsOK
  <2>4. Server(tool) = {} /\ tool \notin SnapshotTools
    BY <1>4 DEF Server, SnapshotTools
  <2> HIDE DEF todo
  <2> QED BY <2>1, <2>3, <2>4 DEF Surround
<1>5. ASSUME tool \notin SnapshotTools \cup {"collect"} PROVE Shape /\ ~fr
  <2> DEFINE one(kind) == << <<kind, All>> >>
             two(kind, next) == << <<kind, All>>, <<next, All>> >>
  <2>1. tool \in {"k8s.get_config_refs", "prometheus.query_range", "loki.query_logs", "runbook.search"}
    BY <1>5 DEF Tools, SnapshotTools
  <2>2. todo \in {two("live", "object"), one("range"), one("window"), two("vector", "runbook")}
    BY <1>5, <2>1 DEF Reads, ReadConfigRefs, QueryRange, QueryPodLogs, SearchRunbooks
  <2>3. \A kind \in Harmless \cup {"live"} : <<kind, All>> \in ReadType
    BY DEF ReadType
  <2>4. ASSUME NEW kind \in Harmless, todo = one(kind) PROVE Shape
    <3>1. <<kind, All>> \in ReadType /\ kind \notin {"pod", "live"}
      BY <2>3 DEF Harmless
    <3>2. todo \in Seq(ReadType) /\ DOMAIN todo = {1} /\ todo[1][1] = kind
      BY <2>4, <3>1
    <3> HIDE DEF todo
    <3> QED BY <1>5, <3>1, <3>2 DEF AllOf
  <2>5. ASSUME NEW kind \in Harmless \cup {"live"}, NEW next \in Harmless, todo = two(kind, next) PROVE Shape
    <3>1. <<kind, All>> \in ReadType /\ <<next, All>> \in ReadType /\ next \notin {"pod", "live"}
      BY <2>3 DEF Harmless
    <3>2. todo \in Seq(ReadType) /\ DOMAIN todo = {1, 2} /\ todo[1][1] = kind /\ todo[2][1] = next
      BY <2>5, <3>1
    <3> HIDE DEF todo
    <3> QED BY <1>5, <3>1, <3>2 DEF AllOf
  <2> QED BY <1>5, <2>2, <2>4, <2>5 DEF Harmless
<1>6. Shape /\ (fr => Full)
  BY <1>3, <1>4, <1>5
<1>7. Window \in {"fault", "recent", "alert"}
  BY DEF Window
<1>8. new = [tool |-> tool, target |-> target, fresh |-> fr, todo |-> todo, tries |-> 0,
             draft |-> Nothing, says |-> Window, status |-> st]
  BY DEF Call
<1>9. /\ st \in {"running", "done", "failed"} /\ fr \in BOOLEAN
      /\ st = "done" => todo = << >>
      /\ st = "running" => todo # << >>
      /\ fr => todo # << >> /\ tool \in SnapshotTools
      /\ tool \in SnapshotTools /\ ~fr => todo = << >>
      /\ fr => st = "running"
  BY <1>6
<1> HIDE DEF todo, st, fr
<1>10. new \in CallType
  <2>1. Nothing \in ContextType /\ Window \in SaysType
    BY <1>7, NothingOK DEF DraftOK, SaysType
  <2> QED BY <1>6, <1>8, <1>9, <2>1 DEF CallType
<1>11. TodoOK(new)
  BY <1>6, <1>8, <1>9 DEF TodoOK
<1>12. SnapshotOK(new, Known)
  BY <1>6, <1>7, <1>8, <1>9 DEF SnapshotOK
<1>13. CallOK(new, Known)
  BY <1>8, <1>10, <1>11, <1>12, NothingOK DEF CallOK
<1> QED BY <1>6, <1>8, <1>9, <1>13

(* A call whose status alone changes, or its tries. *)
LEMMA StoppedOK ==
    ASSUME NEW call, NEW known, CallOK(call, known), NEW new,
           \/ new = [call EXCEPT !.status = "failed"]
           \/ call.todo # << >> /\ new = [call EXCEPT !.status = "hung"]
           \/ new = [call EXCEPT !.tries = @ + 1]
    PROVE  /\ CallOK(new, known)
           /\ new.tool = call.tool /\ new.target = call.target /\ new.fresh = call.fresh /\ new.todo = call.todo
           /\ new.draft = call.draft /\ new.says = call.says
           /\ new.status \in {"failed", "hung", call.status} /\ new.tries \in {call.tries, call.tries + 1}
<1>1. call \in CallType /\ DraftOK(call.draft) /\ TodoOK(call) /\ SnapshotOK(call, known)
  BY DEF CallOK
<1>2. new \in CallType
  BY <1>1 DEF CallType
<1>3. /\ new.tool = call.tool /\ new.target = call.target /\ new.fresh = call.fresh /\ new.todo = call.todo
      /\ new.draft = call.draft /\ new.says = call.says
      /\ \/ new.status \in {"failed", call.status}
         \/ new.status = "hung" /\ call.todo # << >>
      /\ new.tries \in {call.tries, call.tries + 1}
  BY <1>1 DEF CallType
<1>4. TodoOK(new) /\ SnapshotOK(new, known)
  BY <1>1, <1>3 DEF TodoOK, SnapshotOK
<1> QED BY <1>1, <1>2, <1>3, <1>4 DEF CallOK

(* A read that fails. *)
LEMMA FailedOK ==
    ASSUME goal \in RequestType, NEW call, CallOK(call, Known), call.status = "running",
           NEW new, new = Failed(call)
    PROVE  /\ CallOK(new, Known)
           /\ \/ MayRetry(call) /\ new = [call EXCEPT !.tries = @ + 1]
              \/ ~MayRetry(call) /\ NextRead(call)[1] \in Vital /\ new = [call EXCEPT !.status = "failed"]
              \/ /\ call.tool \notin SnapshotTools /\ new.draft = call.draft /\ new.tries = 0
                 /\ call.draft = Nothing /\ new.tool = call.tool /\ new.fresh = call.fresh /\ new.status = "running"
              \/ /\ ~MayRetry(call) /\ \E says \in {call.says, "unread"} :
                                          new = Advance(call, Missed(call.draft, NextRead(call)), says)
                 /\ call.tool \in SnapshotTools => new = Advance(call, Missed(call.draft, NextRead(call)), call.says)
                 /\ NextRead(call)[1] # "pod" /\ (NextRead(call)[1] \in {"pod", "live"} => Known)
<1> DEFINE read == NextRead(call)
<1>1. call \in CallType /\ call.todo # << >> /\ call.todo \in Seq(ReadType)
  BY DEF CallOK, CallType, TodoOK
<1>2. /\ read \in ReadType
      /\ read[1] \in Surround => call.draft.pod # << >>
      /\ read[1] \in {"pod", "live"} => call.draft = Nothing
      /\ call.draft = Nothing => read[1] = "pod" \/ AllOf(call.todo, Harmless \cup {"live"})
      /\ call.tool \in SnapshotTools => read[1] \in Surround \cup {"pod"}
      /\ call.draft.pod = << >> <=> call.draft = Nothing
  BY <1>1, NextOK
<1>3. CASE MayRetry(call)
  <2>1. new = [call EXCEPT !.tries = @ + 1]
    BY <1>3 DEF Failed
  <2> QED BY <1>3, <2>1, StoppedOK
<1>4. CASE ~MayRetry(call) /\ read[1] \in Vital
  <2>1. new = [call EXCEPT !.status = "failed"]
    BY <1>4 DEF Failed
  <2> QED BY <1>4, <2>1, StoppedOK
<1>5. CASE ~MayRetry(call) /\ read[1] \notin Vital /\ read[1] = "live" /\ ~Known
  <2> DEFINE r == CollectReads({}, goal.target, FALSE)
             todo == r \o Tail(call.todo)
  <2>1. new = [call EXCEPT !.todo = r \o Tail(@), !.tries = 0]
    BY <1>5 DEF Failed
  <2>2. ReadsOK(r)
    BY CollectReadsOK DEF RequestType
  <2> HIDE DEF r
  <2>3. r \in Seq(ReadType) /\ r # << >> /\ r[1] = <<"pod", All>> /\ \A i \in DOMAIN r : i # 1 => r[i][1] \in Surround
    BY <2>2 DEF ReadsOK
  <2>4. Tail(call.todo) \in Seq(ReadType) /\ \A i \in DOMAIN Tail(call.todo) : Tail(call.todo)[i][1] \notin {"pod", "live"}
    <3>1. Tail(call.todo) \in Seq(ReadType)
      BY <1>1, TailOf
    <3>2. ASSUME NEW i \in DOMAIN Tail(call.todo) PROVE Tail(call.todo)[i][1] \notin {"pod", "live"}
      <4>1. i + 1 \in DOMAIN call.todo /\ Tail(call.todo)[i] = call.todo[i + 1] /\ i + 1 # 1
        BY <1>1, TailOf
      <4> QED BY <4>1 DEF CallOK, TodoOK
    <3> QED BY <3>1, <3>2
  <2>5. todo \in Seq(ReadType) /\ todo # << >> /\ Head(todo) = <<"pod", All>>
    BY <2>3, <2>4
  <2>6. ASSUME NEW i \in DOMAIN todo, i # 1 PROVE todo[i][1] \notin {"pod", "live"}
    <3>1. CASE i <= Len(r)
      <4>1. i \in DOMAIN r /\ todo[i] = r[i]
        BY <2>3, <2>4, <3>1
      <4> QED BY <2>3, <2>6, <4>1 DEF Surround
    <3>2. CASE i > Len(r)
      <4>1. i - Len(r) \in DOMAIN Tail(call.todo) /\ todo[i] = Tail(call.todo)[i - Len(r)]
        BY <2>3, <2>4, <3>2
      <4> QED BY <2>4, <4>1
    <3> QED BY <2>3, <2>4, <3>1, <3>2
  <2> HIDE DEF todo
  <2>7. new = [call EXCEPT !.todo = todo, !.tries = 0]
    BY <1>1, <2>1 DEF todo, CallType
  <2>8. /\ new \in CallType /\ new.todo = todo /\ new.draft = call.draft /\ new.tries = 0 /\ new.tool = call.tool
        /\ new.fresh = call.fresh /\ new.says = call.says /\ new.status = call.status
    <3>1. new = [tool |-> call.tool, target |-> call.target, fresh |-> call.fresh, todo |-> todo, tries |-> 0,
                 draft |-> call.draft, says |-> call.says, status |-> call.status]
      BY <1>1, <2>7 DEF CallType
    <3> QED BY <1>1, <2>5, <3>1 DEF CallType
  <2>9. call.tool \notin SnapshotTools /\ call.draft = Nothing
    BY <1>2, <1>5 DEF Surround
  <2>10. TodoOK(new)
    BY <2>5, <2>6, <2>8, <2>9 DEF TodoOK
  <2>11. SnapshotOK(new, Known)
    BY <2>8, <2>9 DEF CallOK, SnapshotOK
  <2> QED BY <2>8, <2>9, <2>10, <2>11 DEF CallOK
<1>6. CASE ~MayRetry(call) /\ read[1] \notin Vital /\ ~(read[1] = "live" /\ ~Known)
  <2> DEFINE says == IF read[1] = "object" THEN "unread" ELSE call.says
             d == Missed(call.draft, read)
  <2>1. new = Advance(call, d, says)
    BY <1>6 DEF Failed
  <2>2. says \in SaysType /\ (call.tool \in SnapshotTools => says = call.says /\ says # "hit") /\ says \in {call.says, "unread"}
    BY <1>1, <1>2 DEF CallType, SaysType, Surround, CallOK, SnapshotOK
  <2>3. DraftOK(call.draft)
    BY DEF CallOK
  <2>4. DraftOK(d) /\ d.pod = call.draft.pod
    BY <1>2, <2>3, MissedOK
  <2>5. read[1] # "pod"
    BY <1>6 DEF Vital
  <2> HIDE DEF says, d
  <2>6. d = Nothing => AllOf(call.todo, Harmless \cup {"live"})
    BY <1>2, <2>4, <2>5, NothingOK
  <2>7. CallOK(new, Known)
    <3> DEFINE known == Known
    <3>1. CallOK(call, known) /\ call.todo # << >>
      BY <1>1
    <3>2. says \in SaysType /\ (call.tool \in SnapshotTools => says # "hit")
      BY <2>2
    <3> HIDE DEF known
    <3>3. CallOK(new, known)
      BY <2>1, <2>4, <2>6, <3>1, <3>2, AdvanceOK
    <3> QED BY <3>3 DEF known
  <2> QED BY <1>6, <2>1, <2>2, <2>5, <2>7 DEF d
<1> QED BY <1>3, <1>4, <1>5, <1>6

(* A read that failed and is tried again, has stopped its call, or has been passed over. *)
PassedOver(new, call, d) ==
    /\ DraftOK(d) /\ d.pod = call.draft.pod /\ d.events = call.draft.events
    /\ NextRead(call)[1] = "log" \/ call.draft.logs # << >> => d.logs # << >>
    /\ NextRead(call)[1] = "claims" \/ call.draft.claim # "none" => d.claim # "none"
    /\ \E says : Advanced(new, call, d, says) /\ (call.tool \in SnapshotTools => says # "hit")
SameDraft(new, call) ==
    /\ new.tool = call.tool /\ new.target = call.target /\ new.fresh = call.fresh /\ new.draft = call.draft
    /\ new.todo = call.todo \/ ~call.fresh
LEMMA FailedIs ==
    ASSUME goal \in RequestType, NEW call, CallOK(call, Known), call.status = "running",
           NEW new, new = Failed(call)
    PROVE  SameDraft(new, call) \/ \E d : PassedOver(new, call, d)
<1> DEFINE read == NextRead(call)
<1>1. call \in CallType /\ call.todo # << >> /\ DraftOK(call.draft)
      /\ (call.fresh => call.tool \in SnapshotTools) /\ (call.tool \in SnapshotTools => call.says # "hit")
  BY DEF CallOK, TodoOK, SnapshotOK
<1>2. /\ read \in ReadType
      /\ read[1] \in Surround => call.draft.pod # << >>
      /\ call.draft = Nothing => read[1] = "pod" \/ AllOf(call.todo, Harmless \cup {"live"})
      /\ call.draft.pod = << >> <=> call.draft = Nothing
  BY <1>1, NextOK
<1>3. CASE new = [call EXCEPT !.tries = @ + 1] \/ new = [call EXCEPT !.status = "failed"]
  BY <1>1, <1>3 DEF CallType, SameDraft
<1>4. CASE call.tool \notin SnapshotTools /\ new = [call EXCEPT !.todo = CollectReads({}, goal.target, FALSE) \o Tail(@), !.tries = 0]
  BY <1>1, <1>4 DEF CallType, SameDraft
<1>5. CASE /\ read[1] # "pod"
           /\ \E says \in {call.says, "unread"} : /\ new = Advance(call, Missed(call.draft, read), says)
                                                  /\ call.tool \in SnapshotTools => says = call.says
  <2> DEFINE d == Missed(call.draft, read)
             known == Known
  <2>1. PICK says \in {call.says, "unread"} : new = Advance(call, d, says) /\ (call.tool \in SnapshotTools => says = call.says)
    BY <1>5
  <2>2. /\ DraftOK(d) /\ d.pod = call.draft.pod /\ d.events = call.draft.events
        /\ read[1] = "log" \/ call.draft.logs # << >> => d.logs # << >>
        /\ read[1] = "claims" \/ call.draft.claim # "none" => d.claim # "none"
    BY <1>1, <1>2, MissedOK
  <2> HIDE DEF d
  <2>3. d = Nothing => AllOf(call.todo, Harmless \cup {"live"})
    BY <1>2, <1>5, <2>2, NothingOK
  <2>4. says \in SaysType /\ (call.tool \in SnapshotTools => says # "hit")
    BY <1>1, <2>1 DEF CallType, SaysType
  <2>5. CallOK(call, known)
    OBVIOUS
  <2> HIDE DEF known
  <2>6. Advanced(new, call, d, says)
    BY <1>1, <2>1, <2>2, <2>3, <2>4, <2>5, AdvanceOK
  <2>7. PassedOver(new, call, d)
    BY <2>2, <2>4, <2>6 DEF PassedOver
  <2> QED BY <2>7
<1>6. \/ new = [call EXCEPT !.tries = @ + 1]
      \/ new = [call EXCEPT !.status = "failed"]
      \/ /\ read[1] # "pod" /\ read[1] = "live"
         /\ new = [call EXCEPT !.todo = CollectReads({}, goal.target, FALSE) \o Tail(@), !.tries = 0]
      \/ /\ read[1] \notin Vital
         /\ \E says \in {call.says, "unread"} : /\ new = Advance(call, Missed(call.draft, read), says)
                                                /\ read[1] # "object" => says = call.says
  BY DEF Failed
<1>7. call.tool \in SnapshotTools => read[1] \notin {"object", "live"}
  BY <1>1, NextOK DEF Surround
<1>8. read[1] \notin Vital => read[1] # "pod"
  BY DEF Vital
<1> QED BY <1>3, <1>4, <1>5, <1>6, <1>7, <1>8

(* A read that succeeds. *)
LEMMA ReadOK ==
    ASSUME ClusterOK(cluster), goal \in RequestType, NEW call, CallOK(call, Known), call.status = "running",
           NEW d \in Learnt(call.draft, NextRead(call)), NEW says \in Told(call),
           NEW new, new = Advance(call, d, says)
    PROVE  CallOK(new, Known) /\ Advanced(new, call, d, says) /\ DraftOK(d)
<1> DEFINE read == NextRead(call)
           known == Known
<1>1. call.todo # << >> /\ CallOK(call, known)
  BY DEF CallOK, TodoOK
<1>2. /\ read \in ReadType
      /\ read[1] \in Surround => call.draft.pod # << >>
      /\ call.draft = Nothing => read[1] = "pod" \/ AllOf(call.todo, Harmless \cup {"live"})
      /\ call.draft.pod = << >> <=> call.draft = Nothing
  BY <1>1, NextOK
<1>3. DraftOK(call.draft) /\ (call.tool \in SnapshotTools => call.says # "hit")
  BY DEF CallOK, SnapshotOK
<1>4. /\ DraftOK(d)
      /\ read[1] \in {"pod", "live"} => d.pod = [c \in Containers |-> LastDeath(c)]
      /\ read[1] \notin {"pod", "live"} => d.pod = call.draft.pod
  <2>1. DraftOK(d) /\ Learned(d, call.draft, read)
    BY <1>2, <1>3, LearntOK
  <2> QED BY <2>1 DEF Learned
<1>5. [c \in Containers |-> LastDeath(c)] # << >>
  <2>1. [c \in Containers |-> LastDeath(c)] \in [Containers -> 0..MaxMoments]
    BY LastDeathType
  <2> QED BY <2>1, PodKnown
<1>6. d = Nothing => AllOf(call.todo, Harmless \cup {"live"})
  BY <1>2, <1>4, <1>5, NothingOK
<1>7. says \in SaysType /\ (call.tool \in SnapshotTools => says # "hit")
  BY <1>1, <1>3, ToldOK
<1> HIDE DEF known
<1>8. CallOK(new, known) /\ Advanced(new, call, d, says)
  BY <1>1, <1>4, <1>6, <1>7, AdvanceOK
<1> QED BY <1>4, <1>8 DEF known

(* The deadline of a call that hangs. *)
Ended(new, call, d) ==
    /\ new.tool = call.tool /\ new.target = call.target /\ new.fresh = call.fresh /\ new.tries = call.tries
    /\ new.draft = Kept(call.tool, d) /\ new.todo = << >> /\ new.status = "done"
    /\ DraftOK(d) /\ d.pod = call.draft.pod /\ d.events = call.draft.events
    /\ Has(call.todo, "log") \/ call.draft.logs # << >> => d.logs # << >>
    /\ Has(call.todo, "claims") \/ call.draft.claim # "none" => d.claim # "none"

(* What the deadline makes of it. *)
LEMMA CancelledOK ==
    ASSUME goal \in RequestType, NEW call, CallOK(call, Known), call.status = "hung",
           NEW new, new = Cancelled(call)
    PROVE  /\ CallOK(new, Known)
           /\ \/ new = [call EXCEPT !.status = "failed"]
              \/ \E d : Ended(new, call, d)
<1>1. call \in CallType /\ call.todo # << >> /\ call.todo \in Seq(ReadType) /\ DraftOK(call.draft)
  BY DEF CallOK, CallType, TodoOK
<1> DEFINE vital == \/ \E i \in DOMAIN call.todo : call.todo[i][1] \in Vital
                    \/ NextRead(call)[1] = "live" /\ ~Known
           d == FoldLeft(Missed, call.draft, call.todo)
           e == Kept(call.tool, d)
           says == IF call.tool = "k8s.get_config_refs" THEN "unread" ELSE call.says
<1>2. CASE vital
  <2>1. new = [call EXCEPT !.status = "failed"]
    BY <1>2 DEF Cancelled
  <2> QED BY <2>1, StoppedOK
<1>3. CASE ~vital
  <2>1. ASSUME NEW i \in DOMAIN call.todo, call.todo[i][1] \in Surround PROVE call.draft.pod # << >>
    <3>1. /\ call.draft = Nothing => NextRead(call)[1] = "pod" \/ AllOf(call.todo, Harmless \cup {"live"})
          /\ call.draft.pod = << >> <=> call.draft = Nothing
      BY <1>1, NextOK
    <3>2. NextRead(call)[1] # "pod"
      BY <1>1, <1>3, TailOf DEF Vital, NextRead
    <3>3. ~AllOf(call.todo, Harmless \cup {"live"})
      BY <2>1 DEF AllOf, Harmless, Surround
    <3> QED BY <3>1, <3>2, <3>3
  <2>2. /\ DraftOK(d) /\ d.pod = call.draft.pod /\ d.events = call.draft.events
        /\ Has(call.todo, "log") \/ call.draft.logs # << >> => d.logs # << >>
        /\ Has(call.todo, "claims") \/ call.draft.claim # "none" => d.claim # "none"
    BY <1>1, <2>1, MissedAll
  <2>3. new = [call EXCEPT !.draft = e, !.todo = << >>, !.status = "done", !.says = says]
    BY <1>1, <1>3 DEF Cancelled, CallType
  <2> HIDE DEF d
  <2>4. /\ DraftOK(e) /\ e \in ContextType
        /\ \A f \in DOMAIN Nothing \ Section(call.tool) : e[f] = Nothing[f]
        /\ d = Nothing => e = Nothing
    BY <2>2, KeptOK DEF DraftOK
  <2>5. says \in SaysType /\ (call.tool \in SnapshotTools => says = call.says)
    BY <1>1 DEF CallType, SaysType, SnapshotTools
  <2> HIDE DEF says, e
  <2>6. new = [tool |-> call.tool, target |-> call.target, fresh |-> call.fresh, todo |-> << >>, tries |-> call.tries,
               draft |-> e, says |-> says, status |-> "done"]
    BY <1>1, <2>3 DEF CallType
  <2>7. new \in CallType
    BY <1>1, <2>4, <2>5, <2>6 DEF CallType
  <2>8. TodoOK(new)
    BY <2>6 DEF TodoOK, AllOf
  <2>9. SnapshotOK(new, Known)
    <3>1. call.tool \in SnapshotTools => call.fresh
      BY <1>1 DEF CallOK, SnapshotOK
    <3> QED BY <2>4, <2>5, <2>6, <3>1 DEF CallOK, SnapshotOK
  <2>10. Ended(new, call, d)
    BY <2>2, <2>6 DEF Ended, e
  <2> QED BY <2>4, <2>6, <2>7, <2>8, <2>9, <2>10 DEF CallOK
<1> QED BY <1>2, <1>3

-----------------------------------------------------------------------------
(* The results of a group. *)

(* What a call brings has the draft of the call, and logs that join those of the context. *)
LEMMA DeltaOK ==
    ASSUME DraftOK(context), NEW call, CallOK(call, Known), NEW d, d = Delta(call)
    PROVE  /\ d \in ContextType /\ d.pod = call.draft.pod
           /\ \A f \in DOMAIN Nothing \ {"logs"} : d[f] = call.draft[f]
           /\ DOMAIN call.draft.logs \subseteq DOMAIN d.logs
           /\ call.tool = "k8s.get_logs" /\ call.target # All /\ Known =>
                  DOMAIN context.logs \subseteq DOMAIN d.logs
           /\ ~(call.tool = "k8s.get_logs" /\ call.target # All /\ Known) => d.logs = call.draft.logs
<1>1. call.draft \in ContextType /\ (call.draft.pod = << >> => call.draft = Nothing) /\ context \in ContextType
  BY DEF CallOK, DraftOK
<1>2. CASE call.tool = "k8s.get_logs" /\ call.target # All /\ Known
  <2> DEFINE l == MergeLogs(context.logs, call.draft.logs)
  <2>1. d = [call.draft EXCEPT !.logs = l]
    BY <1>1, <1>2, ContextIs DEF Delta
  <2>2. PICK as \in SUBSET Containers : context.logs \in [as -> LogType]
    BY <1>1, LogsIs, ContextIs
  <2>3. PICK bs \in SUBSET Containers : call.draft.logs \in [bs -> LogType]
    BY <1>1, LogsIs, ContextIs
  <2>4. l \in [as \cup bs -> LogType]
    BY <2>2, <2>3 DEF MergeLogs
  <2>5. l \in LogsType /\ DOMAIN l = DOMAIN context.logs \cup DOMAIN call.draft.logs
    BY <2>2, <2>3, <2>4, LogsIs
  <2> HIDE DEF l
  <2>6. d \in ContextType /\ d.logs = l
    BY <1>1, <2>1, <2>5, ContextIs
  <2>7. \A f \in DOMAIN Nothing \ {"logs"} : d[f] = call.draft[f]
    BY <1>1, <2>1, ContextIs DEF Nothing
  <2>8. d.pod = call.draft.pod
    BY <1>1, <2>1, ContextIs
  <2> QED BY <1>2, <2>5, <2>6, <2>7, <2>8
<1>3. CASE ~(call.tool = "k8s.get_logs" /\ call.target # All /\ Known)
  <2>1. d = call.draft
    BY <1>3 DEF Delta
  <2> QED BY <1>1, <1>3, <2>1
<1> QED BY <1>2, <1>3

(* One result merged into the context. *)
LEMMA MergeOK ==
    ASSUME NEW ctx, DraftOK(ctx), NEW d \in ContextType, NEW e, e = Merge(ctx, d)
    PROVE  /\ DraftOK(e)
           /\ d.pod = << >> => e = ctx
           /\ d.pod # << >> => /\ e.pod = d.pod
                              /\ \A f \in DOMAIN Nothing : e[f] = IF d[f] # Nothing[f] THEN d[f] ELSE ctx[f]
<1>1. ctx \in ContextType /\ DOMAIN ctx = DOMAIN Nothing
  BY ContextIs DEF DraftOK, Nothing
<1>2. CASE d.pod = << >>
  <2>1. e = ctx
    BY <1>2 DEF Merge
  <2> QED BY <1>2, <2>1
<1>3. CASE d.pod # << >>
  <2>1. e = [f \in DOMAIN Nothing |-> IF d[f] # Nothing[f] THEN d[f] ELSE ctx[f]]
    BY <1>1, <1>3 DEF Merge
  <2>2. e = [pod |-> e.pod, events |-> e.events, logs |-> e.logs, fault |-> e.fault, claim |-> e.claim,
             topology |-> e.topology, correlations |-> e.correlations, nodes |-> e.nodes, trends |-> e.trends]
    BY <2>1 DEF Nothing
  <2>3. /\ e.pod \in {d.pod, ctx.pod} /\ e.events \in {d.events, ctx.events} /\ e.logs \in {d.logs, ctx.logs}
        /\ e.fault \in {d.fault, ctx.fault} /\ e.claim \in {d.claim, ctx.claim}
        /\ e.topology \in {d.topology, ctx.topology} /\ e.correlations \in {d.correlations, ctx.correlations}
        /\ e.nodes \in {d.nodes, ctx.nodes} /\ e.trends \in {d.trends, ctx.trends}
    BY <2>1 DEF Nothing
  <2>4. e.pod = d.pod
    <3>1. d["pod"] # Nothing["pod"] /\ "pod" \in DOMAIN Nothing
      BY <1>3, NothingOK DEF Nothing
    <3>2. e["pod"] = d["pod"]
      BY <2>1, <3>1
    <3> QED BY <3>2
  <2>5. \A f \in DOMAIN Nothing : e[f] = IF d[f] # Nothing[f] THEN d[f] ELSE ctx[f]
    BY <2>1
  <2> HIDE DEF Nothing, Merge
  <2>6. e \in ContextType
    BY <1>1, <2>2, <2>3, ContextIs
  <2> QED BY <1>3, <2>4, <2>5, <2>6 DEF DraftOK
<1> QED BY <1>2, <1>3

(* The results are merged one after the other, from the context there was. *)
MergesTo(f) ==
    /\ f \in [0..Len(calls) -> ContextType] /\ f[0] = context /\ f[Len(calls)] = Merged(calls)
    /\ \A k \in 0..Len(calls) : DraftOK(f[k])
    /\ \A k \in 1..Len(calls) :
          f[k] = IF calls[k].status = "done" THEN Merge(f[k - 1], Delta(calls[k])) ELSE f[k - 1]

(* The fold of the results has its steps. *)
LEMMA MergedOK ==
    ASSUME DraftOK(context), calls \in Seq(CallType), \A i \in DOMAIN calls : CallOK(calls[i], Known)
    PROVE  \E f : MergesTo(f)
<1> DEFINE n == Len(calls)
           S == {x \in ContextType : DraftOK(x)}
           op(ctx, call) == IF call.status = "done" THEN Merge(ctx, Delta(call)) ELSE ctx
           step == [p \in (1..n) \X S |-> op(p[2], calls[p[1]])]
           Graph(g) == g = [x \in SUBSET (1..n) |-> IF x = {} THEN context
                                                   ELSE op(g[x \ {Max(x)}], calls[Max(x)])]
<1>1. n \in Nat /\ DOMAIN calls = 1..n
  OBVIOUS
<1>2. context \in S
  BY DEF DraftOK
<1>3. ASSUME NEW k \in 1..n, NEW x \in S
      PROVE  op(x, calls[k]) \in S
  <2> DEFINE call == calls[k]
             d == Delta(call)
             e == Merge(x, d)
  <2>1. CallOK(call, Known) /\ DraftOK(x)
    BY <1>1
  <2> HIDE DEF call
  <2>2. d \in ContextType
    BY <2>1, DeltaOK
  <2> HIDE DEF d
  <2>3. DraftOK(e)
    BY <2>1, <2>2, MergeOK
  <2>4. e \in S
    BY <2>3 DEF DraftOK
  <2> HIDE DEF e, S
  <2> QED BY <2>4 DEF call, d, e
<1>4. step \in [(1..n) \X S -> S]
  <2> HIDE DEF S, n, op
  <2> QED BY <1>3
<1>5. \E g : Graph(g)
  <2>1. PICK g : Folds(g, n, S, context, step)
    <3> HIDE DEF n, S, step
    <3> QED BY <1>1, <1>2, <1>4, FoldGraph
  <2>2. g \in [SUBSET (1..n) -> S] /\ g[{}] = context
    BY <2>1 DEF Folds
  <2>3. ASSUME NEW x \in SUBSET (1..n), x # {}
        PROVE  g[x] = op(g[x \ {Max(x)}], calls[Max(x)])
    <3>1. Max(x) \in 1..n /\ x \ {Max(x)} \in SUBSET (1..n)
      BY <1>1, <2>3, MaxIn
    <3>2. g[x] = step[<<Max(x), g[x \ {Max(x)}]>>]
      BY <2>1, <2>3 DEF Folds
    <3>3. g[x \ {Max(x)}] \in S
      BY <2>2, <3>1
    <3> HIDE DEF S, op
    <3> QED BY <3>1, <3>2, <3>3
  <2> HIDE DEF n, S, step, op
  <2> QED BY <2>2, <2>3
<1> DEFINE iter == CHOOSE g : Graph(g)
<1>6. Graph(iter)
  <2> HIDE DEF Graph
  <2> QED BY <1>5
<1>7. Merged(calls) = iter[1..n]
  BY <1>1 DEF Merged, FoldLeft, MapThenFoldSet, iter
<1> HIDE DEF iter
<1>8. Steps(iter, n, S, context, step)
  <2>1. iter[{}] = context
    <3> HIDE DEF op
    <3> QED BY <1>6
  <2>2. ASSUME NEW x \in SUBSET (1..n), x # {}, iter[x \ {Max(x)}] \in S
        PROVE  iter[x] = step[<<Max(x), iter[x \ {Max(x)}]>>]
    <3>1. Max(x) \in 1..n
      BY <1>1, <2>2, MaxIn
    <3>2. iter[x] = op(iter[x \ {Max(x)}], calls[Max(x)])
      <4> HIDE DEF n, S, op
      <4> QED BY <1>6, <2>2
    <3> HIDE DEF S, n, op
    <3> QED BY <2>2, <3>1, <3>2
  <2> HIDE DEF n, S, step, op
  <2> QED BY <2>1, <2>2 DEF Steps
<1>9. PICK f : Walks(f, iter, n, S, context, step)
  <2> HIDE DEF n, S, step
  <2> QED BY <1>1, <1>2, <1>4, <1>8, Walked
<1>10. f \in [0..n -> S] /\ f[0] = context /\ f[n] = Merged(calls)
  BY <1>7, <1>9 DEF Walks
<1>11. ASSUME NEW k \in 1..n
       PROVE  f[k] = op(f[k - 1], calls[k])
  <2> DEFINE j == k - 1
  <2>1. j \in 0..(n - 1) /\ j + 1 = k /\ j \in 0..n
    BY <1>1
  <2> HIDE DEF j
  <2>2. f[j + 1] = step[<<j + 1, f[j]>>] /\ f[j] \in S
    BY <1>9, <1>10, <2>1 DEF Walks
  <2> HIDE DEF S, n, op
  <2>3. f[k] = op(f[j], calls[k])
    BY <2>1, <2>2
  <2> QED BY <2>3 DEF j
<1>12. f \in [0..n -> ContextType] /\ \A k \in 0..n : DraftOK(f[k])
  BY <1>10
<1> QED BY <1>10, <1>11, <1>12 DEF MergesTo

(* A sequence made from another, element by element. *)
LEMMA MappedType ==
    ASSUME NEW T, NEW U, NEW s \in Seq(T), NEW f \in [DOMAIN s -> U]
    PROVE  f \in Seq(U)
<1>1. DOMAIN s = 1..Len(s) /\ Len(s) \in Nat
  OBVIOUS
<1>2. f \in [1..Len(s) -> U]
  BY <1>1
<1> QED BY <1>1, <1>2

(* The plan that puts the wanted steps first is a plan of agent calls. *)
LEMMA PrioritizedOK ==
    ASSUME plan \in Seq(Seq(AgentCalls))
    PROVE  Prioritized \in Seq(Seq(AgentCalls))
<1> DEFINE T == {"k8s.get_events", "k8s.get_logs"}
           wanted == ToSet(Wanting)
           there == Within(Flat(plan), wanted \X Targets)
           added == Within(Wanting, wanted \ {there[i][1] : i \in DOMAIN there})
           rest == [i \in DOMAIN plan |-> Within(plan[i], (Tools \ wanted) \X Targets)]
           first == [i \in DOMAIN there |-> <<there[i]>>]
           second == [i \in DOMAIN added |-> << <<added[i], All>> >>]
           third == Within(rest, ToSet(rest) \ {<< >>})
<1>1. Wanting \in Seq(T)
  <2>1. <<"k8s.get_events", "k8s.get_logs">> \in Seq(T)
    OBVIOUS
  <2> HIDE DEF T
  <2> QED BY <2>1, WithinType DEF Wanting
<1>2. there \in Seq(AgentCalls)
  <2>1. Flat(plan) \in Seq(AgentCalls)
    BY FlattenType
  <2> QED BY <2>1, WithinType
<1>3. added \in Seq(T)
  <2> HIDE DEF T
  <2> QED BY <1>1, WithinType
<1>4. rest \in Seq(Seq(AgentCalls))
  <2>1. \A i \in DOMAIN plan : Within(plan[i], (Tools \ wanted) \X Targets) \in Seq(AgentCalls)
    <3> SUFFICES ASSUME NEW i \in DOMAIN plan
                 PROVE  Within(plan[i], (Tools \ wanted) \X Targets) \in Seq(AgentCalls)
      OBVIOUS
    <3>1. plan[i] \in Seq(AgentCalls)
      OBVIOUS
    <3> QED BY <3>1, WithinType
  <2> HIDE DEF wanted
  <2>2. rest \in [DOMAIN plan -> Seq(AgentCalls)]
    BY <2>1
  <2> HIDE DEF rest
  <2> QED BY <2>2, MappedType
<1>5. third \in Seq(Seq(AgentCalls))
  <2> HIDE DEF rest
  <2> QED BY <1>4, WithinType
<1>6. \A t \in T : <<t, All>> \in AgentCalls
  BY DEF AgentCalls, Tools, Targets
<1>7. Prioritized = first \o second \o third
  BY DEF Prioritized
<1> HIDE DEF there, added, third, T
<1>8. first \in Seq(Seq(AgentCalls))
  <2>1. first \in [DOMAIN there -> Seq(AgentCalls)]
    BY <1>2
  <2> HIDE DEF first
  <2> QED BY <1>2, <2>1, MappedType
<1>9. second \in Seq(Seq(AgentCalls))
  <2>1. \A i \in DOMAIN added : << <<added[i], All>> >> \in Seq(AgentCalls)
    BY <1>3, <1>6
  <2>2. second \in [DOMAIN added -> Seq(AgentCalls)]
    BY <2>1
  <2> HIDE DEF second
  <2> QED BY <1>3, <2>2, MappedType
<1> HIDE DEF first, second
<1> QED BY <1>5, <1>7, <1>8, <1>9

(* The goal stays a goal. *)
LEMMA GoalAfterOK ==
    ASSUME goal \in RequestType, NEW group
    PROVE  GoalAfter(group) \in RequestType
<1>1. \A tool : Sections(tool) \in SUBSET {"events", "logs"}
  BY DEF Sections
<1>2. GoalAfter(group) = goal \/ \E tool : GoalAfter(group) = [goal EXCEPT !.sections = @ \cup Sections(tool)]
  BY DEF GoalAfter
<1>3. ASSUME NEW tool PROVE [goal EXCEPT !.sections = @ \cup Sections(tool)] \in RequestType
  <2> DEFINE s == Sections(tool)
  <2>1. s \in SUBSET {"events", "logs"}
    BY <1>1
  <2> HIDE DEF s
  <2>2. [goal EXCEPT !.sections = @ \cup s] \in RequestType
    BY <2>1 DEF RequestType
  <2> QED BY <2>2 DEF s
<1> QED BY <1>2, <1>3

(* One call is replaced, in what is the same context. *)
LEMMA ReplacedOK ==
    ASSUME calls \in Seq(CallType), \A j \in DOMAIN calls : CallOK(calls[j], Known),
           NEW i \in DOMAIN calls, NEW new, CallOK(new, Known),
           calls' = [calls EXCEPT ![i] = new], UNCHANGED context
    PROVE  /\ calls' \in Seq(CallType) /\ DOMAIN calls' = DOMAIN calls
           /\ \A j \in DOMAIN calls' : CallOK(calls'[j], Known')
           /\ \A j \in DOMAIN calls' : calls'[j] = IF j = i THEN new ELSE calls[j]
<1>1. new \in CallType
  BY DEF CallOK
<1>2. calls' \in Seq(CallType) /\ DOMAIN calls' = DOMAIN calls
  BY <1>1
<1>3. Known' = Known
  BY DEF Known
<1>4. \A j \in DOMAIN calls' : calls'[j] = IF j = i THEN new ELSE calls[j]
  OBVIOUS
<1> QED BY <1>2, <1>3, <1>4

(* A restart leaves the deaths of every container in order, up to now. *)
LEMMA RestartOK ==
    ASSUME ClusterOK(cluster), NEW c \in Containers, Restart(c)
    PROVE  ClusterOK(cluster')
<1> DEFINE now == cluster.now
           ds == cluster.deaths
           new == [ds EXCEPT ![c] = Append(@, now + 1)]
           e == [at |-> now + 1, fault |-> TRUE]
<1>1. now \in Moments /\ now + 1 \in Moments /\ now < now + 1
  BY Bounds DEF Restart, ClusterOK, Moments
<1>2. cluster' = [now |-> now + 1, deaths |-> new, events |-> cluster.events \cup {e}]
  BY DEF Restart, ClusterOK
<1>3. /\ ds \in [Containers -> Seq(Moments)] /\ cluster.events \in SUBSET EventType
      /\ [at |-> 1, fault |-> FALSE] \in cluster.events
      /\ \A k \in Containers : /\ Len(ds[k]) < now
                               /\ \A n \in DOMAIN ds[k] : ds[k][n] <= now
                               /\ \A m, n \in DOMAIN ds[k] : m < n => ds[k][m] < ds[k][n]
  BY DEF ClusterOK
<1>4. e \in EventType
  BY <1>1 DEF EventType
<1> HIDE DEF now, ds, e
<1>5. new \in [Containers -> Seq(Moments)]
  BY <1>1, <1>3
<1>6. ASSUME NEW k \in Containers
      PROVE  /\ Len(new[k]) < now + 1
             /\ \A n \in DOMAIN new[k] : new[k][n] <= now + 1
             /\ \A m, n \in DOMAIN new[k] : m < n => new[k][m] < new[k][n]
  <2>1. now \in Nat /\ ds[k] \in Seq(Moments) /\ \A n \in DOMAIN ds[k] : ds[k][n] \in Nat
    <3>1. Moments \subseteq Nat
      BY Bounds DEF Moments
    <3>2. ds[k] \in Seq(Moments)
      BY <1>3
    <3>3. \A n \in DOMAIN ds[k] : ds[k][n] \in Moments
      BY <3>2
    <3> HIDE DEF new
    <3> QED BY <1>1, <3>1, <3>2, <3>3
  <2>2. CASE k # c
    <3>1. new[k] = ds[k]
      BY <1>3, <2>2
    <3>2. Len(ds[k]) < now /\ \A n \in DOMAIN ds[k] : ds[k][n] <= now
      BY <1>3
    <3>3. Len(ds[k]) < now + 1 /\ \A n \in DOMAIN ds[k] : ds[k][n] <= now + 1
      BY <2>1, <3>2
    <3> HIDE DEF new
    <3> QED BY <1>3, <3>1, <3>3
  <2>3. CASE k = c
    <3>1. new[k] = Append(ds[k], now + 1)
      BY <1>3, <2>3
    <3> DEFINE s == ds[k]
    <3>2. /\ s \in Seq(Moments) /\ Len(s) < now /\ \A n \in DOMAIN s : s[n] <= now /\ s[n] \in Nat
          /\ \A m, n \in DOMAIN s : m < n => s[m] < s[n]
      BY <1>3, <2>1
    <3> HIDE DEF new, s
    <3>3. new[k] = Append(s, now + 1)
      BY <3>1 DEF s
    <3>4. Len(new[k]) = Len(s) + 1 /\ DOMAIN new[k] = 1..(Len(s) + 1) /\ DOMAIN s = 1..Len(s)
          /\ new[k][Len(s) + 1] = now + 1 /\ \A n \in 1..Len(s) : new[k][n] = s[n]
      BY <1>1, <3>2, <3>3
    <3>5. Len(s) \in Nat
      BY <3>2
    <3>6. \A n \in DOMAIN new[k] : n = Len(s) + 1 \/ n \in 1..Len(s)
      BY <3>4, <3>5
    <3>7. \A n \in DOMAIN new[k] : new[k][n] <= now + 1
      BY <2>1, <3>2, <3>4, <3>6
    <3>8. ASSUME NEW m \in DOMAIN new[k], NEW n \in DOMAIN new[k], m < n PROVE new[k][m] < new[k][n]
      <4>1. m \in 1..Len(s) /\ m \in DOMAIN s
        BY <3>4, <3>5, <3>8
      <4>2. new[k][m] = s[m] /\ s[m] <= now /\ s[m] \in Nat
        BY <3>2, <3>4, <4>1
      <4>3. CASE n = Len(s) + 1
        BY <2>1, <3>4, <4>2, <4>3
      <4>4. CASE n \in 1..Len(s)
        <5>1. s[m] < s[n] /\ new[k][n] = s[n]
          BY <3>2, <3>4, <3>8, <4>1, <4>4
        <5> QED BY <4>2, <5>1
      <4> QED BY <3>6, <4>3, <4>4
    <3>9. Len(new[k]) < now + 1
      BY <2>1, <3>2, <3>4, <3>5
    <3> QED BY <3>7, <3>8, <3>9
  <2> QED BY <2>2, <2>3
<1> HIDE DEF new
<1> QED BY <1>1, <1>2, <1>3, <1>4, <1>5, <1>6 DEF ClusterOK

-----------------------------------------------------------------------------
(* The invariant holds at first, and every step keeps it. *)

(* The initial states. *)
LEMMA CollectInit == Init => CollectInv
<1> SUFFICES ASSUME Init PROVE CollectInv
  OBVIOUS
<1>1. cluster = [now |-> 1, deaths |-> [c \in Containers |-> << >>], events |-> {[at |-> 1, fault |-> FALSE]}]
  BY DEF Init
<1>2. 1 \in Moments /\ 0 \in Nat
  BY Bounds DEF Moments
<1>3. ClusterOK(cluster)
  <2>1. cluster \in [now: Moments, deaths: [Containers -> Seq(Moments)], events: SUBSET EventType]
    BY <1>1, <1>2 DEF EventType
  <2>2. \A c \in Containers : cluster.deaths[c] = << >>
    BY <1>1
  <2>3. \A c \in Containers : Len(cluster.deaths[c]) < cluster.now
    BY <1>1, <2>2
  <2>4. \A c \in Containers : DOMAIN cluster.deaths[c] = {}
    BY <2>2
  <2> QED BY <1>1, <2>1, <2>3, <2>4 DEF ClusterOK
<1>4. goal \in RequestType /\ plan \in Seq(Seq(AgentCalls)) \cup {LegacyPlan}
  BY RunAssumption DEF Init
<1>5. DraftOK(context) /\ ~Known
  BY NothingOK DEF Init, Known
<1>6. budget \in [errors: 0..MaxErrors, hangs: 0..MaxHangs]
  BY Bounds DEF Init
<1>7. calls \in Seq(CallType) /\ DOMAIN calls = {}
  BY DEF Init
<1>8. called = {} /\ calls = << >>
  BY DEF Init
<1> QED BY <1>3, <1>4, <1>5, <1>6, <1>7, <1>8 DEF CollectInv

(* The steps, one by one. *)
LEMMA RestartKeeps ==
    ASSUME CollectInv, NEW c \in Containers, Restart(c)
    PROVE  CollectInv'
<1>1. ClusterOK(cluster')
  BY RestartOK DEF CollectInv
<1>2. UNCHANGED <<goal, context, found, called, plan, calls, budget>>
  BY DEF Restart
<1>3. Known' = Known
  BY <1>2 DEF Known
<1> QED BY <1>1, <1>2, <1>3 DEF CollectInv

LEMMA StartKeeps ==
    ASSUME CollectInv, Start
    PROVE  CollectInv'
<1> DEFINE group == Head(plan)
<1>1. /\ calls = << >> /\ plan # << >> /\ plan' = Tail(plan)
      /\ calls' = [i \in DOMAIN group |-> Call(group[i][1], group[i][2])]
      /\ UNCHANGED <<cluster, goal, context, found, called, budget>>
  BY DEF Start
<1>2. Known' = Known
  BY <1>1 DEF Known
<1>3. goal \in RequestType
  BY DEF CollectInv
<1>4. /\ group \in Seq(Tools \X Targets) /\ plan' \in Seq(Seq(AgentCalls))
      /\ \A i \in DOMAIN group : group[i][1] = "collect" => ~Known
  <2>1. CASE plan \in Seq(Seq(AgentCalls))
    <3>1. group \in Seq(AgentCalls) /\ plan' \in Seq(Seq(AgentCalls))
      BY <1>1, <2>1
    <3> HIDE DEF group
    <3>2. \A i \in DOMAIN group : group[i] \in (Tools \ {"collect"}) \X Targets
      BY <3>1 DEF AgentCalls
    <3>3. group \in Seq(Tools \X Targets)
      BY <3>1, <3>2
    <3> QED BY <3>1, <3>2, <3>3
  <2>2. CASE plan = LegacyPlan /\ ~Known
    <3>1. group = << <<"collect", All>> >> /\ plan' = << >>
      BY <1>1, <2>2 DEF LegacyPlan
    <3> HIDE DEF group
    <3>2. <<"collect", All>> \in Tools \X Targets
      BY DEF Tools, Targets
    <3>3. group \in Seq(Tools \X Targets)
      BY <3>1, <3>2
    <3> QED BY <2>2, <3>1, <3>3
  <2> QED BY <2>1, <2>2 DEF CollectInv
<1> HIDE DEF group
<1>5. ASSUME NEW i \in DOMAIN group PROVE CallOK(calls'[i], Known)
  <2> DEFINE tool == group[i][1]
             target == group[i][2]
  <2>1. tool \in Tools /\ target \in Targets /\ (tool = "collect" => ~Known)
    BY <1>4
  <2>2. calls'[i] = Call(tool, target)
    BY <1>1
  <2> HIDE DEF tool, target
  <2> QED BY <1>3, <2>1, <2>2, CallStart
<1>6. DOMAIN calls' = DOMAIN group
  BY <1>1
<1>7. calls' \in Seq(CallType)
  <2>1. \A i \in DOMAIN group : calls'[i] \in CallType
    BY <1>5 DEF CallOK
  <2>2. calls' \in [DOMAIN group -> CallType]
    BY <1>1, <2>1
  <2> QED BY <1>4, <2>2, MappedType
<1> QED BY <1>1, <1>2, <1>4, <1>5, <1>6, <1>7 DEF CollectInv

LEMMA RecordKeeps ==
    ASSUME CollectInv, Record
    PROVE  CollectInv'
<1>1. /\ calls # << >> /\ context' = Merged(calls) /\ goal' = GoalAfter(calls) /\ calls' = << >>
      /\ called' = called \cup {calls[i].tool : i \in DOMAIN calls}
      /\ UNCHANGED <<cluster, plan, budget>>
  BY DEF Record
<1>2. calls \in Seq(CallType) /\ DraftOK(context) /\ \A i \in DOMAIN calls : CallOK(calls[i], Known)
  BY DEF CollectInv
<1>3. PICK f : MergesTo(f)
  BY <1>2, MergedOK
<1>4. DraftOK(context')
  <2>1. Len(calls) \in 0..Len(calls)
    BY <1>2
  <2> QED BY <1>1, <1>3, <2>1 DEF MergesTo
<1>5. goal' \in RequestType
  BY <1>1, GoalAfterOK DEF CollectInv
<1>6. called' \subseteq Tools
  <2>1. \A i \in DOMAIN calls : calls[i].tool \in Tools
    BY <1>2 DEF CallOK, CallType
  <2> QED BY <1>1, <2>1 DEF CollectInv
<1>7. plan' \in Seq(Seq(AgentCalls))
  BY <1>1 DEF CollectInv
<1>8. calls' \in Seq(CallType) /\ DOMAIN calls' = {}
  BY <1>1
<1> QED BY <1>1, <1>4, <1>5, <1>6, <1>7, <1>8 DEF CollectInv

LEMMA FallbackKeeps ==
    ASSUME CollectInv, ProbeFallback
    PROVE  CollectInv'
<1>1. /\ calls = << >> /\ Known /\ plan' = Prioritized
      /\ UNCHANGED <<cluster, found, called, calls, budget>>
  BY DEF ProbeFallback
<1>2. plan' \in Seq(Seq(AgentCalls))
  BY <1>1, PrioritizedOK DEF CollectInv
<1>3. DraftOK(context')
  BY NothingOK DEF ProbeFallback, CollectInv
<1>4. goal' \in RequestType
  <2>1. goal' = goal \/ goal' = [goal EXCEPT !.sections = @ \cup {"events", "logs"}]
    BY DEF ProbeFallback
  <2>2. goal \in RequestType
    BY DEF CollectInv
  <2> QED BY <2>1, <2>2 DEF RequestType
<1>5. DOMAIN calls = {}
  BY <1>1
<1> QED BY <1>1, <1>2, <1>3, <1>4, <1>5 DEF CollectInv

(* Of a step that replaces one call. *)
LEMMA ReplaceKeeps ==
    ASSUME CollectInv, NEW i \in DOMAIN calls, NEW new, CallOK(new, Known),
           calls' = [calls EXCEPT ![i] = new],
           UNCHANGED <<cluster, goal, context, found, called, plan>>,
           budget' \in [errors: 0..MaxErrors, hangs: 0..MaxHangs]
    PROVE  CollectInv'
<1>1. calls \in Seq(CallType) /\ \A j \in DOMAIN calls : CallOK(calls[j], Known)
  BY DEF CollectInv
<1>2. calls' \in Seq(CallType) /\ \A j \in DOMAIN calls' : CallOK(calls'[j], Known')
  BY <1>1, ReplacedOK
<1>3. calls # << >>
  BY <1>1
<1>4. plan' \in Seq(Seq(AgentCalls))
  BY <1>3 DEF CollectInv
<1> QED BY <1>2, <1>4 DEF CollectInv

LEMMA ReadKeeps ==
    ASSUME CollectInv, NEW i, Read(i)
    PROVE  CollectInv'
<1> DEFINE call == calls[i]
<1>1. /\ i \in DOMAIN calls /\ call.status = "running"
      /\ UNCHANGED <<cluster, goal, context, found, called, plan>>
  BY DEF Read
<1>2. CallOK(call, Known) /\ goal \in RequestType /\ ClusterOK(cluster) /\ calls \in Seq(CallType)
      /\ budget \in [errors: 0..MaxErrors, hangs: 0..MaxHangs]
  BY <1>1 DEF CollectInv
<1>3. CASE /\ \E d \in Learnt(call.draft, NextRead(call)), says \in Told(call) :
                calls' = [calls EXCEPT ![i] = Advance(@, d, says)]
           /\ UNCHANGED budget
  <2>1. PICK d \in Learnt(call.draft, NextRead(call)), says \in Told(call) :
               calls' = [calls EXCEPT ![i] = Advance(call, d, says)]
    BY <1>1, <1>2, <1>3
  <2> DEFINE new == Advance(call, d, says)
  <2>2. CallOK(new, Known)
    <3> HIDE DEF call
    <3> QED BY <1>1, <1>2, ReadOK
  <2> HIDE DEF new, call
  <2>3. calls' = [calls EXCEPT ![i] = new]
    BY <2>1 DEF new
  <2> QED BY <1>1, <1>2, <1>3, <2>2, <2>3, ReplaceKeeps
<1>4. CASE /\ budget.errors > 0
           /\ calls' = [calls EXCEPT ![i] = Failed(@)]
           /\ budget' = [budget EXCEPT !.errors = @ - 1]
  <2> DEFINE new == Failed(call)
  <2>1. calls' = [calls EXCEPT ![i] = new]
    BY <1>1, <1>2, <1>4
  <2>2. CallOK(new, Known)
    <3> HIDE DEF call
    <3> QED BY <1>1, <1>2, FailedOK
  <2>3. budget' \in [errors: 0..MaxErrors, hangs: 0..MaxHangs]
    BY <1>2, <1>4, Bounds
  <2> HIDE DEF new, call
  <2> QED BY <1>1, <2>1, <2>2, <2>3, ReplaceKeeps
<1> QED BY <1>3, <1>4 DEF Read

LEMMA HangKeeps ==
    ASSUME CollectInv, NEW i, Hang(i)
    PROVE  CollectInv'
<1> DEFINE call == calls[i]
           new == [call EXCEPT !.status = "hung"]
<1>1. /\ i \in DOMAIN calls /\ call.status = "running" /\ budget.hangs > 0
      /\ UNCHANGED <<cluster, goal, context, found, called, plan>>
      /\ budget' = [budget EXCEPT !.hangs = @ - 1]
  BY DEF Hang
<1>2. CallOK(call, Known) /\ calls \in Seq(CallType) /\ budget \in [errors: 0..MaxErrors, hangs: 0..MaxHangs]
  BY <1>1 DEF CollectInv
<1>3. calls' = [calls EXCEPT ![i] = new]
  BY <1>1, <1>2 DEF Hang
<1>4. call.todo # << >>
  BY <1>1, <1>2 DEF CallOK, TodoOK
<1>5. CallOK(new, Known)
  <2> HIDE DEF call
  <2> QED BY <1>2, <1>4, StoppedOK
<1>6. budget' \in [errors: 0..MaxErrors, hangs: 0..MaxHangs]
  BY <1>1, <1>2, Bounds
<1> HIDE DEF new, call
<1> QED BY <1>1, <1>3, <1>5, <1>6, ReplaceKeeps

LEMMA DeadlineKeeps ==
    ASSUME CollectInv, NEW i, Deadline(i)
    PROVE  CollectInv'
<1> DEFINE call == calls[i]
<1>1. /\ i \in DOMAIN calls /\ call.status = "hung"
      /\ UNCHANGED <<cluster, goal, context, found, called, plan, budget>>
  BY DEF Deadline
<1>2. CallOK(call, Known) /\ goal \in RequestType /\ budget \in [errors: 0..MaxErrors, hangs: 0..MaxHangs]
  BY <1>1 DEF CollectInv
<1>3. PICK new \in GivenUp(call) : calls' = [calls EXCEPT ![i] = new]
  BY DEF Deadline
<1>4. new = [call EXCEPT !.status = "failed"] \/ new = Cancelled(call)
  BY <1>3 DEF GivenUp
<1> HIDE DEF call
<1>5. CallOK(new, Known)
  BY <1>1, <1>2, <1>4, StoppedOK, CancelledOK
<1> QED BY <1>1, <1>2, <1>3, <1>5, ReplaceKeeps

(* Every step. *)
LEMMA CollectStep == CollectInv /\ [Next]_vars => CollectInv'
<1> SUFFICES ASSUME CollectInv, [Next]_vars PROVE CollectInv'
  OBVIOUS
<1>1. ASSUME UNCHANGED vars PROVE CollectInv'
  BY <1>1 DEF vars, CollectInv, Known
<1>2. ASSUME NEW c \in Containers, Restart(c) PROVE CollectInv'
  BY <1>2, RestartKeeps
<1>3. ASSUME NEW i \in Width, Read(i) \/ Hang(i) \/ Deadline(i) PROVE CollectInv'
  BY <1>3, ReadKeeps, HangKeeps, DeadlineKeeps
<1> QED BY <1>1, <1>2, <1>3, StartKeeps, RecordKeeps, FallbackKeeps DEF Next

(* The invariant holds always. *)
LEMMA CollectAlways == Spec => []CollectInv
BY CollectInit, CollectStep, PTL DEF Spec

(* The state keeps its types, and a context without a pod is an empty one: of a pod that    *)
(* was not read nothing is known, in the state of the run and in every call that is still   *)
(* collecting.                                                                              *)
THEOREM CollectionTypes == Spec => []CollectionTypeOK
<1>1. CollectInv => CollectionTypeOK
  <2> SUFFICES ASSUME CollectInv PROVE CollectionTypeOK
    OBVIOUS
  <2>1. budget \in [{"errors", "hangs"} -> Nat]
    <3>1. budget \in [errors: 0..MaxErrors, hangs: 0..MaxHangs]
      BY DEF CollectInv
    <3> QED BY <3>1, Bounds
  <2>2. context \in ContextType /\ (~Known => context = Nothing)
    BY DEF CollectInv, DraftOK, Known
  <2>3. ASSUME NEW i \in DOMAIN calls
        PROVE  /\ calls[i].draft \in ContextType
               /\ calls[i].draft.pod = << >> => calls[i].draft = Nothing
               /\ calls[i].status \in {"running", "hung", "done", "failed"}
               /\ (calls[i].status = "running") = (calls[i].todo # << >> /\ calls[i].status \notin {"hung", "failed"})
    <3> DEFINE call == calls[i]
    <3>1. CallOK(call, Known)
      BY DEF CollectInv
    <3> HIDE DEF call
    <3>2. call.draft \in ContextType /\ (call.draft.pod = << >> => call.draft = Nothing)
      BY <3>1 DEF CallOK, DraftOK
    <3>3. call.status \in {"running", "hung", "done", "failed"}
      BY <3>1 DEF CallOK, CallType
    <3>4. call.status = "running" <=> call.todo # << >> /\ call.status \notin {"hung", "failed"}
      BY <3>1, <3>3 DEF CallOK, TodoOK
    <3> QED BY <3>2, <3>3, <3>4 DEF call
  <2>4. goal \in RequestType /\ called \subseteq Tools
    BY DEF CollectInv
  <2> QED BY <2>1, <2>2, <2>3, <2>4 DEF CollectionTypeOK
<1> QED BY <1>1, CollectAlways, PTL

-----------------------------------------------------------------------------
(* Retries. *)

(* A call that lost nothing to the errors that were met. *)
Spared(call) ==
    call.fresh => /\ call.status # "failed"
                  /\ Sections(call.tool) # {} => Has(call.todo, "events") \/ call.draft.events # {}
Few(b) == MaxErrors - b.errors < MaxAttempts /\ b.hangs = MaxHangs

(* A read has no more failures behind it than there were errors; as long as these are too   *)
(* few to exhaust the attempts of one read no call gave anything up.                        *)
RetryInv ==
    /\ \A i \in DOMAIN calls : /\ calls[i].tries <= MaxErrors - budget.errors
                               /\ calls[i].status = "hung" => budget.hangs < MaxHangs
    /\ Few(budget) => \A i \in DOMAIN calls : Spared(calls[i])

(* A tool that refreshes a section keeps the events. *)
LEMMA SectionEvents ==
    ASSUME NEW tool, Sections(tool) # {}
    PROVE  "events" \in Section(tool) /\ tool \in SnapshotTools
BY DEF Sections, Section, SnapshotTools

(* Of a step that replaces one call. *)
LEMMA RetryReplace ==
    ASSUME CollectInv, RetryInv, NEW i \in DOMAIN calls, NEW new, CallOK(new, Known),
           calls' = [calls EXCEPT ![i] = new], UNCHANGED context,
           budget' \in [errors: 0..MaxErrors, hangs: 0..MaxHangs],
           budget'.errors <= budget.errors, budget'.hangs <= budget.hangs,
           new.tries <= MaxErrors - budget'.errors,
           new.status = "hung" => budget'.hangs < MaxHangs,
           Few(budget) /\ Few(budget') => Spared(new)
    PROVE  RetryInv'
<1>1. /\ calls \in Seq(CallType) /\ \A j \in DOMAIN calls : CallOK(calls[j], Known)
      /\ budget \in [errors: 0..MaxErrors, hangs: 0..MaxHangs]
  BY DEF CollectInv
<1>2. DOMAIN calls' = DOMAIN calls /\ \A j \in DOMAIN calls' : calls'[j] = IF j = i THEN new ELSE calls[j]
  BY <1>1, ReplacedOK
<1>3. Few(budget') => Few(budget)
  BY <1>1, Bounds DEF Few
<1>4. ASSUME NEW j \in DOMAIN calls'
      PROVE  /\ calls'[j].tries <= MaxErrors - budget'.errors
             /\ calls'[j].status = "hung" => budget'.hangs < MaxHangs
             /\ Few(budget') => Spared(calls'[j])
  <2>1. CASE j = i
    BY <1>2, <1>3, <2>1
  <2>2. CASE j # i
    <3> DEFINE call == calls[j]
    <3>1. j \in DOMAIN calls /\ calls'[j] = call
      BY <1>2, <2>2
    <3>2. call \in CallType /\ call.tries \in Nat
      BY <1>1, <3>1 DEF CallOK, CallType
    <3>3. call.tries <= MaxErrors - budget.errors /\ (call.status = "hung" => budget.hangs < MaxHangs)
          /\ (Few(budget) => Spared(call))
      BY <3>1 DEF RetryInv
    <3> HIDE DEF call
    <3>4. call.tries <= MaxErrors - budget'.errors /\ (call.status = "hung" => budget'.hangs < MaxHangs)
      BY <1>1, <3>2, <3>3, Bounds
    <3> QED BY <1>3, <3>1, <3>3, <3>4
  <2> QED BY <2>1, <2>2
<1> QED BY <1>4 DEF RetryInv

(* What a call has when it goes on with its reads. *)
LEMMA AdvanceSpares ==
    ASSUME NEW call, CallOK(call, Known), call.todo # << >>, call.status # "failed", Spared(call),
           NEW d, DraftOK(d), NEW says, call.tool \in SnapshotTools => says # "hit",
           NEW new, Advanced(new, call, d, says),
           NextRead(call)[1] = "events" \/ call.draft.events # {} => d.events # {}
    PROVE  Spared(new)
<1>1. /\ new.tool = call.tool /\ new.fresh = call.fresh /\ new.status \in {"running", "done"}
      /\ new.draft = Kept(call.tool, d)
      /\ new.todo = IF says = "hit" THEN << >> ELSE Tail(call.todo)
  BY DEF Advanced
<1> SUFFICES ASSUME call.fresh, Sections(call.tool) # {}
             PROVE  Has(new.todo, "events") \/ new.draft.events # {}
  BY <1>1 DEF Spared
<1>2. new.todo = Tail(call.todo) /\ "events" \in Section(call.tool) \cap DOMAIN Nothing
  BY <1>1, SectionEvents DEF Nothing
<1>3. new.draft["events"] = d["events"]
  BY <1>1, <1>2, KeptOK
<1>4. Has(call.todo, "events") \/ call.draft.events # {}
  BY DEF Spared
<1>5. Has(call.todo, "events") => Head(call.todo)[1] = "events" \/ Has(Tail(call.todo), "events")
  <2>1. call.todo \in Seq(ReadType)
    BY DEF CallOK, CallType
  <2> QED BY <2>1, TailOf
<1> QED BY <1>2, <1>3, <1>4, <1>5 DEF NextRead

(* The steps, one by one: only an error or a hang can cost a call anything. *)
LEMMA RetryRead ==
    ASSUME CollectInv, RetryInv, NEW i, Read(i)
    PROVE  RetryInv'
<1> DEFINE call == calls[i]
           read == NextRead(call)
<1>1. /\ i \in DOMAIN calls /\ call.status = "running"
      /\ UNCHANGED <<cluster, goal, context, found, called, plan>>
  BY DEF Read
<1>2. /\ CallOK(call, Known) /\ goal \in RequestType /\ ClusterOK(cluster) /\ calls \in Seq(CallType)
      /\ budget \in [errors: 0..MaxErrors, hangs: 0..MaxHangs]
  BY <1>1 DEF CollectInv
<1>3. /\ call.todo # << >> /\ DraftOK(call.draft) /\ call.draft \in ContextType /\ call.tries \in Nat
      /\ call.fresh \in BOOLEAN
      /\ call.tries <= MaxErrors - budget.errors /\ (Few(budget) => Spared(call))
      /\ call.fresh => call.tool \in SnapshotTools
      /\ call.tool \in SnapshotTools => call.says # "hit"
  BY <1>1, <1>2 DEF CallOK, CallType, TodoOK, DraftOK, SnapshotOK, RetryInv
<1>4. /\ read \in ReadType
      /\ read[1] \in Surround => call.draft.pod # << >>
      /\ call.tool \in SnapshotTools => read[1] \in Surround \cup {"pod"}
  BY <1>2, <1>3, NextOK
<1>5. CASE /\ \E d \in Learnt(call.draft, read), says \in Told(call) :
                calls' = [calls EXCEPT ![i] = Advance(@, d, says)]
           /\ UNCHANGED budget
  <2>1. PICK d \in Learnt(call.draft, read), says \in Told(call) :
               calls' = [calls EXCEPT ![i] = Advance(call, d, says)]
    BY <1>1, <1>2, <1>5
  <2> DEFINE new == Advance(call, d, says)
             b == budget
  <2> HIDE DEF call, new
  <2>2. CallOK(new, Known) /\ Advanced(new, call, d, says) /\ DraftOK(d)
    BY <1>1, <1>2, ReadOK DEF new
  <2>3. read[1] = "events" \/ call.draft.events # {} => d.events # {}
    <3>1. /\ read[1] = "events" => d.events = cluster.events
          /\ read[1] # "events" => d.events = call.draft.events
      <4>1. Learned(d, call.draft, read)
        BY <1>2, <1>3, <1>4, LearntOK
      <4> QED BY <4>1 DEF Learned
    <3>2. cluster.events # {}
      BY <1>2 DEF ClusterOK
    <3> QED BY <3>1, <3>2
  <2>4. says = call.says \/ call.tool \notin SnapshotTools
    BY <1>2, <1>3, ToldOK
  <2>5. Few(budget) => Spared(new)
    <3> HIDE DEF read
    <3> QED BY <1>1, <1>2, <1>3, <2>2, <2>3, <2>4, AdvanceSpares DEF read
  <2>6. new.tries = 0 /\ new.status # "hung"
    BY <2>2 DEF Advanced
  <2>7. calls' = [calls EXCEPT ![i] = new]
    BY <2>1 DEF new
  <2>8. budget' = budget /\ budget.errors \in 0..MaxErrors /\ budget.hangs \in 0..MaxHangs
    BY <1>2, <1>5
  <2>9. new.tries <= MaxErrors - budget.errors
    BY <2>6, <2>8, Bounds
  <2>10. /\ budget' \in [errors: 0..MaxErrors, hangs: 0..MaxHangs]
         /\ budget'.errors <= budget.errors /\ budget'.hangs <= budget.hangs
         /\ new.tries <= MaxErrors - budget'.errors
         /\ new.status = "hung" => budget'.hangs < MaxHangs
         /\ Few(budget) /\ Few(budget') => Spared(new)
    BY <1>2, <2>5, <2>6, <2>8, <2>9, Bounds
  <2> QED BY <1>1, <2>2, <2>7, <2>10, RetryReplace
<1>6. CASE /\ budget.errors > 0
           /\ calls' = [calls EXCEPT ![i] = Failed(@)]
           /\ budget' = [budget EXCEPT !.errors = @ - 1]
  <2> DEFINE new == Failed(call)
  <2>1. calls' = [calls EXCEPT ![i] = new]
    BY <1>1, <1>2, <1>6
  <2> HIDE DEF call, new
  <2>2. /\ CallOK(new, Known)
        /\ \/ MayRetry(call) /\ new = [call EXCEPT !.tries = @ + 1]
           \/ ~MayRetry(call) /\ read[1] \in Vital /\ new = [call EXCEPT !.status = "failed"]
           \/ /\ call.tool \notin SnapshotTools /\ new.tries = 0
              /\ new.fresh = call.fresh /\ new.status = "running"
           \/ /\ ~MayRetry(call) /\ \E says \in {call.says, "unread"} :
                                       new = Advance(call, Missed(call.draft, read), says)
              /\ call.tool \in SnapshotTools => new = Advance(call, Missed(call.draft, read), call.says)
              /\ read[1] # "pod" /\ (read[1] \in {"pod", "live"} => Known)
    BY <1>1, <1>2, FailedOK DEF new
  <2>3. /\ budget' \in [errors: 0..MaxErrors, hangs: 0..MaxHangs] /\ budget'.errors = budget.errors - 1
        /\ budget'.hangs = budget.hangs /\ budget.errors \in 1..MaxErrors
    BY <1>2, <1>6, Bounds
  <2>4. Few(budget) /\ Few(budget') => MayRetry(call) \/ read[1] \notin Retried
    <3>1. Few(budget') => call.tries + 1 < MaxAttempts
      BY <1>3, <2>3, Bounds DEF Few
    <3> QED BY <3>1 DEF MayRetry
  <2>5. call.status = "running" /\ call \in CallType
    BY <1>1, <1>2 DEF CallOK
  <2>6. /\ new.tries \in {0, call.tries, call.tries + 1} /\ new.status # "hung"
        /\ Few(budget) /\ Few(budget') => Spared(new)
    <3>1. CASE MayRetry(call) /\ new = [call EXCEPT !.tries = @ + 1]
      <4>1. new.fresh = call.fresh /\ new.status = call.status /\ new.tries = call.tries + 1
            /\ new.tool = call.tool /\ new.todo = call.todo /\ new.draft = call.draft
        BY <2>5, <3>1 DEF CallType
      <4> QED BY <1>3, <2>5, <4>1 DEF Spared
    <3>2. CASE ~MayRetry(call) /\ read[1] \in Vital /\ new = [call EXCEPT !.status = "failed"]
      <4>1. new.fresh = call.fresh /\ new.status = "failed" /\ new.tries = call.tries
        BY <2>5, <3>2 DEF CallType
      <4>2. Few(budget) /\ Few(budget') => call.tool \notin SnapshotTools
        BY <1>4, <2>4, <3>2 DEF Vital, Retried, Surround
      <4> QED BY <1>3, <4>1, <4>2 DEF Spared
    <3>3. CASE /\ call.tool \notin SnapshotTools /\ new.tries = 0
               /\ new.fresh = call.fresh /\ new.status = "running"
      BY <1>3, <3>3 DEF Spared
    <3>4. CASE /\ ~MayRetry(call) /\ read[1] # "pod"
               /\ \E says \in {call.says, "unread"} :
                     /\ new = Advance(call, Missed(call.draft, read), says)
                     /\ call.tool \in SnapshotTools => says = call.says
      <4> DEFINE d == Missed(call.draft, read)
                 known == Known
      <4>1. PICK says \in {call.says, "unread"} : /\ new = Advance(call, d, says)
                                                  /\ call.tool \in SnapshotTools => says = call.says
        BY <3>4
      <4>2. DraftOK(d) /\ d.pod = call.draft.pod /\ d.events = call.draft.events
        BY <1>2, <1>3, <1>4, MissedOK
      <4> HIDE DEF d
      <4>3. d = Nothing => AllOf(call.todo, Harmless \cup {"live"})
        <5>1. /\ call.draft.pod = << >> <=> call.draft = Nothing
              /\ call.draft = Nothing => NextRead(call)[1] = "pod" \/ AllOf(call.todo, Harmless \cup {"live"})
          BY <1>2, <1>3, NextOK
        <5> QED BY <3>4, <4>2, <5>1, NothingOK DEF read
      <4>4. says \in SaysType /\ (call.tool \in SnapshotTools => says # "hit")
        BY <1>3, <2>5, <4>1 DEF CallType, SaysType
      <4>5. CallOK(call, known)
        BY <1>2
      <4> HIDE DEF known
      <4>6. Advanced(new, call, d, says)
        BY <1>3, <4>2, <4>3, <4>4, <4>1, <4>5, AdvanceOK
      <4>7. Few(budget) /\ Few(budget') => read[1] # "events"
        BY <2>4, <3>4 DEF Retried
      <4>8. Few(budget) /\ Few(budget') => Spared(new)
        <5> HIDE DEF read
        <5>1. SUFFICES ASSUME Few(budget), Few(budget') PROVE Spared(new)
          OBVIOUS
        <5>2. Spared(call) /\ call.status # "failed" /\ NextRead(call)[1] # "events"
          BY <1>3, <2>5, <4>7, <5>1 DEF read
        <5> QED BY <1>2, <1>3, <4>2, <4>4, <4>6, <5>2, AdvanceSpares
      <4>9. new.tries = 0 /\ new.status # "hung"
        BY <4>6 DEF Advanced
      <4> QED BY <4>8, <4>9
    <3> QED BY <2>2, <3>1, <3>2, <3>3, <3>4
  <2>7. new.tries <= MaxErrors - budget'.errors
    BY <1>2, <1>3, <2>3, <2>6, Bounds
  <2>8. budget'.errors <= budget.errors /\ budget'.hangs <= budget.hangs
    BY <1>2, <2>3
  <2> QED BY <1>1, <2>1, <2>2, <2>3, <2>6, <2>7, <2>8, RetryReplace
<1> QED BY <1>5, <1>6 DEF Read

LEMMA RetryHang ==
    ASSUME CollectInv, RetryInv, NEW i, Hang(i)
    PROVE  RetryInv'
<1> DEFINE call == calls[i]
           new == [call EXCEPT !.status = "hung"]
<1>1. /\ i \in DOMAIN calls /\ call.status = "running" /\ budget.hangs > 0
      /\ UNCHANGED <<cluster, goal, context, found, called, plan>>
      /\ budget' = [budget EXCEPT !.hangs = @ - 1]
  BY DEF Hang
<1>2. CallOK(call, Known) /\ calls \in Seq(CallType) /\ budget \in [errors: 0..MaxErrors, hangs: 0..MaxHangs]
  BY <1>1 DEF CollectInv
<1>3. calls' = [calls EXCEPT ![i] = new]
  BY <1>1, <1>2 DEF Hang
<1>4. call.todo # << >>
  BY <1>1, <1>2 DEF CallOK, TodoOK
<1>5. call.tries <= MaxErrors - budget.errors
  BY <1>1 DEF RetryInv
<1>6. CallOK(new, Known) /\ new.tries = call.tries
  <2>1. call \in CallType
    BY <1>2 DEF CallOK
  <2>2. new.tries = call.tries
    BY <2>1 DEF CallType
  <2> HIDE DEF call
  <2> QED BY <1>2, <1>4, <2>2, StoppedOK
<1>7. /\ budget' \in [errors: 0..MaxErrors, hangs: 0..MaxHangs] /\ budget'.errors = budget.errors
      /\ budget'.hangs < MaxHangs /\ budget'.hangs <= budget.hangs /\ budget'.errors <= budget.errors
  BY <1>1, <1>2, Bounds
<1>8. new.tries <= MaxErrors - budget'.errors /\ ~Few(budget')
  BY <1>5, <1>6, <1>7, Bounds DEF Few
<1> HIDE DEF new, call
<1> QED BY <1>1, <1>3, <1>6, <1>7, <1>8, RetryReplace

LEMMA RetryDeadline ==
    ASSUME CollectInv, RetryInv, NEW i, Deadline(i)
    PROVE  RetryInv'
<1> DEFINE call == calls[i]
<1>1. /\ i \in DOMAIN calls /\ call.status = "hung"
      /\ UNCHANGED <<cluster, goal, context, found, called, plan, budget>>
  BY DEF Deadline
<1>2. /\ CallOK(call, Known) /\ goal \in RequestType
      /\ budget \in [errors: 0..MaxErrors, hangs: 0..MaxHangs]
  BY <1>1 DEF CollectInv
<1>3. PICK new \in GivenUp(call) : calls' = [calls EXCEPT ![i] = new]
  BY DEF Deadline
<1>4. new = [call EXCEPT !.status = "failed"] \/ new = Cancelled(call)
  BY <1>3 DEF GivenUp
<1>5. call.tries <= MaxErrors - budget.errors /\ budget.hangs < MaxHangs /\ ~Few(budget)
  BY <1>1, <1>2, Bounds DEF RetryInv, Few
<1>6. call \in CallType
  BY <1>2 DEF CallOK
<1> HIDE DEF call
<1>7. CallOK(new, Known)
  BY <1>1, <1>2, <1>4, StoppedOK, CancelledOK
<1>8. new.tries = call.tries /\ new.status # "hung"
  <2>1. CASE new = [call EXCEPT !.status = "failed"]
    BY <1>6, <2>1 DEF CallType
  <2>2. CASE \E d : Ended(new, call, d)
    BY <2>2 DEF Ended
  <2> QED BY <1>1, <1>2, <1>4, <2>1, <2>2, CancelledOK
<1>9. budget' = budget /\ budget'.errors <= budget.errors /\ budget'.hangs <= budget.hangs
  BY <1>1, <1>2, Bounds
<1> QED BY <1>1, <1>2, <1>3, <1>5, <1>7, <1>8, <1>9, RetryReplace

LEMMA RetryStart ==
    ASSUME CollectInv, RetryInv, Start
    PROVE  RetryInv'
<1> DEFINE group == Head(plan)
<1>1. /\ calls = << >> /\ plan # << >> /\ UNCHANGED <<cluster, goal, context, found, called, budget>>
      /\ calls' = [i \in DOMAIN group |-> Call(group[i][1], group[i][2])]
  BY DEF Start
<1>2. CollectInv'
  BY StartKeeps
<1>3. budget \in [errors: 0..MaxErrors, hangs: 0..MaxHangs]
  BY DEF CollectInv
<1>4. ASSUME NEW i \in DOMAIN calls'
      PROVE  /\ calls'[i].tries <= MaxErrors - budget'.errors
             /\ calls'[i].status # "hung" /\ Spared(calls'[i])
  <2> DEFINE tool == group[i][1]
             target == group[i][2]
             new == calls'[i]
  <2>1. new = Call(tool, target)
    BY <1>1
  <2>2. new.tool = tool /\ new.target = target
    BY <2>1 DEF Call
  <2> HIDE DEF group
  <2>3. tool \in Tools /\ target \in Targets /\ (tool = "collect" => ~Known)
    <3>1. CallOK(new, Known') /\ Known' = Known
      BY <1>1, <1>2 DEF CollectInv, Known
    <3>2. new \in CallType /\ (new.tool = "collect" => ~Known)
      BY <3>1 DEF CallOK, SnapshotOK
    <3> HIDE DEF tool, target, new
    <3> QED BY <2>2, <3>2 DEF CallType
  <2>4. goal \in RequestType
    BY DEF CollectInv
  <2> HIDE DEF tool, target, new
  <2>5. /\ new.tool = tool /\ new.tries = 0 /\ new.status # "hung"
        /\ new.fresh => /\ new.status = "running"
                        /\ Sections(tool) # {} => Has(new.todo, "events")
    BY <2>1, <2>3, <2>4, CallStart
  <2>6. 0 <= MaxErrors - budget'.errors
    BY <1>1, <1>3, Bounds
  <2> QED BY <2>5, <2>6 DEF Spared, new
<1> QED BY <1>4 DEF RetryInv

(* Every step. *)
LEMMA RetryStep == CollectInv /\ RetryInv /\ [Next]_vars => RetryInv'
<1> SUFFICES ASSUME CollectInv, RetryInv, [Next]_vars PROVE RetryInv'
  OBVIOUS
<1>1. ASSUME UNCHANGED <<calls, budget>> PROVE RetryInv'
  BY <1>1 DEF RetryInv, Spared
<1>2. ASSUME NEW c \in Containers, Restart(c) PROVE RetryInv'
  BY <1>1, <1>2 DEF Restart
<1>3. ASSUME NEW i \in Width, Read(i) \/ Hang(i) \/ Deadline(i) PROVE RetryInv'
  BY <1>3, RetryRead, RetryHang, RetryDeadline
<1>4. ASSUME calls' = << >> PROVE RetryInv'
  BY <1>4 DEF RetryInv
<1>5. Record \/ ProbeFallback => RetryInv'
  BY <1>1, <1>4 DEF Record, ProbeFallback
<1> QED BY <1>1, <1>2, <1>3, <1>5, RetryStart DEF Next, vars

(* A call of a snapshot tool that met fewer errors than a read has attempts, and no hang,   *)
(* does not fail, and when it is done it has the events of the pod.                         *)
THEOREM RetriesSave == Spec => []RetriesAbsorb
<1>1. Init => RetryInv
  BY DEF Init, RetryInv
<1>2. CollectInv /\ RetryInv => RetriesAbsorb
  <2> SUFFICES ASSUME CollectInv, RetryInv, MaxErrors - budget.errors < MaxAttempts, NEW i \in DOMAIN calls,
                      calls[i].fresh, budget.hangs = MaxHangs
               PROVE  /\ calls[i].status # "failed"
                      /\ (calls[i].status = "done" /\ Sections(calls[i].tool) # {}) => calls[i].draft.events # {}
    BY DEF RetriesAbsorb
  <2>1. Spared(calls[i])
    BY DEF RetryInv, Few
  <2>2. calls[i].status = "done" => ~Has(calls[i].todo, "events")
    BY DEF CollectInv, CallOK, TodoOK, Has
  <2> QED BY <2>1, <2>2 DEF Spared
<1> QED BY <1>1, <1>2, RetryStep, CollectAlways, PTL DEF Spec

-----------------------------------------------------------------------------
(* The logs of the failure. *)

(* A draft shows deaths that took place. *)
Shown(d, deaths) ==
    \A c \in Containers : d.pod[c] = 0 \/ \E n \in DOMAIN deaths[c] : deaths[c][n] = d.pod[c]
LogsOf(d, c, deaths) ==
    d.pod[c] > 0 /\ (\A k \in Containers : d.pod[k] <= d.pod[c]) =>
        /\ d.logs[c].fault = d.pod[c]
        /\ \A n \in DOMAIN deaths[c] : deaths[c][n] = d.pod[c] => n - 1 \in d.logs[c].shows \/ Len(deaths[c]) > n
LogsAre(d, deaths) == \A c \in DOMAIN d.logs : LogsOf(d, c, deaths)
Intact(b) == b.errors = MaxErrors /\ b.hangs = MaxHangs

FaultInv ==
    /\ \A i \in DOMAIN calls : calls[i].draft # Nothing => Shown(calls[i].draft, cluster.deaths)
    /\ Intact(budget) => \A i \in DOMAIN calls : LogsAre(calls[i].draft, cluster.deaths)

(* The logs of a draft are of containers, and a draft that has some has its pod. *)
LEMMA DraftIs ==
    ASSUME NEW d, DraftOK(d)
    PROVE  /\ DOMAIN d.logs \subseteq Containers /\ (DOMAIN d.logs # {} => d # Nothing)
           /\ d # Nothing => d.pod \in [Containers -> 0..MaxMoments]
<1>1. d \in ContextType /\ (d.pod = << >> => d = Nothing)
  BY DEF DraftOK
<1>2. d.pod \in PodType /\ d.logs \in LogsType
  BY <1>1, ContextIs
<1>3. PICK cs \in SUBSET Containers : d.logs \in [cs -> LogType]
  BY <1>2, LogsIs
<1>4. DOMAIN d.logs \subseteq Containers
  BY <1>3
<1>5. DOMAIN d.logs # {} => d # Nothing
  BY NothingOK
<1>6. d # Nothing => d.pod \in [Containers -> 0..MaxMoments]
  BY <1>1, <1>2 DEF PodType
<1> QED BY <1>4, <1>5, <1>6

(* A container that dies once more has died of what it died of before. *)
Goes(k, now, deaths, later) ==
    /\ deaths[k] \in Seq(Moments) /\ later[k] \in Seq(Moments) /\ now \in Nat
    /\ Len(deaths[k]) <= Len(later[k])
    /\ \A n \in DOMAIN deaths[k] : n \in DOMAIN later[k] /\ later[k][n] = deaths[k][n] /\ deaths[k][n] <= now
    /\ \A n \in DOMAIN later[k] : n \in DOMAIN deaths[k] \/ later[k][n] = now + 1
(* What a restart does to the deaths of a container. *)
LEMMA RestartGoes ==
    ASSUME ClusterOK(cluster), NEW c \in Containers, Restart(c), NEW k \in Containers
    PROVE  /\ Goes(k, cluster.now, cluster.deaths, cluster'.deaths)
           /\ cluster.events \subseteq cluster'.events
<1> DEFINE now == cluster.now
           ds == cluster.deaths
           new == [ds EXCEPT ![c] = Append(@, now + 1)]
           e == [at |-> now + 1, fault |-> TRUE]
<1>1. now \in Nat /\ now + 1 \in Moments
  BY Bounds DEF Restart, ClusterOK, Moments
<1>2. cluster' = [now |-> now + 1, deaths |-> new, events |-> cluster.events \cup {e}]
  BY DEF Restart, ClusterOK
<1>3. ds \in [Containers -> Seq(Moments)] /\ \A n \in DOMAIN ds[k] : ds[k][n] <= now
  BY DEF ClusterOK
<1> DEFINE s == ds[k]
<1>4. s \in Seq(Moments)
  BY <1>3
<1>5. new[k] = s \/ new[k] = Append(s, now + 1)
  BY <1>3
<1>6. cluster'.deaths = new /\ cluster.events \subseteq cluster'.events
  BY <1>2
<1>7. \A n \in DOMAIN s : s[n] <= now
  BY <1>3
<1> HIDE DEF new, s, now
<1>8. new[k] \in Seq(Moments)
  BY <1>1, <1>4, <1>5
<1>9. Len(s) <= Len(new[k]) /\ (\A n \in DOMAIN s : n \in DOMAIN new[k] /\ new[k][n] = s[n])
      /\ (\A n \in DOMAIN new[k] : n \in DOMAIN s \/ new[k][n] = now + 1)
  <2>1. CASE new[k] = s
    BY <1>4, <2>1
  <2>2. CASE new[k] = Append(s, now + 1)
    <3> DEFINE t == Append(s, now + 1)
    <3>1. Len(t) = Len(s) + 1 /\ DOMAIN t = 1..(Len(s) + 1) /\ DOMAIN s = 1..Len(s) /\ Len(s) \in Nat
          /\ t[Len(s) + 1] = now + 1 /\ \A n \in 1..Len(s) : t[n] = s[n]
      BY <1>1, <1>4
    <3>2. new[k] = t
      BY <2>2
    <3> HIDE DEF t
    <3>3. \A n \in DOMAIN t : n = Len(s) + 1 \/ n \in 1..Len(s)
      BY <3>1
    <3> QED BY <3>1, <3>2, <3>3
  <2> QED BY <1>5, <2>1, <2>2
<1> QED BY <1>1, <1>4, <1>6, <1>7, <1>8, <1>9 DEF s, Goes, now

(* A death that is shown, and a log that is there, are not undone by later deaths. *)
LEMMA LaterShown ==
    ASSUME NEW d, DraftOK(d), d # Nothing, NEW now, NEW deaths, NEW later,
           \A k \in Containers : Goes(k, now, deaths, later), Shown(d, deaths)
    PROVE  Shown(d, later) /\ (LogsAre(d, deaths) => LogsAre(d, later))
<1>1. Shown(d, later)
  BY DEF Shown, Goes
<1>2. ASSUME NEW c \in DOMAIN d.logs, LogsOf(d, c, deaths), d.pod[c] > 0, \A k \in Containers : d.pod[k] <= d.pod[c]
      PROVE  /\ d.logs[c].fault = d.pod[c]
             /\ \A n \in DOMAIN later[c] : later[c][n] = d.pod[c] => n - 1 \in d.logs[c].shows \/ Len(later[c]) > n
  <2>1. c \in Containers /\ d.pod[c] \in 0..MaxMoments
    BY DraftIs
  <2>2. /\ d.logs[c].fault = d.pod[c]
        /\ \A n \in DOMAIN deaths[c] : deaths[c][n] = d.pod[c] => n - 1 \in d.logs[c].shows \/ Len(deaths[c]) > n
    BY <1>2 DEF LogsOf
  <2>3. PICK m \in DOMAIN deaths[c] : deaths[c][m] = d.pod[c]
    BY <1>2, <2>1, Bounds DEF Shown
  <2>4. d.pod[c] <= now /\ now \in Nat
    BY <2>1, <2>3 DEF Goes
  <2>5. ASSUME NEW n \in DOMAIN later[c], later[c][n] = d.pod[c]
        PROVE  n - 1 \in d.logs[c].shows \/ Len(later[c]) > n
    <3>1. Goes(c, now, deaths, later)
      BY <2>1
    <3>2. n \in DOMAIN deaths[c]
      BY <2>1, <2>4, <2>5, <3>1, Bounds DEF Goes
    <3>3. deaths[c][n] = d.pod[c] /\ Len(deaths[c]) <= Len(later[c])
      BY <2>5, <3>1, <3>2 DEF Goes
    <3>4. Len(deaths[c]) \in Nat /\ Len(later[c]) \in Nat /\ n \in Nat
      BY <3>1, <3>2 DEF Goes
    <3> QED BY <2>2, <3>2, <3>3, <3>4
  <2> QED BY <2>2, <2>5
<1>3. LogsAre(d, deaths) => LogsAre(d, later)
  BY <1>2 DEF LogsAre, LogsOf
<1> QED BY <1>1, <1>3

(* Nor by what a tool drops. *)
LEMMA KeptShown ==
    ASSUME NEW tool, NEW d, DraftOK(d), NEW deaths
    PROVE  /\ Shown(d, deaths) => Shown(Kept(tool, d), deaths)
           /\ LogsAre(d, deaths) => LogsAre(Kept(tool, d), deaths)
<1> DEFINE e == Kept(tool, d)
<1>1. e.pod = d.pod /\ (\A f \in Section(tool) \cap DOMAIN Nothing : e[f] = d[f])
      /\ (\A f \in DOMAIN Nothing \ Section(tool) : e[f] = Nothing[f])
  BY KeptOK
<1>2. e.logs = d.logs \/ e.logs = Nothing.logs
  BY <1>1 DEF Nothing
<1> HIDE DEF e
<1>3. Shown(d, deaths) => Shown(e, deaths)
  BY <1>1 DEF Shown
<1>4. CASE e.logs = d.logs
  BY <1>1, <1>3, <1>4 DEF LogsAre, LogsOf, e
<1>5. CASE e.logs = Nothing.logs
  <2>1. DOMAIN e.logs = {}
    BY <1>5, NothingOK
  <2>2. LogsAre(e, deaths)
    BY <2>1 DEF LogsAre
  <2> QED BY <1>3, <2>2 DEF e
<1> QED BY <1>2, <1>4, <1>5

(* The log of a container that died last, read while it runs on. *)
LEMMA LinesShow ==
    ASSUME ClusterOK(cluster), NEW c \in Containers, NEW n \in DOMAIN cluster.deaths[c],
           NEW f, f = cluster.deaths[c][n]
    PROVE  n - 1 \in Lines(c, f) \/ Len(cluster.deaths[c]) > n
<1> DEFINE ends == cluster.deaths[c]
<1>1. /\ ends \in Seq(Moments) /\ \A p, q \in DOMAIN ends : p < q => ends[p] < ends[q]
  BY DEF ClusterOK
<1>2. Moments \subseteq Nat /\ 0 \notin Moments
  BY Bounds DEF Moments
<1>9. f = ends[n] /\ n \in DOMAIN ends
  OBVIOUS
<1> HIDE DEF ends
<1>4. n \in 1..Len(ends) /\ Len(ends) \in Nat /\ DOMAIN ends = 1..Len(ends)
  BY <1>1, <1>9
<1>10. \A k \in DOMAIN ends : ends[k] \in Moments
  BY <1>1
<1>3. f \in Nat /\ f # 0
  BY <1>2, <1>9, <1>10
<1> SUFFICES ASSUME n = Len(ends) PROVE n - 1 \in Lines(c, f)
  BY <1>4 DEF ends
<1>5. n - 1 \in {Len(ends), Len(ends) - 1} \cap Nat
  BY <1>4
<1>6. n - 1 = 0 \/ ends[n - 1] <= f
  <2>1. CASE n - 1 # 0
    <3>3. n - 1 \in DOMAIN ends /\ n - 1 < n
      BY <1>4, <2>1
    <3>1. n - 1 \in DOMAIN ends /\ n - 1 < n /\ ends[n - 1] \in Nat /\ ends[n] = f
      BY <1>2, <1>9, <1>10, <3>3
    <3>2. ends[n - 1] < ends[n]
      BY <1>1, <1>4, <3>1
    <3> QED BY <1>3, <3>1, <3>2
  <2> QED BY <2>1
<1>7. f <= ends[(n - 1) + 1]
  BY <1>3, <1>4 DEF ends
<1>8. n - 1 \in {k \in {Len(ends), Len(ends) - 1} \cap Nat :
                    (k = 0 \/ ends[k] <= f) /\ (k = Len(ends) \/ f <= ends[k + 1])}
  BY <1>5, <1>6, <1>7
<1> QED BY <1>3, <1>8 DEF Lines, ends

(* A read that succeeds: the pod shows deaths, and a log is that of the failure. *)
LEMMA ReadShown ==
    ASSUME ClusterOK(cluster), goal \in RequestType, NEW d, DraftOK(d), NEW read \in ReadType,
           read[1] \in Surround => d.pod # << >>, read[1] \in {"pod", "live"} => d = Nothing,
           d # Nothing => Shown(d, cluster.deaths), NEW e \in Learnt(d, read)
    PROVE  /\ e # Nothing => Shown(e, cluster.deaths)
           /\ LogsAre(d, cluster.deaths) => LogsAre(e, cluster.deaths)
<1> DEFINE deaths == cluster.deaths
<1>1. Learned(e, d, read) /\ DraftOK(e)
  BY LearntOK
<1>2. e # Nothing => Shown(e, deaths)
  <2>1. CASE read[1] \in {"pod", "live"}
    <3>1. e.pod = [c \in Containers |-> LastDeath(c)]
      BY <1>1, <2>1 DEF Learned
    <3>2. \A c \in Containers : LastDeath(c) = 0 \/ \E n \in DOMAIN deaths[c] : deaths[c][n] = LastDeath(c)
      BY LastDeathType
    <3> QED BY <3>1, <3>2 DEF Shown
  <2>2. CASE read[1] \notin {"pod", "live"} /\ d # Nothing
    <3>1. e.pod = d.pod
      BY <1>1, <2>2 DEF Learned
    <3> QED BY <2>2, <3>1 DEF Shown
  <2>3. CASE read[1] \notin {"pod", "live"} /\ d = Nothing
    <3>1. read[1] \notin Surround
      BY <2>3, NothingOK
    <3>2. e = d
      BY <1>1, <2>3, <3>1, ReadIs DEF Learned
    <3> QED BY <2>3, <3>2
  <2> QED BY <2>1, <2>2, <2>3
<1>3. CASE read[1] \in {"pod", "live"}
  <2>1. e.logs = Nothing.logs
    BY <1>1, <1>3 DEF Learned
  <2>2. DOMAIN e.logs = {}
    BY <2>1, NothingOK
  <2> QED BY <1>2, <2>2 DEF LogsAre
<1>4. CASE read[1] \notin {"pod", "live", "log", "loki"}
  <2>1. e.logs = d.logs /\ e.pod = d.pod
    BY <1>1, <1>4 DEF Learned
  <2> QED BY <1>2, <2>1 DEF LogsAre, LogsOf
<1>5. CASE read[1] = "loki"
  <2>1. e = CollectLokiLogs(d) /\ e.pod = d.pod /\ d.pod # << >>
    BY <1>1, <1>5 DEF Learned, Surround
  <2>2. d \in ContextType
    BY DEF DraftOK
  <2>3. d.logs \in LogsType
    BY <2>2, ContextIs
  <2>4. PICK cs \in SUBSET Containers : d.logs \in [cs -> LogType]
    BY <2>3, LogsIs
  <2>5. e.logs = [c \in DOMAIN d.logs |-> [d.logs[c] EXCEPT !.loki = TRUE]]
    BY <2>1, <2>2, ContextIs DEF CollectLokiLogs
  <2>6. \A c \in DOMAIN d.logs : d.logs[c] \in LogType
    BY <2>4
  <2>7. \A c \in DOMAIN d.logs : e.logs[c].shows = d.logs[c].shows /\ e.logs[c].fault = d.logs[c].fault
    BY <2>5, <2>6 DEF LogType
  <2>8. DOMAIN e.logs = DOMAIN d.logs
    BY <2>5
  <2> QED BY <1>2, <2>1, <2>7, <2>8 DEF LogsAre, LogsOf
<1>6. CASE read[1] = "log"
  <2> DEFINE k == read[2]
             f == FaultTime(d)
             l == [shows |-> Lines(k, f), fault |-> f, loki |-> FALSE]
  <2>1. k \in Containers /\ d.pod # << >> /\ d \in ContextType /\ d.logs \in LogsType
    BY <1>6, ReadIs, ContextIs DEF DraftOK, Surround
  <2>2. e = CollectPodLogs(d, k, Lines(k, f)) /\ e.pod = d.pod
    BY <1>1, <1>6 DEF Learned
  <2>3. f \in 0..MaxMoments /\ Lines(k, f) \in SUBSET (0..MaxMoments)
    BY <2>1, FaultTimeType, LinesType
  <2>4. e.logs = With(d.logs, k, l)
    BY <2>1, <2>2, ContextIs DEF CollectPodLogs
  <2>5. l \in LogType
    BY <2>3 DEF LogType
  <2>6. /\ DOMAIN e.logs = DOMAIN d.logs \cup {k}
        /\ \A y \in DOMAIN d.logs \cup {k} : e.logs[y] = IF y = k THEN l ELSE d.logs[y]
    <3> DEFINE w == With(d.logs, k, l)
    <3> HIDE DEF l, k
    <3>1. /\ DOMAIN w = DOMAIN d.logs \cup {k}
          /\ \A y \in DOMAIN d.logs \cup {k} : w[y] = IF y = k THEN l ELSE d.logs[y]
      BY <2>1, <2>5, WithType
    <3>2. e.logs = w
      BY <2>4
    <3> HIDE DEF w
    <3> QED BY <3>1, <3>2
  <2>7. LogsOf(e, k, deaths)
    <3> SUFFICES ASSUME d.pod[k] > 0, \A j \in Containers : d.pod[j] <= d.pod[k]
                 PROVE  /\ e.logs[k].fault = d.pod[k]
                        /\ \A n \in DOMAIN deaths[k] :
                              deaths[k][n] = d.pod[k] => n - 1 \in e.logs[k].shows \/ Len(deaths[k]) > n
      BY <2>2 DEF LogsOf
    <3>1. f = d.pod[k]
      BY <2>1, FaultTimeType
    <3>2. e.logs[k] = l
      BY <2>6
    <3>3. e.logs[k].fault = f /\ e.logs[k].shows = Lines(k, f)
      BY <3>2
    <3> HIDE DEF f, k, l
    <3> QED BY <2>1, <3>1, <3>3, LinesShow
  <2>8. ASSUME NEW c \in DOMAIN d.logs, c # k, LogsOf(d, c, deaths) PROVE LogsOf(e, c, deaths)
    <3>1. e.logs[c] = d.logs[c]
      BY <2>6, <2>8
    <3> QED BY <2>2, <2>8, <3>1 DEF LogsOf
  <2>9. LogsAre(d, deaths) => LogsAre(e, deaths)
    <3> HIDE DEF k, l, f
    <3> QED BY <2>6, <2>7, <2>8 DEF LogsAre
  <2> QED BY <1>2, <2>9
<1> QED BY <1>3, <1>4, <1>5, <1>6

(* Of a step that replaces one call. *)
LEMMA FaultReplace ==
    ASSUME CollectInv, FaultInv, NEW i \in DOMAIN calls, NEW new, CallOK(new, Known),
           calls' = [calls EXCEPT ![i] = new], UNCHANGED <<context, cluster>>,
           new.draft # Nothing => Shown(new.draft, cluster.deaths),
           Intact(budget') => Intact(budget) /\ LogsAre(new.draft, cluster.deaths)
    PROVE  FaultInv'
<1>1. calls \in Seq(CallType) /\ \A j \in DOMAIN calls : CallOK(calls[j], Known)
  BY DEF CollectInv
<1>2. DOMAIN calls' = DOMAIN calls /\ \A j \in DOMAIN calls' : calls'[j] = IF j = i THEN new ELSE calls[j]
  BY <1>1, ReplacedOK
<1>3. cluster'.deaths = cluster.deaths
  OBVIOUS
<1> QED BY <1>2, <1>3 DEF FaultInv

(* The steps, one by one: a read that fails ends the claim about the logs. *)
LEMMA FaultRead ==
    ASSUME CollectInv, FaultInv, NEW i, Read(i)
    PROVE  FaultInv'
<1> DEFINE call == calls[i]
           read == NextRead(call)
           deaths == cluster.deaths
<1>1. /\ i \in DOMAIN calls /\ call.status = "running"
      /\ UNCHANGED <<cluster, goal, context, found, called, plan>>
  BY DEF Read
<1>2. /\ CallOK(call, Known) /\ goal \in RequestType /\ ClusterOK(cluster) /\ calls \in Seq(CallType)
      /\ budget \in [errors: 0..MaxErrors, hangs: 0..MaxHangs]
  BY <1>1 DEF CollectInv
<1>3. /\ call.todo # << >> /\ DraftOK(call.draft)
      /\ call.draft # Nothing => Shown(call.draft, deaths)
      /\ Intact(budget) => LogsAre(call.draft, deaths)
  BY <1>1, <1>2 DEF CallOK, TodoOK, FaultInv
<1>4. /\ read \in ReadType
      /\ read[1] \in Surround => call.draft.pod # << >>
      /\ read[1] \in {"pod", "live"} => call.draft = Nothing
  BY <1>2, <1>3, NextOK
<1>5. CASE /\ \E d \in Learnt(call.draft, read), says \in Told(call) :
                calls' = [calls EXCEPT ![i] = Advance(@, d, says)]
           /\ UNCHANGED budget
  <2>1. PICK d \in Learnt(call.draft, read), says \in Told(call) :
               calls' = [calls EXCEPT ![i] = Advance(call, d, says)]
    BY <1>1, <1>2, <1>5
  <2> DEFINE new == Advance(call, d, says)
  <2> HIDE DEF call, new
  <2>2. CallOK(new, Known) /\ Advanced(new, call, d, says) /\ DraftOK(d)
    BY <1>1, <1>2, ReadOK DEF new
  <2>3. new.draft = Kept(call.tool, d)
    BY <2>2 DEF Advanced
  <2>4. /\ d # Nothing => Shown(d, deaths)
        /\ LogsAre(call.draft, deaths) => LogsAre(d, deaths)
    <3> HIDE DEF read
    <3> QED BY <1>2, <1>3, <1>4, <2>1, ReadShown
  <2>5. /\ d = Nothing => new.draft = Nothing
        /\ Shown(d, deaths) => Shown(new.draft, deaths)
        /\ LogsAre(d, deaths) => LogsAre(new.draft, deaths)
    BY <2>2, <2>3, KeptOK, KeptShown
  <2>6. new.draft # Nothing => Shown(new.draft, deaths)
    BY <2>4, <2>5
  <2>7. Intact(budget') => Intact(budget) /\ LogsAre(new.draft, deaths)
    BY <1>3, <1>5, <2>4, <2>5 DEF Intact
  <2>8. calls' = [calls EXCEPT ![i] = new]
    BY <2>1 DEF new
  <2> QED BY <1>1, <2>2, <2>6, <2>7, <2>8, FaultReplace
<1>6. CASE /\ budget.errors > 0
           /\ calls' = [calls EXCEPT ![i] = Failed(@)]
           /\ budget' = [budget EXCEPT !.errors = @ - 1]
  <2> DEFINE new == Failed(call)
  <2>1. calls' = [calls EXCEPT ![i] = new]
    BY <1>1, <1>2, <1>6
  <2> HIDE DEF call, new
  <2>2. CallOK(new, Known)
    BY <1>1, <1>2, FailedOK DEF new
  <2>3. new.draft # Nothing => Shown(new.draft, deaths)
    <3>1. CASE SameDraft(new, call)
      BY <1>3, <3>1 DEF SameDraft
    <3>2. CASE \E d : PassedOver(new, call, d)
      <4>1. PICK d : PassedOver(new, call, d)
        BY <3>2
      <4>2. DraftOK(d) /\ d.pod = call.draft.pod /\ new.draft = Kept(call.tool, d)
        BY <4>1 DEF PassedOver, Advanced
      <4>3. call.draft # Nothing => Shown(d, deaths)
        BY <1>3, <4>2 DEF Shown
      <4>4. call.draft = Nothing => d = Nothing
        BY <4>2, NothingOK DEF DraftOK
      <4>5. /\ d = Nothing => new.draft = Nothing
            /\ Shown(d, deaths) => Shown(new.draft, deaths)
        BY <4>2, KeptOK, KeptShown
      <4> QED BY <4>3, <4>4, <4>5
    <3> QED BY <1>1, <1>2, <3>1, <3>2, FailedIs DEF new
  <2>4. ~Intact(budget')
    BY <1>2, <1>6, Bounds DEF Intact
  <2> QED BY <1>1, <2>1, <2>2, <2>3, <2>4, FaultReplace
<1> QED BY <1>5, <1>6 DEF Read

LEMMA FaultHang ==
    ASSUME CollectInv, FaultInv, NEW i, Hang(i)
    PROVE  FaultInv'
<1> DEFINE call == calls[i]
           new == [call EXCEPT !.status = "hung"]
<1>1. /\ i \in DOMAIN calls /\ call.status = "running" /\ budget.hangs > 0
      /\ UNCHANGED <<cluster, goal, context, found, called, plan>>
      /\ budget' = [budget EXCEPT !.hangs = @ - 1]
  BY DEF Hang
<1>2. CallOK(call, Known) /\ calls \in Seq(CallType) /\ budget \in [errors: 0..MaxErrors, hangs: 0..MaxHangs]
  BY <1>1 DEF CollectInv
<1>3. calls' = [calls EXCEPT ![i] = new]
  BY <1>1, <1>2 DEF Hang
<1>4. call.todo # << >> /\ (call.draft # Nothing => Shown(call.draft, cluster.deaths))
  BY <1>1, <1>2 DEF CallOK, TodoOK, FaultInv
<1>5. CallOK(new, Known) /\ new.draft = call.draft
  <2> HIDE DEF call
  <2> QED BY <1>2, <1>4, StoppedOK
<1>6. ~Intact(budget')
  BY <1>1, <1>2, Bounds DEF Intact
<1> HIDE DEF new, call
<1> QED BY <1>1, <1>3, <1>4, <1>5, <1>6, FaultReplace

LEMMA FaultDeadline ==
    ASSUME CollectInv, RetryInv, FaultInv, NEW i, Deadline(i)
    PROVE  FaultInv'
<1> DEFINE call == calls[i]
           deaths == cluster.deaths
<1>1. /\ i \in DOMAIN calls /\ call.status = "hung"
      /\ UNCHANGED <<cluster, goal, context, found, called, plan, budget>>
  BY DEF Deadline
<1>2. CallOK(call, Known) /\ goal \in RequestType /\ budget \in [errors: 0..MaxErrors, hangs: 0..MaxHangs]
  BY <1>1 DEF CollectInv
<1>3. PICK new \in GivenUp(call) : calls' = [calls EXCEPT ![i] = new]
  BY DEF Deadline
<1>4. new = [call EXCEPT !.status = "failed"] \/ new = Cancelled(call)
  BY <1>3 DEF GivenUp
<1>5. /\ DraftOK(call.draft) /\ call \in CallType
      /\ call.draft # Nothing => Shown(call.draft, deaths)
  BY <1>1, <1>2 DEF CallOK, FaultInv
<1>6. ~Intact(budget) /\ budget' = budget
  <2>1. budget.hangs < MaxHangs
    BY <1>1 DEF RetryInv
  <2> QED BY <1>1, <1>2, <2>1, Bounds DEF Intact
<1> HIDE DEF call
<1>7. CallOK(new, Known)
  BY <1>1, <1>2, <1>4, StoppedOK, CancelledOK
<1>8. new.draft # Nothing => Shown(new.draft, deaths)
  <2>1. CASE new = [call EXCEPT !.status = "failed"]
    BY <1>5, <2>1 DEF CallType
  <2>2. CASE \E d : Ended(new, call, d)
    <3>1. PICK d : Ended(new, call, d)
      BY <2>2
    <3>2. DraftOK(d) /\ d.pod = call.draft.pod /\ new.draft = Kept(call.tool, d)
      BY <3>1 DEF Ended
    <3>3. call.draft # Nothing => Shown(d, deaths)
      BY <1>5, <3>2 DEF Shown
    <3>4. call.draft = Nothing => d = Nothing
      BY <3>2, NothingOK DEF DraftOK
    <3>5. /\ d = Nothing => new.draft = Nothing
          /\ Shown(d, deaths) => Shown(new.draft, deaths)
      BY <3>2, KeptOK, KeptShown
    <3> QED BY <3>3, <3>4, <3>5
  <2> QED BY <1>1, <1>2, <1>4, <2>1, <2>2, CancelledOK
<1> QED BY <1>1, <1>3, <1>6, <1>7, <1>8, FaultReplace

LEMMA FaultRestart ==
    ASSUME CollectInv, FaultInv, NEW c \in Containers, Restart(c)
    PROVE  FaultInv'
<1>1. UNCHANGED <<calls, budget>> /\ ClusterOK(cluster)
  BY DEF Restart, CollectInv
<1> DEFINE deaths == cluster.deaths
           later == cluster'.deaths
<1>2. \A k \in Containers : Goes(k, cluster.now, deaths, later)
  BY <1>1, RestartGoes
<1>3. ASSUME NEW i \in DOMAIN calls
      PROVE  /\ calls[i].draft # Nothing => Shown(calls[i].draft, later)
             /\ Intact(budget) => LogsAre(calls[i].draft, later)
  <2> DEFINE d == calls[i].draft
  <2>1. DraftOK(d)
    BY DEF CollectInv, CallOK
  <2>2. (d # Nothing => Shown(d, deaths)) /\ (Intact(budget) => LogsAre(d, deaths))
    BY DEF FaultInv
  <2> HIDE DEF d, deaths, later
  <2>3. CASE d # Nothing
    <3>1. Shown(d, later) /\ (LogsAre(d, deaths) => LogsAre(d, later))
      BY <1>2, <2>1, <2>2, <2>3, LaterShown
    <3> QED BY <2>2, <3>1 DEF d
  <2>4. CASE d = Nothing
    <3>1. LogsAre(d, later)
      BY <2>4, NothingOK DEF LogsAre
    <3> QED BY <2>4, <3>1 DEF d
  <2> QED BY <2>3, <2>4
<1> QED BY <1>1, <1>3 DEF FaultInv

LEMMA FaultStart ==
    ASSUME CollectInv, FaultInv, Start
    PROVE  FaultInv'
<1> DEFINE group == Head(plan)
<1>1. calls' = [i \in DOMAIN group |-> Call(group[i][1], group[i][2])]
  BY DEF Start
<1>2. \A i \in DOMAIN calls' : calls'[i].draft = Nothing
  BY <1>1 DEF Call
<1>3. LogsAre(Nothing, cluster'.deaths)
  BY NothingOK DEF LogsAre
<1> QED BY <1>2, <1>3 DEF FaultInv

(* Every step. *)
LEMMA FaultStep == CollectInv /\ RetryInv /\ FaultInv /\ [Next]_vars => FaultInv'
<1> SUFFICES ASSUME CollectInv, RetryInv, FaultInv, [Next]_vars PROVE FaultInv'
  OBVIOUS
<1>1. ASSUME UNCHANGED <<calls, budget, cluster>> PROVE FaultInv'
  BY <1>1 DEF FaultInv
<1>2. ASSUME NEW c \in Containers, Restart(c) PROVE FaultInv'
  BY <1>2, FaultRestart
<1>3. ASSUME NEW i \in Width, Read(i) \/ Hang(i) \/ Deadline(i) PROVE FaultInv'
  BY <1>3, FaultRead, FaultHang, FaultDeadline
<1>4. ASSUME calls' = << >> PROVE FaultInv'
  BY <1>4 DEF FaultInv
<1>5. Record \/ ProbeFallback => FaultInv'
  BY <1>1, <1>4 DEF Record, ProbeFallback
<1> QED BY <1>1, <1>2, <1>3, <1>5, FaultStart DEF Next, vars

(* While nothing failed and nothing hung, the log of the container that the pod showed to   *)
(* have died last is of the window of that death, and has the lines of the instance that    *)
(* died, unless it died once more.                                                          *)
THEOREM LogsAreOfFault == Spec => []LogsShowFault
<1>1. Init => RetryInv /\ FaultInv
  BY DEF Init, RetryInv, FaultInv
<1>2. CollectInv /\ FaultInv => LogsShowFault
  <2> SUFFICES ASSUME CollectInv, FaultInv, budget.errors = MaxErrors, budget.hangs = MaxHangs,
                      NEW i \in DOMAIN calls, NEW c \in DOMAIN calls[i].draft.logs,
                      calls[i].draft.pod[c] > 0, \A k \in Containers : calls[i].draft.pod[k] <= calls[i].draft.pod[c]
               PROVE  LET d == calls[i].draft
                          died == CHOOSE n \in DOMAIN cluster.deaths[c] : cluster.deaths[c][n] = d.pod[c]
                      IN  /\ d.logs[c].fault = d.pod[c]
                          /\ died - 1 \in d.logs[c].shows \/ Len(cluster.deaths[c]) > died
    BY DEF LogsShowFault
  <2> DEFINE d == calls[i].draft
             ends == cluster.deaths[c]
             died == CHOOSE n \in DOMAIN ends : ends[n] = d.pod[c]
  <2>1. DraftOK(d)
    BY DEF CollectInv, CallOK
  <2>2. c \in Containers /\ d # Nothing /\ d.pod[c] \in 0..MaxMoments
    <3> HIDE DEF d
    <3>1. c \in DOMAIN d.logs
      BY DEF d
    <3> QED BY <2>1, <3>1, DraftIs
  <2>3. \E n \in DOMAIN ends : ends[n] = d.pod[c]
    <3>1. Shown(d, cluster.deaths)
      BY <2>2 DEF FaultInv
    <3>2. d.pod[c] # 0
      BY <2>2, Bounds
    <3> QED BY <2>2, <3>1, <3>2 DEF Shown
  <2>4. died \in DOMAIN ends /\ ends[died] = d.pod[c]
    BY <2>3
  <2>5. LogsOf(d, c, cluster.deaths)
    BY DEF FaultInv, Intact, LogsAre
  <2> HIDE DEF died
  <2>6. /\ d.logs[c].fault = d.pod[c]
        /\ died - 1 \in d.logs[c].shows \/ Len(ends) > died
    BY <2>4, <2>5 DEF LogsOf
  <2> QED BY <2>6 DEF died
<1> QED BY <1>1, <1>2, RetryStep, FaultStep, CollectAlways, PTL DEF Spec

-----------------------------------------------------------------------------
(* The evidence that is kept. *)

(* What a context holds was there when it was read: it is not ahead of the cluster. *)
NowOf(d, cl) ==
    /\ \A c \in Containers : d.pod[c] = 0 \/ \E n \in DOMAIN cl.deaths[c] : d.pod[c] <= cl.deaths[c][n]
    /\ d.events \subseteq cl.events
(* A context that is not older than another. *)
Earlier(ctx, d) ==
    /\ \A c \in Containers : ctx.pod[c] <= d.pod[c]
    /\ d.events # {} => ctx.events \subseteq d.events
Fits(d, ctx, cl) == d # Nothing => NowOf(d, cl) /\ (ctx # Nothing => Earlier(ctx, d))
(* What a call that refreshes its section will have of it. *)
Brings(call, ctx) ==
    call.fresh /\ call.status # "failed" =>
        /\ call.tool = "k8s.get_logs" => Has(call.todo, "log") \/ call.draft.logs # << >>
        /\ call.tool = "k8s.get_pvc" => Has(call.todo, "claims") \/ call.draft.claim # "none"
        /\ call.tool = "k8s.get_logs" /\ call.target = All /\ ctx # Nothing => ctx.logs = << >>

KeepInv ==
    /\ context # Nothing => NowOf(context, cluster)
    /\ \A i \in DOMAIN calls : Fits(calls[i].draft, context, cluster) /\ Brings(calls[i], context)

(* The context is known when it is not the empty one. *)
LEMMA KnownIs == ASSUME DraftOK(context) PROVE Known <=> context # Nothing
BY NothingOK DEF Known, DraftOK

(* What was there when it was read is there later. *)
LEMMA LaterNow ==
    ASSUME NEW d, NEW cl, NEW later, NowOf(d, cl), \A c \in Containers : d.pod[c] \in Nat,
           \A k \in Containers : Goes(k, cl.now, cl.deaths, later.deaths), cl.events \subseteq later.events
    PROVE  NowOf(d, later)
<1>1. ASSUME NEW c \in Containers, d.pod[c] # 0
      PROVE  \E n \in DOMAIN later.deaths[c] : d.pod[c] <= later.deaths[c][n]
  <2>1. PICK n \in DOMAIN cl.deaths[c] : d.pod[c] <= cl.deaths[c][n]
    BY <1>1 DEF NowOf
  <2>2. n \in DOMAIN later.deaths[c] /\ later.deaths[c][n] = cl.deaths[c][n]
    BY DEF Goes
  <2> QED BY <2>1, <2>2
<1> QED BY <1>1 DEF NowOf

(* A tool that drops a part of its draft does not make it older. *)
LEMMA KeptFits ==
    ASSUME NEW tool, NEW d, DraftOK(d), NEW ctx, NEW cl, Fits(d, ctx, cl)
    PROVE  Fits(Kept(tool, d), ctx, cl)
<1> DEFINE e == Kept(tool, d)
<1>1. /\ e.pod = d.pod /\ (\A f \in Section(tool) \cap DOMAIN Nothing : e[f] = d[f])
      /\ (\A f \in DOMAIN Nothing \ Section(tool) : e[f] = Nothing[f])
      /\ (d = Nothing => e = Nothing)
  BY KeptOK
<1>2. e.events = d.events \/ e.events = {}
  BY <1>1 DEF Nothing
<1> HIDE DEF e
<1>3. CASE d # Nothing
  BY <1>1, <1>2, <1>3 DEF Fits, NowOf, Earlier, e
<1>4. CASE d = Nothing
  BY <1>1, <1>4 DEF Fits, e
<1> QED BY <1>3, <1>4

(* Logs of no container are no logs. *)
LEMMA EmptyLogs ==
    ASSUME NEW f \in LogsType
    PROVE  DOMAIN f = {} <=> f = << >>
<1>1. PICK cs \in SUBSET Containers : f \in [cs -> LogType]
  BY LogsIs
<1>2. ASSUME DOMAIN f = {} PROVE f = << >>
  <2>1. f \in [{} -> LogType]
    BY <1>1, <1>2
  <2>2. << >> \in [{} -> LogType]
    OBVIOUS
  <2> QED BY <2>1, <2>2
<1> QED BY <1>2

(* A log that was read is there, and so is a claim. *)
LEMMA LearntMore ==
    ASSUME ClusterOK(cluster), goal \in RequestType, NEW d, DraftOK(d), NEW read \in ReadType,
           read[1] \in Surround => d.pod # << >>, NEW e \in Learnt(d, read)
    PROVE  /\ read[1] = "log" \/ d.logs # << >> => e.logs # << >>
           /\ read[1] = "claims" \/ d.claim # "none" => e.claim # "none"
<1>1. Learned(e, d, read)
  BY LearntOK
<1>2. d \in ContextType
  BY DEF DraftOK
<1>3. d.logs \in LogsType
  BY <1>2, ContextIs
<1>4. read[1] = "claims" \/ d.claim # "none" => e.claim # "none"
  BY <1>1 DEF Learned, Phases
<1>5. CASE read[1] = "log"
  <2> DEFINE k == read[2]
             v == [shows |-> Lines(k, FaultTime(d)), fault |-> FaultTime(d), loki |-> FALSE]
             w == With(d.logs, k, v)
  <2>1. e = CollectPodLogs(d, k, Lines(k, FaultTime(d)))
    BY <1>1, <1>5 DEF Learned
  <2>2. e.logs = w
    BY <1>2, <2>1, ContextIs DEF CollectPodLogs
  <2>3. k \in DOMAIN w
    BY DEF With
  <2> HIDE DEF w
  <2> QED BY <1>4, <2>2, <2>3
<1>6. CASE read[1] = "loki"
  <2>1. e = CollectLokiLogs(d)
    BY <1>1, <1>6 DEF Learned
  <2>2. e.logs = [c \in DOMAIN d.logs |-> [d.logs[c] EXCEPT !.loki = TRUE]]
    BY <1>2, <2>1, ContextIs DEF CollectLokiLogs
  <2>3. DOMAIN e.logs = DOMAIN d.logs
    BY <2>2
  <2>4. DOMAIN d.logs = {} => d.logs = << >>
    BY <1>3, EmptyLogs
  <2> QED BY <1>4, <1>6, <2>3, <2>4
<1>7. CASE read[1] \notin {"log", "loki"}
  <2>1. e.logs = d.logs
    BY <1>1, <1>7 DEF Learned
  <2> QED BY <1>4, <1>7, <2>1
<1> QED BY <1>5, <1>6, <1>7

(* A read that succeeds is of now, hence not older than the context. *)
LEMMA ReadFits ==
    ASSUME ClusterOK(cluster), goal \in RequestType, NEW d, DraftOK(d), NEW read \in ReadType,
           read[1] \in Surround => d.pod # << >>, read[1] \in {"pod", "live"} => d = Nothing,
           DraftOK(context), context # Nothing => NowOf(context, cluster),
           Fits(d, context, cluster), NEW e \in Learnt(d, read)
    PROVE  Fits(e, context, cluster)
<1>1. Learned(e, d, read) /\ DraftOK(e)
  BY LearntOK
<1>2. CASE read[1] \in {"pod", "live"}
  <2>1. e.pod = [c \in Containers |-> LastDeath(c)] /\ e.events = {}
    BY <1>1, <1>2 DEF Learned, Nothing
  <2>2. NowOf(e, cluster)
    <3>1. ASSUME NEW c \in Containers
          PROVE  LastDeath(c) = 0 \/ \E n \in DOMAIN cluster.deaths[c] : LastDeath(c) <= cluster.deaths[c][n]
      <4>1. /\ LastDeath(c) \in 0..MaxMoments
            /\ LastDeath(c) # 0 => /\ Len(cluster.deaths[c]) \in DOMAIN cluster.deaths[c]
                                   /\ LastDeath(c) = cluster.deaths[c][Len(cluster.deaths[c])]
        BY LastDeathType
      <4>2. LastDeath(c) <= LastDeath(c)
        BY <4>1, Bounds
      <4> QED BY <4>1, <4>2
    <3> QED BY <2>1, <3>1 DEF NowOf
  <2>3. context # Nothing => Earlier(context, e)
    <3> SUFFICES ASSUME context # Nothing, NEW c \in Containers PROVE context.pod[c] <= e.pod[c]
      BY <2>1 DEF Earlier
    <3>1. context.pod[c] \in 0..MaxMoments
      BY DraftIs
    <3>2. LastDeath(c) \in 0..MaxMoments /\ \A n \in DOMAIN cluster.deaths[c] : cluster.deaths[c][n] <= LastDeath(c)
      BY LastDeathType
    <3>3. CASE context.pod[c] = 0
      BY <2>1, <3>2, <3>3, Bounds
    <3>4. CASE context.pod[c] # 0
      <4>1. PICK n \in DOMAIN cluster.deaths[c] : context.pod[c] <= cluster.deaths[c][n]
        BY <3>4 DEF NowOf
      <4>2. cluster.deaths[c][n] \in Nat
        <5>1. cluster.deaths[c] \in Seq(Moments)
          BY DEF ClusterOK
        <5>2. cluster.deaths[c][n] \in Moments
          BY <5>1
        <5> QED BY <5>2, Bounds DEF Moments
      <4>3. cluster.deaths[c][n] <= LastDeath(c)
        BY <3>2
      <4>4. context.pod[c] <= LastDeath(c)
        BY <3>1, <3>2, <4>1, <4>2, <4>3, Bounds
      <4> QED BY <2>1, <4>4
    <3> QED BY <3>3, <3>4
  <2> QED BY <2>2, <2>3 DEF Fits
<1>3. CASE read[1] \notin {"pod", "live"} /\ d = Nothing
  <2>1. read[1] \notin Surround
    BY <1>3, NothingOK
  <2>2. e = d
    BY <1>1, <1>3, <2>1, ReadIs DEF Learned
  <2> QED BY <1>3, <2>2
<1>4. CASE read[1] \notin {"pod", "live"} /\ d # Nothing
  <2>1. e.pod = d.pod /\ e.events \in {d.events, cluster.events}
    BY <1>1, <1>4 DEF Learned
  <2>2. context # Nothing => context.events \subseteq cluster.events
    BY DEF NowOf
  <2> QED BY <1>4, <2>1, <2>2 DEF Fits, NowOf, Earlier
<1> QED BY <1>2, <1>3, <1>4

(* A call that goes on still has, or will have, what it is to bring. *)
LEMMA AdvanceBrings ==
    ASSUME NEW call, NEW known, CallOK(call, known), call.todo # << >>, call.status = "running",
           NEW ctx, Brings(call, ctx), NEW d, DraftOK(d), NEW new, NEW says, Advanced(new, call, d, says),
           call.tool \in SnapshotTools => says # "hit",
           NextRead(call)[1] = "log" \/ call.draft.logs # << >> => d.logs # << >>,
           NextRead(call)[1] = "claims" \/ call.draft.claim # "none" => d.claim # "none"
    PROVE  Brings(new, ctx)
<1>1. /\ new.tool = call.tool /\ new.fresh = call.fresh /\ new.target = call.target
      /\ new.draft = Kept(call.tool, d) /\ (says # "hit" => new.todo = Tail(call.todo))
  BY DEF Advanced
<1> SUFFICES ASSUME call.fresh, call.tool \in {"k8s.get_logs", "k8s.get_pvc"}
             PROVE  Brings(new, ctx)
  BY <1>1 DEF Brings
<1>2. new.todo = Tail(call.todo) /\ call.todo \in Seq(ReadType)
  BY <1>1 DEF SnapshotTools, CallOK, CallType
<1>3. \A kind : Has(call.todo, kind) => Head(call.todo)[1] = kind \/ Has(Tail(call.todo), kind)
  BY <1>2, TailOf
<1>4. /\ call.tool = "k8s.get_logs" => new.draft["logs"] = d["logs"]
      /\ call.tool = "k8s.get_pvc" => new.draft["claim"] = d["claim"]
  <2>1. /\ call.tool = "k8s.get_logs" => "logs" \in Section(call.tool) \cap DOMAIN Nothing
        /\ call.tool = "k8s.get_pvc" => "claim" \in Section(call.tool) \cap DOMAIN Nothing
    BY DEF Section, Nothing
  <2> QED BY <1>1, <2>1, KeptOK
<1>5. /\ call.tool = "k8s.get_logs" => Has(call.todo, "log") \/ call.draft.logs # << >>
      /\ call.tool = "k8s.get_pvc" => Has(call.todo, "claims") \/ call.draft.claim # "none"
      /\ call.tool = "k8s.get_logs" /\ call.target = All /\ ctx # Nothing => ctx.logs = << >>
  BY DEF Brings
<1>6. Has(call.todo, "log") => NextRead(call)[1] = "log" \/ Has(new.todo, "log")
  BY <1>2, <1>3 DEF NextRead
<1>7. Has(call.todo, "claims") => NextRead(call)[1] = "claims" \/ Has(new.todo, "claims")
  BY <1>2, <1>3 DEF NextRead
<1>8. call.tool = "k8s.get_logs" => Has(new.todo, "log") \/ new.draft.logs # << >>
  BY <1>4, <1>5, <1>6
<1>9. call.tool = "k8s.get_pvc" => Has(new.todo, "claims") \/ new.draft.claim # "none"
  BY <1>4, <1>5, <1>7
<1> QED BY <1>1, <1>5, <1>8, <1>9 DEF Brings

(* Of a step that replaces one call. *)
LEMMA KeepReplace ==
    ASSUME CollectInv, KeepInv, NEW i \in DOMAIN calls, NEW new, CallOK(new, Known),
           calls' = [calls EXCEPT ![i] = new], UNCHANGED <<context, cluster>>,
           Fits(new.draft, context, cluster), Brings(new, context)
    PROVE  KeepInv'
<1>1. calls \in Seq(CallType) /\ \A j \in DOMAIN calls : CallOK(calls[j], Known)
  BY DEF CollectInv
<1>2. DOMAIN calls' = DOMAIN calls /\ \A j \in DOMAIN calls' : calls'[j] = IF j = i THEN new ELSE calls[j]
  BY <1>1, ReplacedOK
<1> QED BY <1>2 DEF KeepInv

(* The steps, one by one. *)
LEMMA KeepRead ==
    ASSUME CollectInv, KeepInv, NEW i, Read(i)
    PROVE  KeepInv'
<1> DEFINE call == calls[i]
           read == NextRead(call)
           known == Known
<1>1. /\ i \in DOMAIN calls /\ call.status = "running"
      /\ UNCHANGED <<cluster, goal, context, found, called, plan>>
  BY DEF Read
<1>2. /\ CallOK(call, Known) /\ goal \in RequestType /\ ClusterOK(cluster) /\ calls \in Seq(CallType)
      /\ DraftOK(context)
  BY <1>1 DEF CollectInv
<1>3. /\ call.todo # << >> /\ DraftOK(call.draft) /\ call \in CallType
      /\ Fits(call.draft, context, cluster) /\ Brings(call, context)
      /\ context # Nothing => NowOf(context, cluster)
      /\ call.fresh => call.tool \in SnapshotTools
      /\ call.tool \in SnapshotTools => call.says # "hit"
  BY <1>1, <1>2 DEF CallOK, TodoOK, SnapshotOK, KeepInv
<1>4. /\ read \in ReadType
      /\ read[1] \in Surround => call.draft.pod # << >>
      /\ read[1] \in {"pod", "live"} => call.draft = Nothing
  BY <1>2, <1>3, NextOK
<1>5. CASE \E d \in Learnt(call.draft, read), says \in Told(call) :
                calls' = [calls EXCEPT ![i] = Advance(@, d, says)]
  <2>1. PICK d \in Learnt(call.draft, read), says \in Told(call) :
               calls' = [calls EXCEPT ![i] = Advance(call, d, says)]
    BY <1>1, <1>2, <1>5
  <2> DEFINE new == Advance(call, d, says)
  <2> HIDE DEF call, new
  <2>2. CallOK(new, Known) /\ Advanced(new, call, d, says) /\ DraftOK(d)
    BY <1>1, <1>2, ReadOK DEF new
  <2>3. new.draft = Kept(call.tool, d)
    BY <2>2 DEF Advanced
  <2>4. Fits(d, context, cluster)
    <3> HIDE DEF read
    <3> QED BY <1>2, <1>3, <1>4, <2>1, ReadFits
  <2>5. Fits(new.draft, context, cluster)
    BY <2>2, <2>3, <2>4, KeptFits
  <2>6. /\ read[1] = "log" \/ call.draft.logs # << >> => d.logs # << >>
        /\ read[1] = "claims" \/ call.draft.claim # "none" => d.claim # "none"
    <3> HIDE DEF read
    <3> QED BY <1>2, <1>3, <1>4, <2>1, LearntMore
  <2>7. call.tool \in SnapshotTools => says # "hit"
    BY <1>2, <1>3, <2>1, ToldOK
  <2>8. CallOK(call, known)
    BY <1>2
  <2> HIDE DEF known
  <2>9. Brings(new, context)
    BY <1>1, <1>3, <2>2, <2>6, <2>7, <2>8, AdvanceBrings
  <2>10. calls' = [calls EXCEPT ![i] = new]
    BY <2>1 DEF new
  <2> QED BY <1>1, <2>2, <2>5, <2>9, <2>10, KeepReplace
<1>6. CASE calls' = [calls EXCEPT ![i] = Failed(@)]
  <2> DEFINE new == Failed(call)
  <2>1. calls' = [calls EXCEPT ![i] = new]
    BY <1>1, <1>2, <1>6
  <2> HIDE DEF call, new
  <2>2. CallOK(new, Known) /\ (SameDraft(new, call) \/ \E d : PassedOver(new, call, d))
    BY <1>1, <1>2, FailedOK, FailedIs DEF new
  <2>3. Fits(new.draft, context, cluster) /\ Brings(new, context)
    <3>1. CASE SameDraft(new, call)
      BY <1>1, <1>3, <3>1 DEF SameDraft, Brings
    <3>2. CASE \E d : PassedOver(new, call, d)
      <4>1. PICK d : PassedOver(new, call, d)
        BY <3>2
      <4>2. PICK says : Advanced(new, call, d, says) /\ (call.tool \in SnapshotTools => says # "hit")
        BY <4>1 DEF PassedOver
      <4>3. /\ DraftOK(d) /\ d.pod = call.draft.pod /\ d.events = call.draft.events
            /\ read[1] = "log" \/ call.draft.logs # << >> => d.logs # << >>
            /\ read[1] = "claims" \/ call.draft.claim # "none" => d.claim # "none"
        BY <4>1 DEF PassedOver
      <4>4. Fits(d, context, cluster)
        <5>1. d # Nothing => call.draft # Nothing
          BY <4>3, NothingOK DEF DraftOK
        <5> QED BY <1>3, <4>3, <5>1 DEF Fits, NowOf, Earlier
      <4>5. new.draft = Kept(call.tool, d)
        BY <4>2 DEF Advanced
      <4>6. Fits(new.draft, context, cluster)
        BY <4>3, <4>4, <4>5, KeptFits
      <4>7. CallOK(call, known)
        BY <1>2
      <4> HIDE DEF known
      <4>8. Brings(new, context)
        BY <1>1, <1>3, <4>2, <4>3, <4>7, AdvanceBrings
      <4> QED BY <4>6, <4>8
    <3> QED BY <2>2, <3>1, <3>2
  <2> QED BY <1>1, <2>1, <2>2, <2>3, KeepReplace
<1> QED BY <1>5, <1>6 DEF Read

LEMMA KeepHang ==
    ASSUME CollectInv, KeepInv, NEW i, Hang(i)
    PROVE  KeepInv'
<1> DEFINE call == calls[i]
           new == [call EXCEPT !.status = "hung"]
<1>1. /\ i \in DOMAIN calls /\ call.status = "running"
      /\ UNCHANGED <<cluster, goal, context, found, called, plan>>
  BY DEF Hang
<1>2. CallOK(call, Known) /\ calls \in Seq(CallType)
  BY <1>1 DEF CollectInv
<1>3. calls' = [calls EXCEPT ![i] = new]
  BY <1>1, <1>2 DEF Hang
<1>4. call.todo # << >> /\ Fits(call.draft, context, cluster) /\ Brings(call, context)
  BY <1>1, <1>2 DEF CallOK, TodoOK, KeepInv
<1>5. CallOK(new, Known) /\ SameDraft(new, call)
  <2> HIDE DEF call
  <2> QED BY <1>2, <1>4, StoppedOK DEF SameDraft
<1>6. new.todo = call.todo
  BY <1>2 DEF CallOK, CallType
<1> HIDE DEF new, call
<1>7. Fits(new.draft, context, cluster) /\ Brings(new, context)
  BY <1>1, <1>4, <1>5, <1>6 DEF SameDraft, Brings
<1> QED BY <1>1, <1>3, <1>5, <1>7, KeepReplace

LEMMA KeepDeadline ==
    ASSUME CollectInv, KeepInv, NEW i, Deadline(i)
    PROVE  KeepInv'
<1> DEFINE call == calls[i]
<1>1. /\ i \in DOMAIN calls /\ call.status = "hung"
      /\ UNCHANGED <<cluster, goal, context, found, called, plan, budget>>
  BY DEF Deadline
<1>2. CallOK(call, Known) /\ goal \in RequestType
  BY <1>1 DEF CollectInv
<1>3. PICK new \in GivenUp(call) : calls' = [calls EXCEPT ![i] = new]
  BY DEF Deadline
<1>4. new = [call EXCEPT !.status = "failed"] \/ new = Cancelled(call)
  BY <1>3 DEF GivenUp
<1>5. /\ DraftOK(call.draft) /\ call \in CallType
      /\ Fits(call.draft, context, cluster) /\ Brings(call, context)
  BY <1>1, <1>2 DEF CallOK, KeepInv
<1> HIDE DEF call
<1>6. CallOK(new, Known)
  BY <1>1, <1>2, <1>4, StoppedOK, CancelledOK
<1>7. Fits(new.draft, context, cluster) /\ Brings(new, context)
  <2>1. CASE new = [call EXCEPT !.status = "failed"]
    <3>1. new.draft = call.draft /\ new.status = "failed"
      BY <1>5, <2>1 DEF CallType
    <3> QED BY <1>5, <3>1 DEF Brings
  <2>2. CASE \E d : Ended(new, call, d)
    <3>1. PICK d : Ended(new, call, d)
      BY <2>2
    <3>2. /\ DraftOK(d) /\ d.pod = call.draft.pod /\ d.events = call.draft.events
          /\ new.draft = Kept(call.tool, d) /\ new.tool = call.tool /\ new.target = call.target
          /\ new.fresh = call.fresh
          /\ Has(call.todo, "log") \/ call.draft.logs # << >> => d.logs # << >>
          /\ Has(call.todo, "claims") \/ call.draft.claim # "none" => d.claim # "none"
      BY <3>1 DEF Ended
    <3>3. d # Nothing => call.draft # Nothing
      BY <3>2, NothingOK DEF DraftOK
    <3>4. Fits(d, context, cluster)
      BY <1>5, <3>2, <3>3 DEF Fits, NowOf, Earlier
    <3>5. Fits(new.draft, context, cluster)
      BY <3>2, <3>4, KeptFits
    <3>6. /\ call.tool = "k8s.get_logs" => new.draft["logs"] = d["logs"]
          /\ call.tool = "k8s.get_pvc" => new.draft["claim"] = d["claim"]
      <4>1. /\ call.tool = "k8s.get_logs" => "logs" \in Section(call.tool) \cap DOMAIN Nothing
            /\ call.tool = "k8s.get_pvc" => "claim" \in Section(call.tool) \cap DOMAIN Nothing
        BY DEF Section, Nothing
      <4> QED BY <3>2, <4>1, KeptOK
    <3>7. Brings(new, context)
      BY <1>1, <1>5, <3>2, <3>6 DEF Brings
    <3> QED BY <3>5, <3>7
  <2> QED BY <1>1, <1>2, <1>4, <2>1, <2>2, CancelledOK
<1> QED BY <1>1, <1>3, <1>6, <1>7, KeepReplace

LEMMA KeepRestart ==
    ASSUME CollectInv, KeepInv, NEW c \in Containers, Restart(c)
    PROVE  KeepInv'
<1>1. UNCHANGED <<calls, context>> /\ ClusterOK(cluster) /\ DraftOK(context)
  BY DEF Restart, CollectInv
<1>2. /\ \A k \in Containers : Goes(k, cluster.now, cluster.deaths, cluster'.deaths)
      /\ cluster.events \subseteq cluster'.events
  BY <1>1, RestartGoes
<1>3. ASSUME NEW d, DraftOK(d), d # Nothing, NowOf(d, cluster) PROVE NowOf(d, cluster')
  <2>1. \A k \in Containers : d.pod[k] \in Nat
    BY <1>3, DraftIs, Bounds
  <2> DEFINE later == cluster'
  <2>2. \A k \in Containers : Goes(k, cluster.now, cluster.deaths, later.deaths)
    BY <1>2
  <2>3. cluster.events \subseteq later.events
    BY <1>2
  <2> HIDE DEF later
  <2>4. NowOf(d, later)
    BY <1>3, <2>1, <2>2, <2>3, LaterNow
  <2> QED BY <2>4 DEF later
<1>4. context # Nothing => NowOf(context, cluster')
  BY <1>1, <1>3 DEF KeepInv
<1>5. ASSUME NEW i \in DOMAIN calls PROVE Fits(calls[i].draft, context, cluster')
  <2>1. DraftOK(calls[i].draft) /\ Fits(calls[i].draft, context, cluster)
    BY DEF CollectInv, CallOK, KeepInv
  <2> QED BY <1>3, <2>1 DEF Fits
<1> QED BY <1>1, <1>4, <1>5 DEF KeepInv

LEMMA KeepStart ==
    ASSUME CollectInv, KeepInv, Start
    PROVE  KeepInv'
<1> DEFINE group == Head(plan)
<1>1. /\ UNCHANGED <<cluster, goal, context, found, called, budget>>
      /\ calls' = [i \in DOMAIN group |-> Call(group[i][1], group[i][2])]
  BY DEF Start
<1>2. CollectInv'
  BY StartKeeps
<1>3. goal \in RequestType /\ DraftOK(context)
  BY DEF CollectInv
<1>4. ASSUME NEW i \in DOMAIN calls'
      PROVE  calls'[i].draft = Nothing /\ Brings(calls'[i], context)
  <2> DEFINE tool == group[i][1]
             target == group[i][2]
             new == calls'[i]
  <2>1. new = Call(tool, target)
    BY <1>1
  <2>2. new.tool = tool /\ new.target = target
    BY <2>1 DEF Call
  <2> HIDE DEF group
  <2>3. tool \in Tools /\ target \in Targets /\ (tool = "collect" => ~Known)
    <3>1. CallOK(new, Known') /\ Known' = Known
      BY <1>1, <1>2 DEF CollectInv, Known
    <3>2. new \in CallType /\ (new.tool = "collect" => ~Known)
      BY <3>1 DEF CallOK, SnapshotOK
    <3> HIDE DEF tool, target, new
    <3> QED BY <2>2, <3>2 DEF CallType
  <2> HIDE DEF tool, target, new
  <2>4. /\ new.tool = tool /\ new.target = target /\ new.draft = Nothing
        /\ new.fresh => /\ tool = "k8s.get_logs" => Has(new.todo, "log")
                        /\ tool = "k8s.get_pvc" => Has(new.todo, "claims")
                        /\ tool = "k8s.get_logs" /\ target = All /\ Known => context.logs = << >>
    BY <1>3, <2>1, <2>3, CallStart
  <2>5. Known <=> context # Nothing
    BY <1>3, KnownIs
  <2> QED BY <2>4, <2>5 DEF Brings, new
<1>5. context' = context /\ cluster' = cluster
  BY <1>1
<1> QED BY <1>4, <1>5 DEF KeepInv, Fits

(* What a call brings into the context. *)
Brought(d, call) ==
    /\ d \in ContextType /\ d.pod = call.draft.pod /\ d.pod # << >>
    /\ d.events = call.draft.events /\ d.claim = call.draft.claim
    /\ NowOf(d, cluster)
    /\ DOMAIN call.draft.logs \subseteq DOMAIN d.logs
    /\ call.draft.logs = << >> => d.logs = << >>
    /\ context # Nothing => /\ Earlier(context, d)
                            /\ d.logs # << >> => DOMAIN context.logs \subseteq DOMAIN d.logs
                            /\ d.claim = "none" /\ d.topology = "none" /\ d.correlations = "none"
Joined(e, ctx, d) ==
    /\ e.pod = d.pod
    /\ e.events = IF d.events # {} THEN d.events ELSE ctx.events
    /\ e.logs = IF d.logs # << >> THEN d.logs ELSE ctx.logs
    /\ e.claim = IF d.claim # "none" THEN d.claim ELSE ctx.claim
    /\ e.topology = IF d.topology # "none" THEN d.topology ELSE ctx.topology
    /\ e.correlations = IF d.correlations # "none" THEN d.correlations ELSE ctx.correlations

(* What a call that is done brings fits the context it was started with. *)
LEMMA DeltaBrings ==
    ASSUME CollectInv, KeepInv, NEW i \in DOMAIN calls, calls[i].status = "done",
           NEW d, d = Delta(calls[i]), d.pod # << >>
    PROVE  Brought(d, calls[i])
<1> DEFINE call == calls[i]
           known == Known
<1>1. /\ DraftOK(context) /\ CallOK(call, Known) /\ DraftOK(call.draft) /\ call \in CallType
      /\ Fits(call.draft, context, cluster) /\ Brings(call, context) /\ call.todo = << >>
  BY DEF CollectInv, KeepInv, CallOK, TodoOK
<1>2. known <=> context # Nothing
  BY <1>1, KnownIs
<1> HIDE DEF call
<1>3. /\ d \in ContextType /\ d.pod = call.draft.pod
      /\ \A f \in DOMAIN Nothing \ {"logs"} : d[f] = call.draft[f]
      /\ DOMAIN call.draft.logs \subseteq DOMAIN d.logs
      /\ call.tool = "k8s.get_logs" /\ call.target # All /\ Known => DOMAIN context.logs \subseteq DOMAIN d.logs
      /\ ~(call.tool = "k8s.get_logs" /\ call.target # All /\ Known) => d.logs = call.draft.logs
  BY <1>1, DeltaOK DEF call
<1>4. d.events = call.draft.events /\ d.claim = call.draft.claim /\ d.topology = call.draft.topology
      /\ d.correlations = call.draft.correlations
  BY <1>3 DEF Nothing
<1>5. call.draft # Nothing
  BY <1>1, <1>3, NothingOK
<1>6. /\ NowOf(call.draft, cluster)
      /\ context # Nothing => Earlier(context, call.draft)
  BY <1>1, <1>5 DEF Fits
<1>7. /\ call.tool = "collect" => ~known
      /\ call.fresh => call.tool \in SnapshotTools
      /\ call.tool \in SnapshotTools => call.fresh
      /\ known /\ call.fresh => Sections(call.tool) # {}
      /\ \A f \in DOMAIN Nothing \ Section(call.tool) : call.draft[f] = Nothing[f]
  BY <1>1, <1>5 DEF CallOK, SnapshotOK
<1>8. call.tool = "k8s.get_logs" => call.draft.logs # << >>
  <2>1. call.tool = "k8s.get_logs" => call.fresh
    BY <1>7 DEF SnapshotTools
  <2> QED BY <1>1, <2>1 DEF Brings, Has, call
<1>9. NowOf(d, cluster) /\ (context # Nothing => Earlier(context, d))
  BY <1>3, <1>4, <1>6 DEF NowOf, Earlier
<1>10. call.draft.logs = << >> => d.logs = << >>
  BY <1>3, <1>8
<1>11. ASSUME context # Nothing
       PROVE  /\ d.logs # << >> => DOMAIN context.logs \subseteq DOMAIN d.logs
              /\ d.claim = "none" /\ d.topology = "none" /\ d.correlations = "none"
  <2>1. known /\ call.tool # "collect"
    BY <1>2, <1>7, <1>11
  <2>2. call.tool \notin {"k8s.get_topology", "k8s.get_pvc"}
    BY <1>7, <2>1 DEF Sections, SnapshotTools
  <2>3. {"claim", "topology", "correlations"} \cap Section(call.tool) = {}
    BY <2>1, <2>2 DEF Section
  <2>4. call.draft["claim"] = Nothing["claim"] /\ call.draft["topology"] = Nothing["topology"]
        /\ call.draft["correlations"] = Nothing["correlations"]
    BY <1>7, <2>3 DEF Nothing
  <2>5. d.claim = "none" /\ d.topology = "none" /\ d.correlations = "none"
    BY <1>4, <2>4 DEF Nothing
  <2>6. CASE call.tool # "k8s.get_logs"
    <3>1. "logs" \notin Section(call.tool) /\ "logs" \in DOMAIN Nothing
      BY <2>1, <2>6 DEF Section, Nothing
    <3>2. call.draft["logs"] = Nothing["logs"]
      BY <1>7, <3>1
    <3>3. call.draft.logs = << >>
      BY <3>2 DEF Nothing
    <3> QED BY <1>10, <2>5, <3>3
  <2>7. CASE call.tool = "k8s.get_logs" /\ call.target # All
    BY <1>3, <2>1, <2>5, <2>7
  <2>8. CASE call.tool = "k8s.get_logs" /\ call.target = All
    <3>1. call.fresh /\ call.status # "failed"
      BY <1>7, <2>8 DEF SnapshotTools, call
    <3>2. context.logs = << >>
      BY <1>1, <1>11, <2>8, <3>1 DEF Brings
    <3>3. DOMAIN context.logs = {}
      BY <3>2
    <3> QED BY <2>5, <3>3
  <2> QED BY <2>6, <2>7, <2>8
<1> QED BY <1>3, <1>4, <1>9, <1>10, <1>11 DEF Brought, call

(* One result merged, field by field. *)
LEMMA MergeJoins ==
    ASSUME NEW ctx, DraftOK(ctx), NEW d \in ContextType, d.pod # << >>, NEW e, e = Merge(ctx, d)
    PROVE  Joined(e, ctx, d)
<1>1. e.pod = d.pod /\ \A f \in DOMAIN Nothing : e[f] = IF d[f] # Nothing[f] THEN d[f] ELSE ctx[f]
  BY MergeOK
<1> QED BY <1>1 DEF Joined, Nothing

(* One position of the merge: the call brings nothing, or its result is joined. *)
LEMMA MergeStep ==
    ASSUME CollectInv, KeepInv, NEW f, MergesTo(f), NEW k \in 1..Len(calls)
    PROVE  \/ f[k] = f[k - 1] /\ (calls[k].status = "done" => calls[k].draft = Nothing)
           \/ calls[k].status = "done" /\ \E d : Brought(d, calls[k]) /\ Joined(f[k], f[k - 1], d)
<1> DEFINE call == calls[k]
           d == Delta(call)
           ctx == f[k - 1]
<1>1. calls \in Seq(CallType) /\ DraftOK(context) /\ \A i \in DOMAIN calls : CallOK(calls[i], Known)
  BY DEF CollectInv
<1>2. k \in DOMAIN calls /\ k - 1 \in 0..Len(calls)
  BY <1>1
<1>3. DraftOK(ctx) /\ f[k] = IF call.status = "done" THEN Merge(ctx, d) ELSE ctx
  BY <1>2 DEF MergesTo
<1>4. CallOK(call, Known) /\ DraftOK(call.draft)
  BY <1>1, <1>2 DEF CallOK
<1> HIDE DEF ctx
<1>5. d \in ContextType /\ d.pod = call.draft.pod
  <2> HIDE DEF call
  <2> QED BY <1>1, <1>4, DeltaOK
<1>6. CASE call.status # "done"
  BY <1>3, <1>6 DEF ctx
<1>7. CASE call.status = "done" /\ d.pod = << >>
  <2>1. call.draft = Nothing
    BY <1>4, <1>5, <1>7 DEF DraftOK
  <2>2. f[k] = ctx
    <3> HIDE DEF d
    <3> QED BY <1>3, <1>5, <1>7, MergeOK
  <2> QED BY <2>1, <2>2 DEF ctx
<1>8. CASE call.status = "done" /\ d.pod # << >>
  <2>1. Brought(d, call)
    BY <1>2, <1>8, DeltaBrings
  <2>2. Joined(f[k], ctx, d)
    <3> HIDE DEF d
    <3> QED BY <1>3, <1>5, <1>8, MergeJoins
  <2> HIDE DEF d, call
  <2>3. \E x : Brought(x, call) /\ Joined(f[k], ctx, x)
    BY <2>1, <2>2
  <2> QED BY <1>8, <2>3 DEF call, ctx
<1> QED BY <1>6, <1>7, <1>8

(* Along the merge nothing of the context is lost, and nothing becomes older. *)
Grown(e) ==
    /\ e # Nothing => NowOf(e, cluster)
    /\ context # Nothing => /\ e # Nothing
                            /\ \A c \in Containers : context.pod[c] <= e.pod[c]
                            /\ context.events \subseteq e.events
                            /\ DOMAIN context.logs \subseteq DOMAIN e.logs
                            /\ context.claim # "none" => e.claim = context.claim
                            /\ context.topology # "none" => e.topology = context.topology
                            /\ context.correlations # "none" => e.correlations = context.correlations
LEMMA MergeGrows ==
    ASSUME CollectInv, KeepInv, NEW f, MergesTo(f), NEW k \in 0..Len(calls)
    PROVE  Grown(f[k])
<1> DEFINE n == Len(calls)
           T == {m \in Nat : m <= n => Grown(f[m])}
<1>1. n \in Nat /\ DraftOK(context) /\ (context # Nothing => NowOf(context, cluster))
  BY DEF CollectInv, KeepInv
<1>2. 0 \in T
  <2>1. f[0] = context
    BY DEF MergesTo
  <2>2. context # Nothing => \A c \in Containers : context.pod[c] <= context.pod[c]
    <3>1. ASSUME context # Nothing, NEW c \in Containers PROVE context.pod[c] \in Nat
      BY <1>1, <3>1, DraftIs, Bounds
    <3> QED BY <3>1
  <2>3. Grown(f[0])
    BY <1>1, <2>1, <2>2 DEF Grown
  <2> QED BY <2>3
<1>3. ASSUME NEW m \in Nat, m \in T PROVE m + 1 \in T
  <2> SUFFICES ASSUME m + 1 <= n PROVE Grown(f[m + 1])
    OBVIOUS
  <2> DEFINE e == f[m + 1]
             ctx == f[m]
             call == calls[m + 1]
  <2>1. Grown(ctx)
    BY <1>1, <1>3
  <2>2. m + 1 \in 1..n /\ (m + 1) - 1 = m
    BY <1>1
  <2>3. CASE e = ctx
    BY <2>1, <2>3
  <2>4. CASE \E d : Brought(d, call) /\ Joined(e, ctx, d)
    <3>1. PICK d : Brought(d, call) /\ Joined(e, ctx, d)
      BY <2>4
    <3> HIDE DEF e, ctx, call
    <3>2. /\ e.pod = d.pod /\ d.pod # << >> /\ NowOf(d, cluster)
          /\ e.events = IF d.events # {} THEN d.events ELSE ctx.events
          /\ e.logs = IF d.logs # << >> THEN d.logs ELSE ctx.logs
      BY <3>1 DEF Brought, Joined
    <3>3. e # Nothing
      BY <3>2, NothingOK
    <3>4. NowOf(e, cluster)
      <4>1. ctx.events \subseteq cluster.events
        BY <2>1 DEF Grown, NowOf, Nothing
      <4> QED BY <3>2, <4>1 DEF NowOf
    <3>5. ASSUME context # Nothing
          PROVE  /\ \A c \in Containers : context.pod[c] <= e.pod[c]
                 /\ context.events \subseteq e.events
                 /\ DOMAIN context.logs \subseteq DOMAIN e.logs
      <4>1. Earlier(context, d) /\ (d.logs # << >> => DOMAIN context.logs \subseteq DOMAIN d.logs)
        BY <3>1, <3>5 DEF Brought
      <4>2. context.events \subseteq ctx.events /\ DOMAIN context.logs \subseteq DOMAIN ctx.logs
        BY <2>1, <3>5 DEF Grown
      <4> QED BY <3>2, <4>1, <4>2 DEF Earlier
    <3>6. ASSUME context # Nothing
          PROVE  /\ context.claim # "none" => e.claim = context.claim
                 /\ context.topology # "none" => e.topology = context.topology
                 /\ context.correlations # "none" => e.correlations = context.correlations
      <4>1. d.claim = "none" /\ d.topology = "none" /\ d.correlations = "none"
        BY <3>1, <3>6 DEF Brought
      <4>2. e.claim = ctx.claim /\ e.topology = ctx.topology /\ e.correlations = ctx.correlations
        BY <3>1, <4>1 DEF Joined
      <4> QED BY <2>1, <3>6, <4>2 DEF Grown
    <3>7. Grown(e)
      BY <3>3, <3>4, <3>5, <3>6 DEF Grown
    <3> QED BY <3>7 DEF e
  <2>5. e = ctx \/ \E d : Brought(d, call) /\ Joined(e, ctx, d)
    <3> DEFINE q == m + 1
    <3>1. q \in 1..Len(calls) /\ q - 1 = m
      BY <2>2
    <3> HIDE DEF q
    <3>2. f[q] = f[q - 1] \/ \E d : Brought(d, calls[q]) /\ Joined(f[q], f[q - 1], d)
      BY <3>1, MergeStep
    <3> QED BY <3>1, <3>2 DEF q
  <2> HIDE DEF e, ctx, call
  <2> QED BY <2>3, <2>4, <2>5 DEF e
<1>4. Nat \subseteq T
  <2> HIDE DEF T
  <2> QED BY <1>2, <1>3, Induction
<1>5. k \in Nat /\ k <= n
  BY <1>1
<1> QED BY <1>4, <1>5

(* What a call has read is in the context when the merge has come to it, and stays. *)
Held(e, i) ==
    /\ calls[i].draft.events # {} => e.events # {}
    /\ calls[i].draft.claim # "none" => e.claim # "none"
    /\ (\A j \in DOMAIN calls \ {i} : ~ReadLogs(j)) => DOMAIN calls[i].draft.logs \subseteq DOMAIN e.logs
LEMMA MergeHolds ==
    ASSUME CollectInv, KeepInv, NEW f, MergesTo(f), NEW i \in DOMAIN calls, calls[i].status = "done",
           NEW k \in i..Len(calls)
    PROVE  Held(f[k], i)
<1> DEFINE n == Len(calls)
           T == {m \in Nat : m >= i /\ m <= n => Held(f[m], i)}
<1>1. n \in Nat /\ i \in 1..n /\ DOMAIN calls = 1..n
  BY DEF CollectInv
<1>2. 0 \in T
  BY <1>1
<1>3. ASSUME NEW m \in Nat, m \in T PROVE m + 1 \in T
  <2> DEFINE q == m + 1
             e == f[q]
             ctx == f[q - 1]
  <2> SUFFICES ASSUME q >= i, q <= n PROVE Held(e, i)
    OBVIOUS
  <2>1. q \in 1..n /\ q - 1 = m
    BY <1>1
  <2>2. q = i \/ Held(ctx, i)
    BY <1>1, <1>3, <2>1
  <2> HIDE DEF q, T, n
  <2>3. \/ e = ctx /\ (calls[q].status = "done" => calls[q].draft = Nothing)
        \/ calls[q].status = "done" /\ \E d : Brought(d, calls[q]) /\ Joined(e, ctx, d)
    BY <2>1, MergeStep DEF n
  <2> HIDE DEF e, ctx
  <2>4. CASE e = ctx /\ (calls[q].status = "done" => calls[q].draft = Nothing)
    <3>1. CASE q # i
      BY <2>2, <2>4, <3>1
    <3>2. CASE q = i
      <4>1. calls[i].draft = Nothing
        BY <2>4, <3>2
      <4>2. Nothing.events = {} /\ Nothing.claim = "none" /\ DOMAIN Nothing.logs = {}
        BY NothingOK DEF Nothing
      <4> QED BY <4>1, <4>2 DEF Held
    <3> QED BY <3>1, <3>2
  <2>5. CASE calls[q].status = "done" /\ \E d : Brought(d, calls[q]) /\ Joined(e, ctx, d)
    <3>1. PICK d : Brought(d, calls[q]) /\ Joined(e, ctx, d)
      BY <2>5
    <3>2. /\ e.events = IF d.events # {} THEN d.events ELSE ctx.events
          /\ e.logs = IF d.logs # << >> THEN d.logs ELSE ctx.logs
          /\ e.claim = IF d.claim # "none" THEN d.claim ELSE ctx.claim
      BY <3>1 DEF Joined
    <3>3. CASE q = i
      <4>1. /\ d.events = calls[i].draft.events /\ d.claim = calls[i].draft.claim
            /\ DOMAIN calls[i].draft.logs \subseteq DOMAIN d.logs
        BY <3>1, <3>3 DEF Brought
      <4>2. d.logs = << >> => DOMAIN d.logs = {}
        OBVIOUS
      <4> QED BY <3>2, <4>1, <4>2 DEF Held
    <3>4. CASE q # i
      <4>1. Held(ctx, i)
        BY <2>2, <3>4
      <4>2. (\A j \in DOMAIN calls \ {i} : ~ReadLogs(j)) => e.logs = ctx.logs
        <5>1. q \in DOMAIN calls
          BY <1>1, <2>1
        <5>2. calls[q].draft.logs = << >> => d.logs = << >>
          BY <3>1 DEF Brought
        <5> QED BY <2>5, <3>2, <3>4, <5>1, <5>2 DEF ReadLogs
      <4> QED BY <3>2, <4>1, <4>2 DEF Held
    <3> QED BY <3>3, <3>4
  <2> QED BY <2>3, <2>4, <2>5
<1>4. Nat \subseteq T
  <2> HIDE DEF T
  <2> QED BY <1>2, <1>3, Induction
<1>5. k \in Nat /\ k >= i /\ k <= n
  BY <1>1
<1> QED BY <1>4, <1>5

(* The merged context is of now. *)
LEMMA KeepRecord ==
    ASSUME CollectInv, KeepInv, Record
    PROVE  KeepInv'
<1>1. context' = Merged(calls) /\ calls' = << >> /\ cluster' = cluster
  BY DEF Record
<1>2. calls \in Seq(CallType) /\ DraftOK(context) /\ \A i \in DOMAIN calls : CallOK(calls[i], Known)
  BY DEF CollectInv
<1>3. PICK f : MergesTo(f)
  BY <1>2, MergedOK
<1>4. Len(calls) \in 0..Len(calls)
  BY <1>2
<1>5. Grown(f[Len(calls)])
  BY <1>3, <1>4, MergeGrows
<1>6. context' # Nothing => NowOf(context', cluster)
  BY <1>1, <1>3, <1>5 DEF MergesTo, Grown
<1> QED BY <1>1, <1>6 DEF KeepInv

(* Every step. *)
LEMMA KeepStep == CollectInv /\ KeepInv /\ [Next]_vars => KeepInv'
<1> SUFFICES ASSUME CollectInv, KeepInv, [Next]_vars PROVE KeepInv'
  OBVIOUS
<1>1. ASSUME UNCHANGED vars PROVE KeepInv'
  BY <1>1 DEF KeepInv, vars
<1>2. ASSUME NEW c \in Containers, Restart(c) PROVE KeepInv'
  BY <1>2, KeepRestart
<1>3. ASSUME NEW i \in Width, Read(i) \/ Hang(i) \/ Deadline(i) PROVE KeepInv'
  BY <1>3, KeepRead, KeepHang, KeepDeadline
<1>4. ASSUME ProbeFallback PROVE KeepInv'
  <2>1. calls' = << >> /\ cluster' = cluster /\ context' \in {context, Nothing}
    BY <1>4 DEF ProbeFallback
  <2> QED BY <2>1 DEF KeepInv
<1> QED BY <1>1, <1>2, <1>3, <1>4, KeepStart, KeepRecord DEF Next

(* The results of a group are merged so that nothing that was known is lost or grows older, *)
(* and what each call has read is there afterwards.                                         *)
THEOREM EvidenceSafe == Spec => EvidenceKept
<1>1. Init => KeepInv
  BY DEF Init, KeepInv
<1> DEFINE Kept0 ==
      (calls # << >> /\ calls' = << >>) =>
          /\ Known => /\ \A c \in Containers : context.pod[c] <= context'.pod[c]
                      /\ context.events \subseteq context'.events
                      /\ DOMAIN context.logs \subseteq DOMAIN context'.logs
                      /\ \A f \in {"claim", "topology", "correlations"} : context[f] # "none" => context'[f] = context[f]
          /\ \A i \in DOMAIN calls : ReadLogs(i) /\ (\A j \in DOMAIN calls \ {i} : ~ReadLogs(j)) =>
                                        DOMAIN calls[i].draft.logs \subseteq DOMAIN context'.logs
          /\ \A i \in DOMAIN calls : calls[i].status = "done" /\ calls[i].fresh =>
                /\ Sections(calls[i].tool) # {} /\ calls[i].draft.events # {} => context'.events # {}
                /\ calls[i].tool = "k8s.get_pvc" => context'.claim # "none"
<1>2. CollectInv /\ KeepInv /\ [Next]_vars => [Kept0]_vars
  <2> SUFFICES ASSUME CollectInv, KeepInv, Next, calls # << >>, calls' = << >> PROVE Kept0
    OBVIOUS
  <2>1. Record
    <3>1. ASSUME NEW i \in Width, Read(i) \/ Hang(i) \/ Deadline(i) PROVE FALSE
      <4>1. i \in DOMAIN calls /\ \E new : calls' = [calls EXCEPT ![i] = new]
        <5>1. Read(i) => i \in DOMAIN calls /\ \E new : calls' = [calls EXCEPT ![i] = new]
          BY DEF Read
        <5>2. Hang(i) => i \in DOMAIN calls /\ \E new : calls' = [calls EXCEPT ![i] = new]
          BY DEF Hang
        <5>3. Deadline(i) => i \in DOMAIN calls /\ \E new : calls' = [calls EXCEPT ![i] = new]
          BY DEF Deadline
        <5> QED BY <3>1, <5>1, <5>2, <5>3
      <4>2. DOMAIN calls' = DOMAIN calls
        BY <4>1
      <4>3. DOMAIN << >> = {}
        OBVIOUS
      <4> QED BY <4>1, <4>2, <4>3
    <3> QED BY <3>1 DEF Next, Restart, Start, ProbeFallback
  <2>2. calls \in Seq(CallType) /\ DraftOK(context) /\ \A i \in DOMAIN calls : CallOK(calls[i], Known)
    BY DEF CollectInv
  <2>3. PICK f : MergesTo(f)
    BY <2>2, MergedOK
  <2> DEFINE n == Len(calls)
  <2>4. n \in 0..n /\ n \in Nat /\ DOMAIN calls = 1..n
    BY <2>2
  <2>5. context' = f[n]
    BY <2>1, <2>3 DEF Record, MergesTo
  <2>6. Grown(context')
    BY <2>3, <2>4, <2>5, MergeGrows
  <2>7. Known => /\ \A c \in Containers : context.pod[c] <= context'.pod[c]
                 /\ context.events \subseteq context'.events
                 /\ DOMAIN context.logs \subseteq DOMAIN context'.logs
                 /\ \A x \in {"claim", "topology", "correlations"} : context[x] # "none" => context'[x] = context[x]
    BY <2>2, <2>6, KnownIs DEF Grown
  <2>8. ASSUME NEW i \in DOMAIN calls, calls[i].status = "done" PROVE Held(context', i)
    <3>1. n \in i..n
      BY <2>4
    <3> QED BY <2>3, <2>5, <2>8, <3>1, MergeHolds
  <2>9. ASSUME NEW i \in DOMAIN calls, ReadLogs(i), \A j \in DOMAIN calls \ {i} : ~ReadLogs(j)
        PROVE  DOMAIN calls[i].draft.logs \subseteq DOMAIN context'.logs
    BY <2>8, <2>9 DEF Held, ReadLogs
  <2>10. ASSUME NEW i \in DOMAIN calls, calls[i].status = "done", calls[i].fresh
         PROVE  /\ Sections(calls[i].tool) # {} /\ calls[i].draft.events # {} => context'.events # {}
                /\ calls[i].tool = "k8s.get_pvc" => context'.claim # "none"
    <3>1. Held(context', i)
      BY <2>8, <2>10
    <3>2. calls[i].tool = "k8s.get_pvc" => calls[i].draft.claim # "none"
      <4>1. calls[i].todo = << >> /\ Brings(calls[i], context)
        BY <2>2, <2>10 DEF CallOK, TodoOK, KeepInv
      <4> QED BY <2>10, <4>1 DEF Brings, Has
    <3> QED BY <3>1, <3>2 DEF Held
  <2> QED BY <2>7, <2>9, <2>10
<1>3. Spec => [][Kept0]_vars
  <2> HIDE DEF Kept0
  <2> QED BY <1>1, <1>2, KeepStep, CollectAlways, PTL DEF Spec
<1> QED BY <1>3 DEF EvidenceKept

=============================================================================
