--------------------------- MODULE AgentLoopProofs ---------------------------
(***************************************************************************)
(* The agent loop, for any pods, plans, targets and budgets: its types and *)
(* limits; that a pinned diagnosis collects nothing but what was asked for *)
(* and looked for; and that no hypothesis is announced as confirmed while  *)
(* evidence that was asked for is outstanding.                             *)
(***************************************************************************)
EXTENDS AgentLoop, FiniteSetTheorems, SequenceTheorems, TLAPS

-----------------------------------------------------------------------------
(* Lemmas about sequences. *)

\* What is below a position of a set of positions.
Below(is, i) == {j \in is : j < i}

\* Positions of a sequence are finitely many.
LEMMA Positions ==
    ASSUME NEW S, NEW s \in Seq(S), NEW is \in SUBSET (DOMAIN s)
    PROVE  IsFiniteSet(is) /\ Cardinality(is) \in Nat /\ is \subseteq Nat
  <1>1. DOMAIN s = 1..Len(s) /\ Len(s) \in Nat
    BY LenProperties
  <1>2. IsFiniteSet(1..Len(s))
    BY <1>1, FS_Interval
  <1> QED
    BY <1>1, <1>2, FS_Subset, FS_CardinalityType

\* At takes the elements at the given positions, each once, in their order: the
\* positions are numbered by a function that increases and misses none.
Numbers(f, is) ==
    /\ f \in [1..Cardinality(is) -> is]
    /\ \A k, l \in 1..Cardinality(is) : k < l => f[k] < f[l]
    /\ \A i \in is : \E k \in 1..Cardinality(is) : f[k] = i

\* The number of positions below one is its rank: it increases with the position.
LEMMA Ranks ==
    ASSUME NEW S, NEW s \in Seq(S), NEW is \in SUBSET (DOMAIN s)
    PROVE  /\ \A i \in is : Cardinality(Below(is, i)) \in 0..(Cardinality(is) - 1)
           /\ \A i, j \in is : i < j => Cardinality(Below(is, i)) < Cardinality(Below(is, j))
  <1>1. \A i : /\ IsFiniteSet(Below(is, i)) /\ Cardinality(Below(is, i)) \in Nat
               /\ Below(is, i) \subseteq is
    <2> TAKE i
    <2>1. Below(is, i) \in SUBSET (DOMAIN s) /\ Below(is, i) \subseteq is
      BY DEF Below
    <2> QED BY <2>1, Positions
  <1>2. IsFiniteSet(is) /\ Cardinality(is) \in Nat /\ is \subseteq Nat
    BY Positions
  <1>3. ASSUME NEW i \in is PROVE Cardinality(Below(is, i)) \in 0..(Cardinality(is) - 1)
    <2>1. Below(is, i) \subseteq is \ {i}
      BY <1>2 DEF Below
    <2>2. IsFiniteSet(is \ {i}) /\ Cardinality(is \ {i}) = Cardinality(is) - 1
      BY <1>2, FS_RemoveElement
    <2>3. Cardinality(Below(is, i)) <= Cardinality(is \ {i})
      BY <2>1, <2>2, FS_Subset
    <2> QED BY <1>1, <1>2, <2>2, <2>3
  <1>4. ASSUME NEW i \in is, NEW j \in is, i < j
        PROVE  Cardinality(Below(is, i)) < Cardinality(Below(is, j))
    <2>1. Below(is, i) \cup {i} \subseteq Below(is, j) /\ i \notin Below(is, i)
      BY <1>2, <1>4 DEF Below
    <2>2. Cardinality(Below(is, i) \cup {i}) = Cardinality(Below(is, i)) + 1
      BY <1>1, <2>1, FS_AddElement
    <2>3. Cardinality(Below(is, i) \cup {i}) <= Cardinality(Below(is, j))
      BY <1>1, <2>1, FS_Subset
    <2> QED BY <1>1, <2>2, <2>3
  <1> QED BY <1>3, <1>4

\* At takes the elements by such a numbering.
LEMMA AtIs ==
    ASSUME NEW S, NEW s \in Seq(S), NEW is \in SUBSET (DOMAIN s)
    PROVE  /\ Cardinality(is) \in Nat
           /\ \E f : Numbers(f, is) /\ At(s, is) = [k \in 1..Cardinality(is) |-> s[f[k]]]
  <1> DEFINE n == Cardinality(is)
             nth(k) == CHOOSE i \in is : Cardinality({j \in is : j < i}) = k - 1
             f == [k \in 1..n |-> nth(k)]
             rank == [i \in is |-> Cardinality(Below(is, i))]
  <1>1. IsFiniteSet(is) /\ n \in Nat /\ is \subseteq Nat
    BY Positions
  <1>2. IsFiniteSet(0..(n - 1)) /\ Cardinality(0..(n - 1)) = n
    <2> HIDE DEF n
    <2>1. 0 \in Int /\ n - 1 \in Int
      BY <1>1
    <2>2. /\ IsFiniteSet(0..(n - 1))
          /\ Cardinality(0..(n - 1)) = IF 0 > n - 1 THEN 0 ELSE (n - 1) - 0 + 1
      BY <2>1, FS_Interval
    <2> QED BY <1>1, <2>2
  <1>3. rank \in [is -> 0..(n - 1)] /\ \A i, j \in is : i < j => rank[i] < rank[j]
    BY Ranks
  <1>4. \A i, j \in is : rank[i] = rank[j] => i = j
    <2> HIDE DEF rank, n
    <2> SUFFICES ASSUME NEW i \in is, NEW j \in is, rank[i] = rank[j], i # j PROVE FALSE
      OBVIOUS
    <2>1. i < j \/ j < i
      BY <1>1
    <2>2. rank[i] \in Int /\ rank[j] \in Int
      BY <1>1, <1>3
    <2> QED BY <1>3, <2>1, <2>2
  <1>5. \A r \in 0..(n - 1) : \E i \in is : rank[i] = r
    <2>1. rank \in Injection(is, 0..(n - 1))
      BY <1>3, <1>4 DEF Injection, IsInjective
    <2>2. rank \in Surjection(is, 0..(n - 1))
      BY <1>1, <1>2, <2>1, FS_Injection
    <2> QED BY <2>2 DEF Surjection
  <1>6. ASSUME NEW k \in 1..n PROVE nth(k) \in is /\ rank[nth(k)] = k - 1
    <2>1. k - 1 \in 0..(n - 1)
      BY <1>1
    <2>2. PICK i \in is : rank[i] = k - 1
      BY <1>5, <2>1
    <2>3. \A j \in is : rank[j] = Cardinality({l \in is : l < j})
      BY DEF Below
    <2>4. \E j \in is : Cardinality({l \in is : l < j}) = k - 1
      BY <2>2, <2>3
    <2>5. nth(k) \in is /\ Cardinality({l \in is : l < nth(k)}) = k - 1
      BY <2>4
    <2> HIDE DEF nth, rank
    <2> QED BY <2>3, <2>5
  <1> HIDE DEF nth, rank
  <1>7. f \in [1..n -> is]
    BY <1>6
  <1>8. ASSUME NEW k \in 1..n, NEW l \in 1..n, k < l PROVE f[k] < f[l]
    <2>1. f[k] \in is /\ f[l] \in is /\ rank[f[k]] = k - 1 /\ rank[f[l]] = l - 1
      BY <1>6
    <2>2. ~(rank[f[l]] <= rank[f[k]])
      BY <1>1, <1>8, <2>1
    <2>3. f[k] \in Nat /\ f[l] \in Nat
      BY <1>1, <2>1
    <2>4. CASE f[l] = f[k]
      BY <1>1, <1>8, <2>1, <2>4
    <2>5. CASE f[l] < f[k]
      BY <1>1, <1>3, <1>8, <2>1, <2>5
    <2> QED BY <2>3, <2>4, <2>5
  <1>9. ASSUME NEW i \in is PROVE \E k \in 1..n : f[k] = i
    <2>1. rank[i] \in 0..(n - 1)
      BY <1>3
    <2>2. rank[i] + 1 \in 1..n /\ (rank[i] + 1) - 1 = rank[i]
      BY <1>1, <2>1
    <2>3. nth(rank[i] + 1) \in is /\ rank[nth(rank[i] + 1)] = rank[i]
      BY <1>6, <2>2
    <2>4. nth(rank[i] + 1) = i
      BY <1>4, <2>3
    <2> QED BY <2>2, <2>4
  <1>10. At(s, is) = [k \in 1..n |-> s[f[k]]]
    BY DEF At, nth
  <1> HIDE DEF f
  <1>11. Numbers(f, is)
    BY <1>7, <1>8, <1>9 DEF Numbers
  <1> QED BY <1>1, <1>10, <1>11

\* A set of positions that is not empty has a first and a last.
LEMMA FirstOf ==
    ASSUME NEW S, NEW s \in Seq(S), NEW is \in SUBSET (DOMAIN s), is # {}
    PROVE  (\E i \in is : \A j \in is : i <= j) /\ (\E i \in is : \A j \in is : j <= i)
  <1> DEFINE n == Cardinality(is)
  <1>1. n \in Nat
    BY AtIs
  <1>2. PICK f : Numbers(f, is)
    BY AtIs
  <1>3. /\ f \in [1..n -> is] /\ \A k, l \in 1..n : k < l => f[k] < f[l]
        /\ \A i \in is : \E k \in 1..n : f[k] = i
    BY <1>2 DEF Numbers
  <1>4. is \subseteq Int
    BY Positions
  <1> HIDE DEF n
  <1>5. 1 \in 1..n /\ n \in 1..n
    <2>1. PICK k \in 1..n : TRUE
      BY <1>3
    <2> QED BY <1>1, <2>1
  <1>6. \A k \in 1..n : f[1] <= f[k] /\ f[k] <= f[n]
    <2> TAKE k \in 1..n
    <2>1. f[1] \in Int /\ f[k] \in Int /\ f[n] \in Int
      BY <1>3, <1>4, <1>5
    <2>2. k = 1 \/ 1 < k
      OBVIOUS
    <2>3. k = n \/ k < n
      BY <1>1
    <2>4. f[1] <= f[k]
      BY <1>3, <1>5, <2>1, <2>2
    <2>5. f[k] <= f[n]
      BY <1>3, <1>5, <2>1, <2>3
    <2> QED BY <2>4, <2>5
  <1>7. f[1] \in is /\ f[n] \in is
    BY <1>3, <1>5
  <1>8. ASSUME NEW j \in is PROVE f[1] <= j /\ j <= f[n]
    <2>1. PICK k \in 1..n : f[k] = j
      BY <1>3
    <2> QED BY <1>6, <2>1
  <1> QED BY <1>7, <1>8

\* All the positions give the sequence again.
LEMMA AtAll ==
    ASSUME NEW S, NEW s \in Seq(S)
    PROVE  At(s, DOMAIN s) = s
  <1> DEFINE n == Len(s)
  <1>1. DOMAIN s = 1..n /\ n \in Nat
    OBVIOUS
  <1> HIDE DEF n
  <1>2. Cardinality(1..n) = n
    <2>1. 1 \in Int /\ n \in Int
      BY <1>1
    <2>2. Cardinality(1..n) = IF 1 > n THEN 0 ELSE n - 1 + 1
      BY <2>1, FS_Interval
    <2> QED BY <1>1, <2>2
  <1>3. PICK f : Numbers(f, 1..n) /\ At(s, DOMAIN s) = [k \in 1..n |-> s[f[k]]]
    <2> DEFINE D == DOMAIN s
    <2>1. D \in SUBSET (DOMAIN s) /\ D = 1..n
      BY <1>1
    <2> HIDE DEF D
    <2>2. \E f : Numbers(f, D) /\ At(s, D) = [k \in 1..Cardinality(D) |-> s[f[k]]]
      BY <2>1, AtIs
    <2>3. \E f : Numbers(f, 1..n) /\ At(s, D) = [k \in 1..n |-> s[f[k]]]
      BY <1>2, <2>1, <2>2
    <2> QED BY <2>3 DEF D
  <1>4. /\ f \in [1..n -> 1..n] /\ \A k, l \in 1..n : k < l => f[k] < f[l]
        /\ \A i \in 1..n : \E k \in 1..n : f[k] = i
    BY <1>2, <1>3 DEF Numbers
  <1>5. \A k \in 1..n : f[k] = k
    <2> DEFINE T == {k \in 1..n : f[k] # k}
    <2> SUFFICES ASSUME T # {} PROVE FALSE
      OBVIOUS
    <2>1. T \in SUBSET (DOMAIN s)
      BY <1>1
    <2> HIDE DEF T
    <2>2. PICK k \in T : \A l \in T : k <= l
      BY <2>1, FirstOf
    <2> USE DEF T
    <2>3. \A l \in 1..n : l < k => f[l] = l
      BY <1>1, <2>2
    <2>4. k \in 1..n /\ f[k] # k /\ f[k] \in 1..n
      BY <1>4, <2>2
    <2>5. CASE f[k] < k
      BY <1>1, <1>4, <2>3, <2>4, <2>5
    <2>6. CASE f[k] > k
      <3>1. PICK l \in 1..n : f[l] = k
        BY <1>4, <2>4
      <3>2. l < k \/ l = k \/ l > k
        BY <1>1, <2>4
      <3>3. ~(l < k) /\ l # k
        BY <1>1, <2>3, <2>4, <3>1
      <3>4. f[k] < f[l]
        BY <1>4, <2>4, <3>1, <3>2, <3>3
      <3> QED BY <1>1, <2>4, <2>6, <3>1, <3>4
    <2> QED BY <1>1, <2>4, <2>5, <2>6
  <1>6. [k \in 1..n |-> s[f[k]]] = s
    BY <1>1, <1>5
  <1> QED BY <1>3, <1>6

\* What At returns has the elements at the positions and no others.
LEMMA AtElements ==
    ASSUME NEW S, NEW s \in Seq(S), NEW is \in SUBSET (DOMAIN s)
    PROVE  /\ At(s, is) \in Seq(S) /\ Len(At(s, is)) = Cardinality(is)
           /\ ToSet(At(s, is)) = {s[i] : i \in is}
  <1> DEFINE n == Cardinality(is)
  <1>1. n \in Nat
    BY AtIs
  <1>2. PICK f : Numbers(f, is) /\ At(s, is) = [k \in 1..n |-> s[f[k]]]
    BY AtIs
  <1>3. f \in [1..n -> is] /\ \A i \in is : \E k \in 1..n : f[k] = i
    BY <1>2 DEF Numbers
  <1> HIDE DEF n
  <1>4. \A k \in 1..n : f[k] \in is /\ s[f[k]] \in S
    <2>1. DOMAIN s = 1..Len(s)
      OBVIOUS
    <2> QED BY <1>3, <2>1
  <1>5. At(s, is) \in Seq(S) /\ Len(At(s, is)) = n /\ DOMAIN At(s, is) = 1..n
    BY <1>1, <1>2, <1>4
  <1>6. ToSet(At(s, is)) = {s[i] : i \in is}
    <2>1. ToSet(At(s, is)) = {At(s, is)[k] : k \in 1..n}
      BY <1>5 DEF ToSet
    <2>2. \A k \in 1..n : At(s, is)[k] = s[f[k]] /\ f[k] \in is
      BY <1>2, <1>3
    <2> QED BY <1>3, <2>1, <2>2
  <1> QED BY <1>5, <1>6 DEF n

\* The elements of sequences end to end.
LEMMA ConcatElements ==
    ASSUME NEW S, NEW s \in Seq(S), NEW t \in Seq(S)
    PROVE  s \o t \in Seq(S) /\ ToSet(s \o t) = ToSet(s) \cup ToSet(t)
  <1>1. /\ s \o t \in Seq(S) /\ Len(s \o t) = Len(s) + Len(t)
        /\ \A i \in 1..Len(s) + Len(t) : (s \o t)[i] = IF i <= Len(s) THEN s[i] ELSE t[i - Len(s)]
    BY ConcatProperties
  <1>2. /\ DOMAIN (s \o t) = 1..Len(s) + Len(t) /\ DOMAIN s = 1..Len(s) /\ DOMAIN t = 1..Len(t)
        /\ Len(s) \in Nat /\ Len(t) \in Nat
    BY <1>1
  <1>3. ASSUME NEW i \in DOMAIN (s \o t) PROVE (s \o t)[i] \in ToSet(s) \cup ToSet(t)
    <2>1. CASE i <= Len(s)
      BY <1>1, <1>2, <2>1 DEF ToSet
    <2>2. CASE ~(i <= Len(s))
      <3>1. i - Len(s) \in DOMAIN t /\ (s \o t)[i] = t[i - Len(s)]
        BY <1>1, <1>2, <2>2
      <3> QED BY <3>1 DEF ToSet
    <2> QED BY <2>1, <2>2
  <1>4. ASSUME NEW i \in DOMAIN s PROVE s[i] \in ToSet(s \o t)
    <2>1. i \in DOMAIN (s \o t) /\ (s \o t)[i] = s[i]
      BY <1>1, <1>2
    <2> QED BY <2>1 DEF ToSet
  <1>5. ASSUME NEW i \in DOMAIN t PROVE t[i] \in ToSet(s \o t)
    <2>1. Len(s) + i \in DOMAIN (s \o t) /\ (s \o t)[Len(s) + i] = t[i]
      BY <1>1, <1>2
    <2> QED BY <2>1 DEF ToSet
  <1>6. ToSet(s \o t) \subseteq ToSet(s) \cup ToSet(t)
    BY <1>3 DEF ToSet
  <1>7. ToSet(s) \subseteq ToSet(s \o t) /\ ToSet(t) \subseteq ToSet(s \o t)
    BY <1>4, <1>5 DEF ToSet
  <1> QED BY <1>1, <1>6, <1>7

LEMMA ConcatMore ==
    ASSUME NEW S, NEW a \in Seq(S), NEW b \in Seq(S), NEW c \in Seq(S), NEW d \in Seq(S)
    PROVE  /\ a \o b \o c \in Seq(S) /\ ToSet(a \o b \o c) = ToSet(a) \cup ToSet(b) \cup ToSet(c)
           /\ a \o b \o c \o d \in Seq(S)
           /\ ToSet(a \o b \o c \o d) = ToSet(a) \cup ToSet(b) \cup ToSet(c) \cup ToSet(d)
  <1> DEFINE ab == a \o b
             abc == ab \o c
  <1>1. ab \in Seq(S) /\ ToSet(ab) = ToSet(a) \cup ToSet(b)
    BY ConcatElements
  <1> HIDE DEF ab
  <1>2. abc \in Seq(S) /\ ToSet(abc) = ToSet(ab) \cup ToSet(c)
    BY <1>1, ConcatElements
  <1> HIDE DEF abc
  <1>3. abc \o d \in Seq(S) /\ ToSet(abc \o d) = ToSet(abc) \cup ToSet(d)
    BY <1>2, ConcatElements
  <1>4. /\ abc \in Seq(S) /\ ToSet(abc) = ToSet(a) \cup ToSet(b) \cup ToSet(c)
        /\ abc \o d \in Seq(S) /\ ToSet(abc \o d) = ToSet(a) \cup ToSet(b) \cup ToSet(c) \cup ToSet(d)
    BY <1>1, <1>2, <1>3
  <1> QED BY <1>4 DEF ab, abc

LEMMA AppendElements ==
    ASSUME NEW S, NEW s \in Seq(S), NEW e \in S
    PROVE  /\ Append(s, e) \in Seq(S) /\ ToSet(Append(s, e)) = ToSet(s) \cup {e}
           /\ Len(Append(s, e)) = Len(s) + 1 /\ Append(s, e)[Len(s) + 1] = e
           /\ \A i \in DOMAIN s : i \in DOMAIN Append(s, e) /\ Append(s, e)[i] = s[i]
           /\ DOMAIN Append(s, e) = DOMAIN s \cup {Len(s) + 1}
  <1>1. /\ Append(s, e) \in Seq(S) /\ Len(Append(s, e)) = Len(s) + 1
        /\ DOMAIN Append(s, e) = 1..(Len(s) + 1) /\ DOMAIN s = 1..Len(s) /\ Len(s) \in Nat
        /\ \A i \in 1..Len(s) : Append(s, e)[i] = s[i]
        /\ Append(s, e)[Len(s) + 1] = e
    OBVIOUS
  <1>2. DOMAIN Append(s, e) = DOMAIN s \cup {Len(s) + 1}
    BY <1>1
  <1> QED BY <1>1, <1>2 DEF ToSet

\* A sequence is what it has at its positions.
LEMMA MapElements ==
    ASSUME NEW S, NEW s \in Seq(S)
    PROVE  /\ ToSet(s) \subseteq S /\ \A i \in DOMAIN s : s[i] \in S /\ s[i] \in ToSet(s)
           /\ DOMAIN s = 1..Len(s) /\ Len(s) \in Nat
           /\ \A T, q : q \in [DOMAIN s -> T] => q \in Seq(T) /\ Len(q) = Len(s)
  BY DEF ToSet

-----------------------------------------------------------------------------
(* The steps of the plan. *)

Call(s) == <<s.tool, s.input>>
AllCalls == Tools \X Inputs

\* A pair is made of its two parts.
LEMMA PairIs ==
    ASSUME NEW A, NEW B, NEW c \in A \X B
    PROVE  c[1] \in A /\ c[2] \in B /\ c = <<c[1], c[2]>>
  OBVIOUS

\* Who a step may be appended by, and the groups there are.
Authors == Required \cup {"plan"}
Labels == {"", "snapshot", "followup", "pre"}

IsStep(e, c, by, group) ==
    /\ e \in StepType /\ Pending(e) /\ Call(e) = c
    /\ e.tool = c[1] /\ e.input = c[2] /\ e.by = by /\ e.group = group

\* A new step is pending.
LEMMA StepIs ==
    ASSUME NEW c \in AllCalls, NEW by \in Authors, NEW group \in Labels
    PROVE  IsStep(Step(c, by, group), c, by, group)
  <1>1. c[1] \in Tools /\ c[2] \in Inputs /\ c = <<c[1], c[2]>>
    BY PairIs DEF AllCalls
  <1>2. Step(c, by, group) \in StepType
    BY <1>1 DEF Step, StepType, Authors, Labels
  <1>3. /\ Step(c, by, group).tool = c[1] /\ Step(c, by, group).input = c[2]
        /\ Pending(Step(c, by, group))
        /\ Step(c, by, group).by = by /\ Step(c, by, group).group = group
    BY DEF Step, Pending
  <1>4. Call(Step(c, by, group)) = c
    BY <1>1, <1>3 DEF Call
  <1> QED BY <1>2, <1>3, <1>4 DEF IsStep

LEMMA ConstantsAre ==
    /\ LLMCalls \in Seq(AllCalls) /\ GapTools \in Seq(Tools)
    /\ \A i \in {1, 2} : GuardCalls[i] \in AllCalls
    /\ \A s \in Scenes : s \in SceneType
  BY CallType, SceneAssumption DEF AllCalls, GuardCalls, Tools, Inputs

\* What the operators say of a plan is said of its elements.
LEMMA Elements ==
    ASSUME NEW p \in Seq(StepType)
    PROVE  /\ \A t : HasTool(p, t) <=> \E s \in ToSet(p) : s.tool = t
           /\ \A t : PendingTool(p, t) <=> \E s \in ToSet(p) : Pending(s) /\ s.tool = t
           /\ \A c : PendingCall(p, c) <=> \E s \in ToSet(p) : Pending(s) /\ Call(s) = c
           /\ PendingRequired(p) <=> \E s \in ToSet(p) : Pending(s) /\ s.by \in Required
           /\ \A t : Collected(p, t) <=> \/ \E c \in completed : c[1] = t
                                         \/ \E s \in ToSet(p) : s.tool = t /\ s.done
           /\ PendingIn(p) = {} <=> \A s \in ToSet(p) : ~Pending(s)
           /\ PendingIn(p) \subseteq DOMAIN p
  <1>1. \A s : s \in ToSet(p) <=> \E i \in DOMAIN p : s = p[i]
    BY DEF ToSet
  <1>2. \A i : i \in PendingIn(p) <=> i \in DOMAIN p /\ Pending(p[i])
    BY DEF PendingIn
  <1>3. \A t : HasTool(p, t) <=> \E s \in ToSet(p) : s.tool = t
    BY <1>1 DEF HasTool
  <1>4. \A t : PendingTool(p, t) <=> \E s \in ToSet(p) : Pending(s) /\ s.tool = t
    BY <1>1, <1>2 DEF PendingTool
  <1>5. \A c : PendingCall(p, c) <=> \E s \in ToSet(p) : Pending(s) /\ Call(s) = c
    BY <1>1, <1>2 DEF PendingCall, Call
  <1>6. PendingRequired(p) <=> \E s \in ToSet(p) : Pending(s) /\ s.by \in Required
    BY <1>1, <1>2 DEF PendingRequired
  <1>7. \A t : Collected(p, t) <=> \/ \E c \in completed : c[1] = t
                                  \/ \E s \in ToSet(p) : s.tool = t /\ s.done
    BY <1>1 DEF Collected
  <1>8. PendingIn(p) = {} <=> \A s \in ToSet(p) : ~Pending(s)
    BY <1>1, <1>2
  <1> QED BY <1>2, <1>3, <1>4, <1>5, <1>6, <1>7, <1>8

\* A plan q that begins with p and goes on with steps of the set new.
Extends(q, p, new) ==
    /\ q \in Seq(StepType) /\ ToSet(q) \subseteq ToSet(p) \cup new /\ ToSet(p) \subseteq ToSet(q)
    /\ Len(p) <= Len(q) /\ \A i \in DOMAIN p : q[i] = p[i]
    /\ \A i \in DOMAIN q \ DOMAIN p : q[i] \in new

\* Appending steps extends the plan by them.
LEMMA Extended ==
    ASSUME NEW p \in Seq(StepType), NEW new \in SUBSET StepType, NEW r \in Seq(new)
    PROVE  Extends(p \o r, p, new) /\ ToSet(p \o r) = ToSet(p) \cup ToSet(r) /\ Len(p \o r) = Len(p) + Len(r)
  <1>1. r \in Seq(StepType)
    OBVIOUS
  <1>2. /\ p \o r \in Seq(StepType) /\ Len(p \o r) = Len(p) + Len(r)
        /\ \A i \in 1..Len(p) + Len(r) : (p \o r)[i] = IF i <= Len(p) THEN p[i] ELSE r[i - Len(p)]
    BY <1>1, ConcatProperties
  <1>3. ToSet(p \o r) = ToSet(p) \cup ToSet(r) /\ ToSet(r) \subseteq new
    BY <1>1, ConcatElements, MapElements
  <1>4. /\ DOMAIN (p \o r) = 1..Len(p) + Len(r) /\ DOMAIN p = 1..Len(p) /\ DOMAIN r = 1..Len(r)
        /\ Len(p) \in Nat /\ Len(r) \in Nat
    BY <1>1, <1>2
  <1>5. \A i \in DOMAIN p : (p \o r)[i] = p[i]
    BY <1>2, <1>4
  <1>6. ASSUME NEW i \in DOMAIN (p \o r) \ DOMAIN p PROVE (p \o r)[i] \in new
    <2>1. i - Len(p) \in DOMAIN r /\ (p \o r)[i] = r[i - Len(p)]
      BY <1>2, <1>4
    <2> QED BY <2>1
  <1> QED BY <1>2, <1>3, <1>4, <1>5, <1>6 DEF Extends

FollowUp(t) == Step(<<t, "plain">>, "plan", "followup")
Missing(p) == {t \in Tools : t \notin attempted /\ ~HasTool(p, t)}

\* What appendIfMissing appends: tools that were not tried and are not in the plan.
LEMMA MissingIs ==
    ASSUME NEW p \in Seq(StepType), NEW tools \in Seq(Tools), NEW wanted
    PROVE  Extends(AppendMissing(p, tools, wanted), p, {FollowUp(t) : t \in Missing(p)})
  <1> DEFINE is == Firsts(tools, {t \in wanted : t \notin attempted /\ ~HasTool(p, t)})
             got == At(tools, is)
             new == {FollowUp(t) : t \in Missing(p)}
             r == [k \in DOMAIN got |-> FollowUp(got[k])]
  <1>1. is \in SUBSET (DOMAIN tools)
    BY DEF Firsts
  <1>2. got \in Seq(Tools) /\ ToSet(got) = {tools[i] : i \in is}
    BY <1>1, AtElements
  <1>3. \A i \in is : tools[i] \in Missing(p)
    BY MapElements DEF Firsts, Missing
  <1> HIDE DEF is
  <1>4. \A k \in DOMAIN got : got[k] \in Missing(p)
    BY <1>2, <1>3 DEF ToSet
  <1>5. new \in SUBSET StepType
    <2> SUFFICES ASSUME NEW t \in Missing(p) PROVE FollowUp(t) \in StepType
      OBVIOUS
    <2>1. <<t, "plain">> \in AllCalls
      BY DEF Missing, AllCalls, Inputs
    <2>2. "plan" \in Authors /\ "followup" \in Labels
      BY DEF Authors, Labels
    <2>3. IsStep(FollowUp(t), <<t, "plain">>, "plan", "followup")
      BY <2>1, <2>2, StepIs DEF FollowUp
    <2> QED BY <2>3 DEF IsStep
  <1> HIDE DEF got
  <1>6. r \in [DOMAIN got -> new]
    BY <1>4
  <1>7. r \in Seq(new)
    BY <1>2, <1>6, MapElements
  <1>8. AppendMissing(p, tools, wanted) = p \o r
    BY DEF AppendMissing, FollowUp, got, is
  <1> HIDE DEF new, r
  <1>9. Extends(p \o r, p, new)
    BY <1>5, <1>7, Extended
  <1> QED BY <1>8, <1>9 DEF new

\* A step that is scheduled comes last, and may take skipped copies of it out.
LEMMA ScheduledIs ==
    ASSUME NEW p \in Seq(StepType), NEW s \in StepType
    PROVE  \E js \in SUBSET (DOMAIN p) :
              /\ Schedule(p, s) = Append(At(p, js), s)
              /\ \A i \in DOMAIN p \ js : p[i].skip /\ p[i].tool = s.tool
  <1> DEFINE copies == {[s EXCEPT !.skip = TRUE, !.by = b] : b \in {s.by, "plan"}}
             is == {i \in DOMAIN p : p[i] \notin copies}
  <1>1. \A c \in copies : c.skip /\ c.tool = s.tool
    BY DEF StepType
  <1>2. Schedule(p, s) = Append(IF Spent(s.tool) THEN At(p, is) ELSE p, s)
    BY DEF Schedule
  <1>3. is \in SUBSET (DOMAIN p) /\ \A i \in DOMAIN p \ is : p[i].skip /\ p[i].tool = s.tool
    BY <1>1
  <1> HIDE DEF copies, is
  <1>4. CASE Spent(s.tool)
    BY <1>2, <1>3, <1>4
  <1>5. CASE ~Spent(s.tool)
    <2>1. At(p, DOMAIN p) = p
      BY AtAll
    <2> QED BY <1>2, <1>5, <2>1
  <1> QED BY <1>4, <1>5

\* What a guard makes of a plan: it leaves it, where the call has answered or is
\* pending; or it appends the call, and may take an older, skipped copy of it out.
Guarded(q, p, c) ==
    \/ q = p /\ (Answered(c) \/ PendingCall(p, c))
    \/ /\ ~Answered(c) /\ ~PendingCall(p, c)
       /\ \E is \in SUBSET (DOMAIN p) :
             /\ q = Append(At(p, is), Step(c, "guard", ""))
             /\ \A i \in DOMAIN p \ is : p[i].skip /\ p[i].tool = c[1]

\* The guard loses no pending step, and afterwards its call is answered or planned.
LEMMA GuardIs ==
    ASSUME NEW p \in Seq(StepType), NEW c \in AllCalls
    PROVE  /\ Guarded(Guard(p, c), p, c)
           /\ Guard(p, c) \in Seq(StepType)
           /\ ToSet(Guard(p, c)) \subseteq ToSet(p) \cup {Step(c, "guard", "")}
           /\ \A s \in ToSet(p) : Pending(s) => s \in ToSet(Guard(p, c))
           /\ \A s \in ToSet(p) \ ToSet(Guard(p, c)) : s.skip /\ s.tool = c[1]
           /\ Answered(c) \/ PendingCall(Guard(p, c), c)
           /\ Guard(p, c) # p => Step(c, "guard", "") \in ToSet(Guard(p, c)) /\ ~Answered(c) /\ ~PendingCall(p, c)
  <1> DEFINE s0 == Step(c, "guard", "")
  <1>0. s0 \in StepType /\ Pending(s0) /\ Call(s0) = c /\ s0.tool = c[1]
    <2>1. "guard" \in Authors /\ "" \in Labels
      BY DEF Required, Adaptive, Authors, Labels
    <2>2. /\ Step(c, "guard", "") \in StepType /\ Pending(Step(c, "guard", ""))
          /\ Call(Step(c, "guard", "")) = c /\ Step(c, "guard", "").tool = c[1]
      <3>1. IsStep(Step(c, "guard", ""), c, "guard", "")
        BY <2>1, StepIs
      <3> QED BY <3>1, Zenon DEF IsStep
    <2> QED BY <2>2
  <1>1. CASE Answered(c) \/ PendingCall(p, c)
    <2>1. Guard(p, c) = p
      BY <1>1 DEF Guard
    <2> QED BY <1>1, <2>1 DEF Guarded
  <1>2. CASE ~(Answered(c) \/ PendingCall(p, c))
    <2> HIDE DEF s0
    <2>1. Guard(p, c) = Schedule(p, s0)
      BY <1>2 DEF Guard, s0
    <2>2. PICK js \in SUBSET (DOMAIN p) :
            /\ Schedule(p, s0) = Append(At(p, js), s0)
            /\ \A i \in DOMAIN p \ js : p[i].skip /\ p[i].tool = s0.tool
      BY <1>0, ScheduledIs
    <2>3. Guard(p, c) = Append(At(p, js), s0)
      BY <2>1, <2>2
    <2>4. \A i \in DOMAIN p \ js : p[i].skip /\ p[i].tool = c[1]
      BY <1>0, <2>2
    <2>5. Guarded(Guard(p, c), p, c)
      BY <1>2, <2>3, <2>4 DEF Guarded, s0
    <2>6. At(p, js) \in Seq(StepType) /\ ToSet(At(p, js)) = {p[i] : i \in js}
      BY AtElements
    <2>7. Guard(p, c) \in Seq(StepType) /\ ToSet(Guard(p, c)) = {p[i] : i \in js} \cup {s0}
      BY <1>0, <2>3, <2>6, AppendElements
    <2>8. \A s \in ToSet(p) \ {p[i] : i \in js} : s.skip /\ s.tool = c[1]
      BY <2>4 DEF ToSet
    <2>9. {p[i] : i \in js} \subseteq ToSet(p)
      BY DEF ToSet
    <2>10. PendingCall(Guard(p, c), c)
      BY <1>0, <2>7, Elements
    <2> QED
      BY <1>2, <2>5, <2>7, <2>8, <2>9, <2>10 DEF Pending, s0
  <1> QED BY <1>1, <1>2

LEMMA GuardCallsAre ==
    /\ GuardCalls[1] \in AllCalls /\ GuardCalls[2] \in AllCalls
    /\ DOMAIN GuardCalls = {1, 2} /\ GuardCalls[1] # GuardCalls[2]
    /\ ToSet(GuardCalls) = {GuardCalls[1], GuardCalls[2]}
  <1>1. GuardCalls[1] \in AllCalls /\ GuardCalls[2] \in AllCalls
    BY ConstantsAre
  <1>2. DOMAIN GuardCalls = {1, 2} /\ GuardCalls[1] # GuardCalls[2]
    BY DEF GuardCalls
  <1> QED BY <1>1, <1>2 DEF ToSet

GuardStep(c) == Step(c, "guard", "")
GuardSteps == {GuardStep(GuardCalls[1]), GuardStep(GuardCalls[2])}

\* If the guards leave the plan alone, their calls are answered or planned.
LEMMA EnsureIs ==
    ASSUME NEW p \in Seq(StepType)
    PROVE  /\ EnsureConfigEvidence(p) \in Seq(StepType)
           /\ ToSet(EnsureConfigEvidence(p)) \subseteq ToSet(p) \cup GuardSteps
           /\ EnsureConfigEvidence(p) = p /\ signal =>
                 \A i \in DOMAIN GuardCalls : Answered(GuardCalls[i]) \/ PendingCall(p, GuardCalls[i])
  <1> DEFINE c1 == GuardCalls[1]
             c2 == GuardCalls[2]
             p1 == Guard(p, c1)
             p2 == Guard(p1, c2)
  <1> HIDE DEF p1, p2, c1, c2
  <1>0. c1 \in AllCalls /\ c2 \in AllCalls
    BY GuardCallsAre DEF c1, c2
  <1>1. /\ p1 \in Seq(StepType) /\ ToSet(p1) \subseteq ToSet(p) \cup {GuardStep(c1)}
        /\ Answered(c1) \/ PendingCall(p1, c1)
        /\ p1 # p => ~Answered(c1) /\ ~PendingCall(p, c1)
    BY <1>0, GuardIs DEF p1, GuardStep
  <1>2. /\ p2 \in Seq(StepType) /\ ToSet(p2) \subseteq ToSet(p1) \cup {GuardStep(c2)}
        /\ Answered(c2) \/ PendingCall(p2, c2)
        /\ \A s \in ToSet(p1) : Pending(s) => s \in ToSet(p2)
    BY <1>0, <1>1, GuardIs DEF p2, GuardStep
  <1>3. Answered(c1) \/ PendingCall(p2, c1)
    BY <1>1, <1>2, Elements
  <1>4. EnsureConfigEvidence(p) = IF signal THEN p2 ELSE p
    BY DEF EnsureConfigEvidence, p1, p2, c1, c2
  <1>5. ToSet(p2) \subseteq ToSet(p) \cup GuardSteps
    BY <1>1, <1>2 DEF GuardSteps, c1, c2
  <1>6. p2 = p => \A i \in DOMAIN GuardCalls : Answered(GuardCalls[i]) \/ PendingCall(p, GuardCalls[i])
    BY <1>2, <1>3, GuardCallsAre DEF c1, c2
  <1> QED BY <1>2, <1>4, <1>5, <1>6

\* What nextPlanSteps takes is pending, and a step without a group is taken alone,
\* before any other that is pending.
LEMMA NextIs ==
    ASSUME NEW p \in Seq(StepType), PendingIn(p) # {}
    PROVE  /\ NextPlanSteps(p) \subseteq PendingIn(p) /\ NextPlanSteps(p) # {}
           /\ \A i \in NextPlanSteps(p) : p[i].group = "" =>
                 NextPlanSteps(p) = {i} /\ \A j \in PendingIn(p) : i <= j
  <1> DEFINE first == CHOOSE i \in PendingIn(p) : \A j \in PendingIn(p) : i <= j
  <1>1. PendingIn(p) \in SUBSET (DOMAIN p)
    BY Elements
  <1>2. \E i \in PendingIn(p) : \A j \in PendingIn(p) : i <= j
    BY <1>1, FirstOf
  <1>3. first \in PendingIn(p) /\ \A j \in PendingIn(p) : first <= j
    BY <1>2
  <1>4. NextPlanSteps(p) = {first} \cup {i \in PendingIn(p) : p[first].group # "" /\ p[i].group = p[first].group}
    BY DEF NextPlanSteps
  <1> HIDE DEF first
  <1> QED BY <1>3, <1>4

LEMMA SceneIs ==
    ASSUME scene \in Scenes
    PROVE  /\ scene.targets \in Seq(Tools) /\ scene.needs \in Seq(Tools) /\ scene.plan \in Seq(AllCalls)
           /\ scene.planner \in {"rule", "llm"} /\ scene.probe \in BOOLEAN /\ scene.config \in BOOLEAN
  BY ConstantsAre DEF SceneType, AllCalls

\* What applyTargetedEvidencePlan makes of a step: it is done, or it is skipped, or
\* it comes up again; one that was chosen belongs to the targeted evidence.
Revision(s, r, tried) ==
    /\ s \in StepType /\ Call(s) = Call(r) /\ s.tool = r.tool /\ s.done = r.done
    /\ s.by = r.by \/ (~Kept(r) /\ s.by = "pre" /\ s.tool \in Wanted(tried))
    /\ Pending(s) => s.by \in Required \/ s.tool = "runbook"
    /\ Kept(r) /\ ~r.done => Pending(s) /\ s.by = r.by

TargetStep(t) == Step(<<t, "plain">>, "pre", "pre")

\* The plan it returns, as its parts: the steps of p and the new ones.
LEMMA TargetedIs ==
    ASSUME NEW p \in Seq(StepType), NEW tried, scene \in Scenes
    PROVE  LET T == Targeted(p, tried)
           IN  /\ T.plan \in Seq(StepType) /\ T.changed \in BOOLEAN
               /\ \A s \in ToSet(T.plan) : \/ \E r \in ToSet(p) : Revision(s, r, tried)
                                           \/ \E t \in Wanted(tried) : s = TargetStep(t)
               /\ \A r \in ToSet(p) : Kept(r) /\ ~r.done =>
                     \E s \in ToSet(T.plan) : Pending(s) /\ Call(s) = Call(r) /\ s.by = r.by
               /\ ~T.changed => \A s \in ToSet(T.plan) : Pending(s) =>
                     \E r \in ToSet(p) : /\ Revision(s, r, tried)
                                         /\ \/ Pending(r) \/ (Kept(r) /\ ~r.done)
                                            \/ r.tool = "runbook" /\ "runbook" \notin ToSet(scene.targets) /\ s.by = r.by
  <1> DEFINE wanted   == Wanted(tried)
             open(i)  == ~p[i].done /\ ~Kept(p[i])
             first(i) == open(i) /\ \A j \in 1..(i - 1) : open(j) => p[j].tool # p[i].tool
             chosen(i) == first(i) /\ p[i].tool \in wanted
             hint(i)  == first(i) /\ p[i].tool = "runbook" /\ "runbook" \notin tried
             revised(i) ==
                 IF p[i].done THEN p[i]
                 ELSE IF ~open(i) \/ hint(i) THEN [p[i] EXCEPT !.skip = FALSE]
                 ELSE IF chosen(i) THEN [p[i] EXCEPT !.skip = FALSE, !.by = "pre", !.group = "pre"]
                 ELSE [p[i] EXCEPT !.skip = TRUE]
             want == {t \in wanted : ~\E i \in DOMAIN p : chosen(i) /\ p[i].tool = t}
             fis == Firsts(scene.targets, want)
             fresh == At(scene.targets, fis)
             selected(i) == ~p[i].done /\ (~open(i) \/ chosen(i))
             r == [i \in DOMAIN p |-> revised(i)]
             A == {i \in DOMAIN p : ~selected(i) /\ ~hint(i)}
             B == {i \in DOMAIN p : selected(i)}
             C == {i \in DOMAIN p : hint(i)}
             new == [k \in DOMAIN fresh |-> TargetStep(fresh[k])]
             T == Targeted(p, tried)
             changed == \/ fresh # <<>>
                        \/ \E i \in DOMAIN p : chosen(i) /\ p[i] # revised(i)
                        \/ \E i \in DOMAIN p : open(i) /\ ~chosen(i) /\ ~hint(i) /\ ~p[i].skip
  <1>1. /\ T.plan = At(r, A) \o At(r, B) \o new \o At(r, C)
        /\ T.changed = changed
    BY DEF Targeted, TargetStep
  <1>2. ASSUME NEW i \in DOMAIN p PROVE Revision(revised(i), p[i], tried)
    <2>1. p[i] \in StepType
      BY MapElements
    <2>2. CASE p[i].done
      <3>1. revised(i) = p[i]
        BY <2>2
      <3> HIDE DEF revised
      <3> QED BY <2>1, <2>2, <3>1 DEF Revision, Pending
    <2>3. CASE ~p[i].done /\ (Kept(p[i]) \/ hint(i))
      <3>1. revised(i) = [p[i] EXCEPT !.skip = FALSE] /\ (Kept(p[i]) \/ p[i].tool = "runbook")
        BY <2>3
      <3> HIDE DEF revised, hint
      <3>2. /\ revised(i) \in StepType /\ revised(i).tool = p[i].tool /\ revised(i).input = p[i].input
            /\ revised(i).by = p[i].by /\ revised(i).done = p[i].done /\ ~revised(i).skip
        BY <2>1, <3>1 DEF StepType
      <3> QED BY <2>3, <3>1, <3>2 DEF Revision, Pending, Kept, Required, Call
    <2>4. CASE ~p[i].done /\ ~Kept(p[i]) /\ ~hint(i) /\ chosen(i)
      <3>1. revised(i) = [p[i] EXCEPT !.skip = FALSE, !.by = "pre", !.group = "pre"] /\ p[i].tool \in wanted
        BY <2>4
      <3> HIDE DEF revised, hint, chosen
      <3>2. /\ revised(i) \in StepType /\ revised(i).tool = p[i].tool /\ revised(i).input = p[i].input
            /\ revised(i).by = "pre" /\ revised(i).done = p[i].done
        BY <2>1, <3>1 DEF StepType, Required
      <3> QED BY <2>4, <3>1, <3>2 DEF Revision, Required, Call
    <2>5. CASE ~p[i].done /\ ~Kept(p[i]) /\ ~hint(i) /\ ~chosen(i)
      <3>1. revised(i) = [p[i] EXCEPT !.skip = TRUE]
        BY <2>5
      <3> HIDE DEF revised, hint, chosen
      <3>2. /\ revised(i) \in StepType /\ revised(i).tool = p[i].tool /\ revised(i).input = p[i].input
            /\ revised(i).by = p[i].by /\ revised(i).done = p[i].done /\ revised(i).skip
        BY <2>1, <3>1 DEF StepType
      <3> QED BY <2>5, <3>2 DEF Revision, Call, Pending
    <2> HIDE DEF hint, chosen, revised
    <2> QED BY <2>2, <2>3, <2>4, <2>5
  <1>3. scene.targets \in Seq(Tools) /\ fis \in SUBSET (DOMAIN scene.targets)
        /\ \A i \in fis : scene.targets[i] \in wanted
    BY SceneIs DEF Firsts
  <1>4. fresh \in Seq(Tools) /\ \A k \in DOMAIN fresh : fresh[k] \in wanted /\ fresh[k] \in Tools
    <2> HIDE DEF fis, wanted
    <2>1. fresh \in Seq(Tools) /\ ToSet(fresh) = {scene.targets[i] : i \in fis}
      BY <1>3, AtElements
    <2>2. \A k \in DOMAIN fresh : fresh[k] \in ToSet(fresh) /\ fresh[k] \in Tools
      BY <2>1, MapElements
    <2> HIDE DEF fresh
    <2> QED BY <1>3, <2>1, <2>2
  <1>5. \A t \in Tools : TargetStep(t) \in StepType
    <2> TAKE t \in Tools
    <2>1. <<t, "plain">> \in AllCalls /\ "pre" \in Authors /\ "pre" \in Labels
      BY DEF AllCalls, Inputs, Required, Authors, Labels
    <2>2. IsStep(TargetStep(t), <<t, "plain">>, "pre", "pre")
      BY <2>1, StepIs DEF TargetStep
    <2> QED BY <2>2 DEF IsStep
  <1>6. new \in Seq(StepType) /\ ToSet(new) = {TargetStep(fresh[k]) : k \in DOMAIN fresh}
    <2> HIDE DEF fresh, wanted
    <2>1. new \in [DOMAIN fresh -> StepType]
      BY <1>4, <1>5
    <2>2. new \in Seq(StepType)
      BY <1>4, <2>1, MapElements
    <2> QED BY <2>2 DEF ToSet
  <1>7. r \in Seq(StepType) /\ DOMAIN r = DOMAIN p
    <2> HIDE DEF revised
    <2>1. r \in [DOMAIN p -> StepType]
      BY <1>2 DEF Revision
    <2> QED BY <2>1, MapElements
  <1>8. A \in SUBSET (DOMAIN r) /\ B \in SUBSET (DOMAIN r) /\ C \in SUBSET (DOMAIN r) /\ A \cup B \cup C = DOMAIN p
    <2> HIDE DEF selected, hint, r
    <2> QED BY <1>7
  <1>9. \A is \in SUBSET (DOMAIN r) : At(r, is) \in Seq(StepType) /\ ToSet(At(r, is)) = {revised(i) : i \in is}
    <2> HIDE DEF revised
    <2> TAKE is \in SUBSET (DOMAIN r)
    <2>1. At(r, is) \in Seq(StepType) /\ ToSet(At(r, is)) = {r[i] : i \in is}
      <3> HIDE DEF r
      <3> QED BY <1>7, AtElements
    <2> QED BY <2>1
  <1>10. /\ T.plan \in Seq(StepType)
         /\ ToSet(T.plan) = {revised(i) : i \in A} \cup {revised(i) : i \in B} \cup ToSet(new) \cup {revised(i) : i \in C}
    <2> DEFINE a == At(r, A)
               b == At(r, B)
               d == At(r, C)
    <2>1. /\ a \in Seq(StepType) /\ b \in Seq(StepType) /\ d \in Seq(StepType)
          /\ ToSet(a) = {revised(i) : i \in A} /\ ToSet(b) = {revised(i) : i \in B}
          /\ ToSet(d) = {revised(i) : i \in C}
      <3> HIDE DEF r, A, B, C, new, T, revised
      <3> QED BY <1>8, <1>9
    <2>2. T.plan = a \o b \o new \o d
      BY <1>1
    <2> HIDE DEF r, A, B, C, new, T, revised, a, b, d
    <2>3. new \in Seq(StepType)
      BY <1>6
    <2>4. /\ a \o b \o new \o d \in Seq(StepType)
          /\ ToSet(a \o b \o new \o d) = ToSet(a) \cup ToSet(b) \cup ToSet(new) \cup ToSet(d)
      BY <2>1, <2>3, ConcatMore
    <2> QED BY <2>1, <2>2, <2>4
  <1>11. \A s : s \in ToSet(T.plan) <=> \/ \E i \in DOMAIN p : s = revised(i)
                                        \/ \E k \in DOMAIN fresh : s = TargetStep(fresh[k])
    <2> HIDE DEF r, A, B, C, new, T, revised, fresh
    <2> QED BY <1>6, <1>8, <1>10
  <1>12. \A i \in DOMAIN p : p[i] \in ToSet(p)
    BY DEF ToSet
  <1>13. ASSUME NEW s \in ToSet(T.plan)
         PROVE  \/ \E q \in ToSet(p) : Revision(s, q, tried)
                \/ \E t \in Wanted(tried) : s = TargetStep(t)
    <2> HIDE DEF T, revised, fresh
    <2> QED BY <1>2, <1>4, <1>11, <1>12
  <1>14. ASSUME NEW q \in ToSet(p), Kept(q), ~q.done
         PROVE  \E s \in ToSet(T.plan) : Pending(s) /\ Call(s) = Call(q) /\ s.by = q.by
    <2> HIDE DEF T, revised, fresh
    <2>1. PICK i \in DOMAIN p : q = p[i]
      BY DEF ToSet
    <2>2. revised(i) \in ToSet(T.plan) /\ Revision(revised(i), q, tried)
      BY <1>2, <1>11, <2>1
    <2> QED BY <1>14, <2>2 DEF Revision
  <1>15. ASSUME ~T.changed, NEW s \in ToSet(T.plan), Pending(s)
         PROVE  \E q \in ToSet(p) : /\ Revision(s, q, tried)
                                    /\ \/ Pending(q) \/ (Kept(q) /\ ~q.done)
                                       \/ q.tool = "runbook" /\ "runbook" \notin ToSet(scene.targets) /\ s.by = q.by
    <2>0. ~changed
      BY <1>1, <1>15
    <2>1. DOMAIN fresh = {}
      <3>1. fresh = <<>>
        <4> HIDE DEF fresh, chosen, revised, open, hint
        <4> QED BY <2>0
      <3> HIDE DEF fresh
      <3> QED BY <3>1
    <2>2. PICK i \in DOMAIN p : s = revised(i)
      <3> HIDE DEF T, revised, fresh
      <3> QED BY <1>11, <2>1
    <2>3. Revision(s, p[i], tried) /\ p[i] \in ToSet(p) /\ p[i] \in StepType
      <3> HIDE DEF revised
      <3> QED BY <1>2, <1>12, <2>2, MapElements
    <2>4. ~p[i].done
      BY <1>15, <2>3 DEF Revision, Pending
    <2>5. CASE Kept(p[i])
      BY <2>3, <2>4, <2>5
    <2>6. CASE chosen(i)
      <3> HIDE DEF chosen, revised, fresh
      <3>1. revised(i) = p[i]
        BY <2>0, <2>6
      <3> QED BY <1>15, <2>2, <2>3, <3>1
    <2>7. CASE ~Kept(p[i]) /\ ~chosen(i) /\ hint(i)
      <3>1. p[i].tool = "runbook" /\ first(i)
        BY <2>7
      <3>2. "runbook" \notin ToSet(scene.targets)
        BY <2>7, <3>1 DEF Wanted
      <3>3. revised(i) = [p[i] EXCEPT !.skip = FALSE]
        BY <2>4, <2>7
      <3> HIDE DEF chosen, revised, fresh, hint, first
      <3>4. s.by = p[i].by
        BY <2>2, <2>3, <3>3 DEF StepType
      <3> QED BY <2>3, <3>1, <3>2, <3>4
    <2>8. CASE ~Kept(p[i]) /\ ~chosen(i) /\ ~hint(i)
      <3>1. revised(i) = [p[i] EXCEPT !.skip = TRUE]
        BY <2>4, <2>8
      <3> HIDE DEF chosen, revised, fresh, hint, first
      <3>2. s.skip
        BY <2>2, <2>3, <3>1 DEF StepType
      <3> QED BY <1>15, <3>2 DEF Pending
    <2> HIDE DEF chosen, revised, fresh, hint, first
    <2> QED BY <2>5, <2>6, <2>7, <2>8
  <1>16. T.changed \in BOOLEAN
    BY <1>1
  <1> HIDE DEF T
  <1>17. /\ T.plan \in Seq(StepType) /\ T.changed \in BOOLEAN
         /\ \A s \in ToSet(T.plan) : \/ \E q \in ToSet(p) : Revision(s, q, tried)
                                     \/ \E t \in Wanted(tried) : s = TargetStep(t)
         /\ \A q \in ToSet(p) : Kept(q) /\ ~q.done =>
               \E s \in ToSet(T.plan) : Pending(s) /\ Call(s) = Call(q) /\ s.by = q.by
         /\ ~T.changed => \A s \in ToSet(T.plan) : Pending(s) =>
               \E q \in ToSet(p) : /\ Revision(s, q, tried)
                                   /\ \/ Pending(q) \/ (Kept(q) /\ ~q.done)
                                      \/ q.tool = "runbook" /\ "runbook" \notin ToSet(scene.targets) /\ s.by = q.by
    BY <1>10, <1>13, <1>14, <1>15, <1>16
  <1> QED BY <1>17 DEF T

-----------------------------------------------------------------------------
(* The order of the guards' steps. *)

GuardTools == {"config", "runbook"}
PendingGuard(s) == Pending(s) /\ s.by = "guard"

\* Nothing that uses the tools of the guards comes up after a guard's step, but a
\* guard's step that asks for something else.
Follows(s, u) == PendingGuard(s) /\ Pending(u) /\ u.tool \in GuardTools =>
                     u.by = "guard" /\ Call(s) # Call(u)
Ordered(p) == \A i, j \in DOMAIN p : i < j => Follows(p[i], p[j])

\* Leaving steps out keeps the order.
LEMMA OrderedAt ==
    ASSUME NEW p \in Seq(StepType), Ordered(p), NEW is \in SUBSET (DOMAIN p)
    PROVE  Ordered(At(p, is))
  <1> DEFINE n == Cardinality(is)
             q == At(p, is)
  <1>1. PICK f : Numbers(f, is) /\ q = [k \in 1..n |-> p[f[k]]]
    BY AtIs
  <1>2. f \in [1..n -> is] /\ \A k, l \in 1..n : k < l => f[k] < f[l]
    BY <1>1 DEF Numbers
  <1> HIDE DEF n, q
  <1>3. ASSUME NEW k \in DOMAIN q, NEW l \in DOMAIN q, k < l PROVE Follows(q[k], q[l])
    <2>1. k \in 1..n /\ l \in 1..n /\ q[k] = p[f[k]] /\ q[l] = p[f[l]]
      BY <1>1
    <2>2. f[k] \in DOMAIN p /\ f[l] \in DOMAIN p /\ f[k] < f[l]
      BY <1>2, <1>3, <2>1
    <2> QED BY <2>1, <2>2 DEF Ordered
  <1>4. Ordered(q)
    BY <1>3 DEF Ordered
  <1> QED BY <1>4 DEF q

\* A step that is only skipped, marked or regrouped.
Later(s, r) == /\ s \in StepType /\ Call(s) = Call(r) /\ s.tool = r.tool /\ s.by = r.by
               /\ Pending(s) => Pending(r)

\* Steps that only get done, skipped or regrouped keep the order.
LEMMA OrderedMap ==
    ASSUME NEW p \in Seq(StepType), Ordered(p), NEW q \in Seq(StepType), DOMAIN q = DOMAIN p,
           \A i \in DOMAIN p : Later(q[i], p[i])
    PROVE  Ordered(q)
  <1> SUFFICES ASSUME NEW i \in DOMAIN q, NEW j \in DOMAIN q, i < j PROVE Follows(q[i], q[j])
    BY DEF Ordered
  <1>1. Follows(p[i], p[j]) /\ Later(q[i], p[i]) /\ Later(q[j], p[j])
    BY DEF Ordered
  <1> QED BY <1>1 DEF Later, Follows, PendingGuard

\* Two plans in order may be joined if nothing in the second disturbs the first.
LEMMA OrderedConcat ==
    ASSUME NEW a \in Seq(StepType), NEW b \in Seq(StepType), Ordered(a), Ordered(b),
           \A s \in ToSet(a), u \in ToSet(b) : Follows(s, u)
    PROVE  Ordered(a \o b)
  <1>1. /\ a \o b \in Seq(StepType) /\ Len(a \o b) = Len(a) + Len(b)
        /\ \A i \in 1..Len(a) + Len(b) : (a \o b)[i] = IF i <= Len(a) THEN a[i] ELSE b[i - Len(a)]
    BY ConcatProperties
  <1>2. /\ DOMAIN (a \o b) = 1..Len(a) + Len(b) /\ DOMAIN a = 1..Len(a) /\ DOMAIN b = 1..Len(b)
        /\ Len(a) \in Nat /\ Len(b) \in Nat
    BY <1>1
  <1> SUFFICES ASSUME NEW i \in DOMAIN (a \o b), NEW j \in DOMAIN (a \o b), i < j
               PROVE  Follows((a \o b)[i], (a \o b)[j])
    BY DEF Ordered
  <1>3. CASE j <= Len(a)
    <2>1. i \in DOMAIN a /\ j \in DOMAIN a /\ (a \o b)[i] = a[i] /\ (a \o b)[j] = a[j]
      BY <1>1, <1>2, <1>3
    <2> QED BY <2>1 DEF Ordered
  <1>4. CASE i <= Len(a) /\ ~(j <= Len(a))
    <2>1. i \in DOMAIN a /\ j - Len(a) \in DOMAIN b /\ (a \o b)[i] = a[i] /\ (a \o b)[j] = b[j - Len(a)]
      BY <1>1, <1>2, <1>4
    <2>2. a[i] \in ToSet(a) /\ b[j - Len(a)] \in ToSet(b)
      BY <2>1 DEF ToSet
    <2> QED BY <2>1, <2>2
  <1>5. CASE ~(i <= Len(a)) /\ ~(j <= Len(a))
    <2>1. /\ i - Len(a) \in DOMAIN b /\ j - Len(a) \in DOMAIN b /\ i - Len(a) < j - Len(a)
          /\ (a \o b)[i] = b[i - Len(a)] /\ (a \o b)[j] = b[j - Len(a)]
      BY <1>1, <1>2, <1>5
    <2> QED BY <2>1 DEF Ordered
  <1> QED BY <1>2, <1>3, <1>4, <1>5

\* So may a plan and one step.
LEMMA OrderedAppend ==
    ASSUME NEW p \in Seq(StepType), Ordered(p), NEW e \in StepType,
           \A s \in ToSet(p) : Follows(s, e)
    PROVE  Ordered(Append(p, e))
  <1> DEFINE q == Append(p, e)
  <1>1. /\ q \in Seq(StepType) /\ q[Len(p) + 1] = e /\ \A i \in DOMAIN p : q[i] = p[i]
        /\ DOMAIN q = DOMAIN p \cup {Len(p) + 1} /\ DOMAIN p = 1..Len(p) /\ Len(p) \in Nat
    BY AppendElements
  <1> HIDE DEF q
  <1>2. ASSUME NEW i \in DOMAIN q, NEW j \in DOMAIN q, i < j PROVE Follows(q[i], q[j])
    <2>1. i \in DOMAIN p
      BY <1>1, <1>2
    <2>2. CASE j \in DOMAIN p
      BY <1>1, <1>2, <2>1, <2>2 DEF Ordered
    <2>3. CASE j = Len(p) + 1
      BY <1>1, <2>1, <2>3 DEF ToSet
    <2> QED BY <1>1, <2>2, <2>3
  <1>3. Ordered(q)
    BY <1>2 DEF Ordered
  <1> QED BY <1>3 DEF q

-----------------------------------------------------------------------------
(* The evidence a probe asks for. *)

\* A step that a probe may have moved, or appended.
Same(s, r) == Later(s, r) /\ s.done = r.done /\ s.skip = r.skip /\ (s.group = r.group \/ s.group = "")
ProbeSteps == {Step(<<t, "plain">>, "plan", "") : t \in ProbeTools}

LEMMA ProbeStepIs ==
    ASSUME NEW t \in ProbeTools
    PROVE  LET e == Step(<<t, "plain">>, "plan", "")
           IN  /\ e \in StepType /\ e.tool = t /\ e.by = "plan" /\ e.group = "" /\ Pending(e)
               /\ Call(e) = <<t, "plain">>
  <1> DEFINE c == <<t, "plain">>
             e == Step(c, "plan", "")
  <1>1. c \in AllCalls /\ c[1] = t
    BY DEF AllCalls, Inputs, Tools, ProbeTools
  <1>2. "plan" \in Authors /\ "" \in Labels
    BY DEF Authors, Labels
  <1> HIDE DEF c
  <1>3. IsStep(e, c, "plan", "")
    BY <1>1, <1>2, StepIs
  <1>4. e \in StepType /\ e.tool = t /\ e.by = "plan" /\ e.group = "" /\ Pending(e) /\ Call(e) = c
    BY <1>1, <1>3, Zenon DEF IsStep
  <1> QED BY <1>4, Zenon DEF c

GuardsOnly(p) == \A s \in ToSet(p) : s.by = "guard" => s.tool \in GuardTools

\* A probe adds the steps it misses, loses no tool, and keeps the order.
LEMMA EnsuredIs ==
    ASSUME NEW p \in Seq(StepType), NEW t \in ProbeTools, NEW missing
    PROVE  /\ Ensured(p, t, missing) \in Seq(StepType)
           /\ \A r \in ToSet(p) : \E s \in ToSet(Ensured(p, t, missing)) : s.tool = r.tool
           /\ ToSet(Ensured(p, t, missing)) \subseteq ToSet(p) \cup ProbeSteps
           /\ Ordered(p) => Ordered(Ensured(p, t, missing))
  <1> DEFINE e == Step(<<t, "plain">>, "plan", "")
  <1>1. e \in StepType /\ e.tool = t /\ e \in ProbeSteps
    BY ProbeStepIs DEF ProbeSteps
  <1>2. Ensured(p, t, missing) = p \/ Ensured(p, t, missing) = Schedule(p, e)
    BY DEF Ensured
  <1> HIDE DEF e
  <1>3. PICK js \in SUBSET (DOMAIN p) :
          /\ Schedule(p, e) = Append(At(p, js), e)
          /\ \A i \in DOMAIN p \ js : p[i].skip /\ p[i].tool = e.tool
    BY <1>1, ScheduledIs
  <1> DEFINE q == At(p, js)
  <1>4. q \in Seq(StepType) /\ ToSet(q) = {p[i] : i \in js}
    BY AtElements
  <1>5. Ordered(p) => Ordered(q)
    BY OrderedAt
  <1> HIDE DEF q
  <1>6. /\ Append(q, e) \in Seq(StepType) /\ ToSet(Append(q, e)) = ToSet(q) \cup {e}
    BY <1>1, <1>4, AppendElements
  <1>7. Ordered(p) => Ordered(Append(q, e))
    <2>1. \A s \in ToSet(q) : Follows(s, e)
      BY <1>1 DEF Follows, ProbeTools, GuardTools
    <2> QED BY <1>1, <1>4, <1>5, <2>1, OrderedAppend
  <1>8. ToSet(q) \subseteq ToSet(p)
    BY <1>4 DEF ToSet
  <1>9. ASSUME NEW r \in ToSet(p) PROVE \E s \in ToSet(q) \cup {e} : s.tool = r.tool
    <2>1. PICK i \in DOMAIN p : r = p[i]
      BY DEF ToSet
    <2> QED BY <1>3, <1>4, <2>1
  <1>10. Schedule(p, e) = Append(q, e)
    BY <1>3 DEF q
  <1> QED BY <1>1, <1>2, <1>6, <1>7, <1>8, <1>9, <1>10

\* The plan of a probe has the steps that were there, the missing ones, and their order.
LEMMA ProbePlanIs ==
    ASSUME NEW p \in Seq(StepType)
    PROVE  /\ ProbePlan(p) \in Seq(StepType)
           /\ \A s \in ToSet(ProbePlan(p)) : \E r \in ToSet(p) \cup ProbeSteps : Same(s, r)
           /\ \A r \in ToSet(p) : \E s \in ToSet(ProbePlan(p)) : s.tool = r.tool
           /\ Ordered(p) /\ GuardsOnly(p) => Ordered(ProbePlan(p))
  <1> DEFINE missing == ProbeMissing(p)
             one == Ensured(p, "events", missing)
             all == Ensured(one, "logs", missing)
             fallback(i) == Pending(all[i]) /\ all[i].tool \in missing
             N == DOMAIN all \ PendingIn(all)
             F == {i \in DOMAIN all : fallback(i)}
             R == {i \in PendingIn(all) : ~fallback(i)}
             first == At(all, F)
             front == [k \in DOMAIN first |-> [first[k] EXCEPT !.group = ""]]
  <1>1. ProbePlan(p) = At(all, N) \o front \o At(all, R)
    BY DEF ProbePlan
  <1>2. missing \subseteq ProbeTools
    BY DEF ProbeMissing
  <1>3. /\ one \in Seq(StepType) /\ ToSet(one) \subseteq ToSet(p) \cup ProbeSteps
        /\ \A r \in ToSet(p) : \E s \in ToSet(one) : s.tool = r.tool
        /\ Ordered(p) => Ordered(one)
    <2> HIDE DEF missing
    <2> QED BY EnsuredIs DEF ProbeTools
  <1>4. /\ all \in Seq(StepType) /\ ToSet(all) \subseteq ToSet(one) \cup ProbeSteps
        /\ \A r \in ToSet(one) : \E s \in ToSet(all) : s.tool = r.tool
        /\ Ordered(one) => Ordered(all)
    <2> HIDE DEF missing, one
    <2> QED BY <1>3, EnsuredIs DEF ProbeTools
  <1> HIDE DEF missing, one, all
  <1>5. \A i \in DOMAIN all : all[i] \in StepType /\ all[i] \in ToSet(all)
    BY <1>4, MapElements
  <1>6. /\ N \in SUBSET (DOMAIN all) /\ F \in SUBSET (DOMAIN all) /\ R \in SUBSET (DOMAIN all)
        /\ N \cup F \cup R = DOMAIN all
        /\ \A i \in N : ~Pending(all[i])
        /\ \A i \in F : Pending(all[i]) /\ all[i].tool \in ProbeTools
    BY <1>2 DEF PendingIn
  <1> HIDE DEF N, F, R
  <1>7. /\ At(all, N) \in Seq(StepType) /\ ToSet(At(all, N)) = {all[i] : i \in N}
        /\ first \in Seq(StepType) /\ ToSet(first) = {all[i] : i \in F}
        /\ At(all, R) \in Seq(StepType) /\ ToSet(At(all, R)) = {all[i] : i \in R}
    BY <1>4, <1>6, AtElements
  <1> HIDE DEF first
  <1>8. ASSUME NEW k \in DOMAIN first PROVE front[k] \in StepType /\ Same(front[k], first[k])
    <2>1. first[k] \in StepType /\ front[k] = [first[k] EXCEPT !.group = ""]
      BY <1>7, MapElements
    <2> HIDE DEF front
    <2>2. /\ front[k] \in StepType /\ front[k].tool = first[k].tool /\ front[k].input = first[k].input
          /\ front[k].by = first[k].by /\ front[k].done = first[k].done /\ front[k].skip = first[k].skip
          /\ front[k].group = ""
      BY <2>1 DEF StepType
    <2> QED BY <2>2 DEF Same, Later, Call, Pending
  <1>9. front \in Seq(StepType) /\ DOMAIN front = DOMAIN first
    <2>1. front \in [DOMAIN first -> StepType]
      <3>1. DOMAIN front = DOMAIN first
        OBVIOUS
      <3>2. \A k \in DOMAIN first : front[k] \in StepType
        BY <1>8
      <3> QED BY <3>1, <3>2
    <2> HIDE DEF front
    <2> QED BY <1>7, <2>1, MapElements
  <1> HIDE DEF front
  <1>10. ToSet(front) = {front[k] : k \in DOMAIN first} /\ ToSet(first) = {first[k] : k \in DOMAIN first}
    BY <1>9 DEF ToSet
  <1> DEFINE a == At(all, N)
             d == At(all, R)
  <1>11. a \in Seq(StepType) /\ d \in Seq(StepType) /\ ProbePlan(p) = a \o front \o d
    BY <1>1, <1>7
  <1>12. ToSet(a) = {all[i] : i \in N} /\ ToSet(d) = {all[i] : i \in R}
    BY <1>7
  <1> HIDE DEF a, d
  <1>13. ProbePlan(p) \in Seq(StepType) /\ ToSet(ProbePlan(p)) = ToSet(a) \cup ToSet(front) \cup ToSet(d)
    BY <1>9, <1>11, ConcatMore
  <1>14. \A s \in ToSet(all) : Same(s, s)
    BY <1>4, MapElements DEF Same, Later
  <1>15. ASSUME NEW s \in ToSet(ProbePlan(p)) PROVE \E r \in ToSet(all) : Same(s, r)
    <2>1. CASE s \in ToSet(a) \cup ToSet(d)
      <3>1. s \in ToSet(all)
        BY <1>5, <1>6, <1>12, <2>1
      <3> QED BY <1>14, <3>1
    <2>2. CASE s \in ToSet(front)
      <3>1. PICK k \in DOMAIN first : s = front[k]
        BY <1>10, <2>2
      <3>2. Same(s, first[k]) /\ first[k] \in ToSet(all)
        BY <1>5, <1>6, <1>7, <1>8, <1>10, <3>1
      <3> QED BY <3>2
    <2> QED BY <1>13, <2>1, <2>2
  <1>16. ASSUME NEW r \in ToSet(all) PROVE \E s \in ToSet(ProbePlan(p)) : Same(s, r)
    <2>1. PICK i \in DOMAIN all : r = all[i]
      BY DEF ToSet
    <2>2. CASE i \in N \/ i \in R
      BY <1>12, <1>13, <1>14, <2>1, <2>2
    <2>3. CASE i \in F
      <3>1. PICK k \in DOMAIN first : r = first[k]
        BY <1>7, <1>10, <2>1, <2>3
      <3> QED BY <1>8, <1>10, <1>13, <3>1
    <2> QED BY <1>6, <2>1, <2>2, <2>3
  <1>17. ASSUME Ordered(p), GuardsOnly(p) PROVE Ordered(ProbePlan(p))
    <2>1. Ordered(all)
      BY <1>3, <1>4, <1>17
    <2>2. \A s \in ToSet(all) : s.by = "guard" => s.tool \in GuardTools
      <3>1. ASSUME NEW s \in ProbeSteps PROVE s.by = "plan"
        <4>1. PICK t \in ProbeTools : s = Step(<<t, "plain">>, "plan", "")
          BY DEF ProbeSteps
        <4> QED BY <4>1, ProbeStepIs
      <3> QED BY <1>3, <1>4, <1>17, <3>1 DEF GuardsOnly
    <2>3. Ordered(a) /\ Ordered(d) /\ Ordered(first)
      BY <1>4, <1>6, <2>1, OrderedAt DEF a, d, first
    <2>4. Ordered(front)
      BY <1>7, <1>8, <1>9, <2>3, OrderedMap DEF Same
    <2>5. \A s \in ToSet(a) : ~Pending(s)
      BY <1>6, <1>12
    <2>6. \A s \in ToSet(front) : s.tool \in ProbeTools /\ s.by # "guard"
      <3> SUFFICES ASSUME NEW k \in DOMAIN first PROVE front[k].tool \in ProbeTools /\ front[k].by # "guard"
        BY <1>10
      <3>1. first[k] \in ToSet(all) /\ first[k].tool \in ProbeTools
        BY <1>5, <1>6, <1>7, <1>10
      <3> QED BY <1>8, <2>2, <3>1 DEF Same, Later, ProbeTools, GuardTools
    <2>7. Ordered(a \o front)
      <3>1. \A s \in ToSet(a), u \in ToSet(front) : Follows(s, u)
        BY <2>5 DEF Follows, PendingGuard
      <3> QED BY <1>9, <1>11, <2>3, <2>4, <3>1, OrderedConcat
    <2>8. a \o front \in Seq(StepType) /\ ToSet(a \o front) = ToSet(a) \cup ToSet(front)
      BY <1>9, <1>11, ConcatElements
    <2>9. \A s \in ToSet(a \o front), u \in ToSet(d) : Follows(s, u)
      BY <2>5, <2>6, <2>8 DEF Follows, PendingGuard
    <2>10. Ordered((a \o front) \o d)
      <3> DEFINE af == a \o front
      <3> HIDE DEF af
      <3>1. Ordered(af \o d)
        BY <1>11, <2>3, <2>7, <2>8, <2>9, OrderedConcat DEF af
      <3> QED BY <3>1 DEF af
    <2> QED BY <1>11, <2>10
  <1>18. ASSUME NEW r \in ToSet(p) PROVE \E s \in ToSet(ProbePlan(p)) : s.tool = r.tool
    <2>1. PICK u \in ToSet(all) : u.tool = r.tool
      BY <1>3, <1>4
    <2> QED BY <1>16, <2>1 DEF Same, Later
  <1> QED BY <1>3, <1>4, <1>13, <1>15, <1>17, <1>18

-----------------------------------------------------------------------------
(* What every revision of the plan keeps. *)

\* A step may be in the plan: targeted evidence is one of the targets of the
\* scene, and what the guard of a configuration failure asks for is its own step
\* where the rules plan.
MayBePlanned(s) ==
    /\ s \in StepType
    /\ s.by = "pre" => s.tool \in ToSet(scene.targets)
    /\ scene.planner = "rule" /\ Call(s) \in ToSet(GuardCalls) => s.by = "guard"
Sound(p) == p \in Seq(StepType) /\ \A s \in ToSet(p) : MayBePlanned(s)

LEMMA PlainSteps ==
    ASSUME NEW t \in Tools, NEW by \in {"plan", "pre"}, NEW group \in Labels,
           by = "pre" => t \in ToSet(scene.targets)
    PROVE  MayBePlanned(Step(<<t, "plain">>, by, group))
  <1> DEFINE c == <<t, "plain">>
             e == Step(c, by, group)
  <1>1. c \in AllCalls /\ by \in Authors /\ c[1] = t
    BY DEF AllCalls, Inputs, Required, Authors
  <1>3. c \notin ToSet(GuardCalls)
    BY GuardCallsAre DEF GuardCalls
  <1> HIDE DEF c
  <1>2. e \in StepType /\ e.by = by /\ e.tool = c[1] /\ Call(e) = c
    <2>1. IsStep(e, c, by, group)
      BY <1>1, StepIs
    <2> QED BY <2>1, Zenon DEF IsStep
  <1> HIDE DEF e
  <1>4. MayBePlanned(e)
    BY <1>1, <1>2, <1>3 DEF MayBePlanned
  <1> QED BY <1>4, Zenon DEF c, e

\* A step may stay where its original may.
LEMMA SameIsPlanned ==
    ASSUME NEW r, MayBePlanned(r), NEW s, Later(s, r)
    PROVE  MayBePlanned(s)
  BY DEF MayBePlanned, Later

LEMMA SoundMap ==
    ASSUME NEW p, Sound(p), NEW q \in Seq(StepType), DOMAIN q = DOMAIN p,
           \A i \in DOMAIN p : Later(q[i], p[i])
    PROVE  Sound(q)
  <1> SUFFICES ASSUME NEW i \in DOMAIN q PROVE MayBePlanned(q[i])
    BY DEF Sound, ToSet
  <1>1. MayBePlanned(p[i])
    BY DEF Sound, ToSet
  <1> QED BY <1>1, SameIsPlanned

LEMMA SoundGuardStep ==
    ASSUME NEW c \in {GuardCalls[1], GuardCalls[2]}
    PROVE  /\ GuardStep(c) \in StepType /\ MayBePlanned(GuardStep(c)) /\ Pending(GuardStep(c))
           /\ Call(GuardStep(c)) = c /\ GuardStep(c).tool = c[1] /\ GuardStep(c).by = "guard"
           /\ GuardStep(c).group = ""
  <1> DEFINE e == GuardStep(c)
  <1>1. c \in AllCalls /\ "guard" \in Authors /\ "" \in Labels
    BY GuardCallsAre DEF Required, Adaptive, Authors, Labels
  <1>2. /\ e \in StepType /\ Pending(e) /\ Call(e) = c /\ e.tool = c[1] /\ e.by = "guard" /\ e.group = ""
    <2>1. IsStep(e, c, "guard", "")
      BY <1>1, StepIs DEF GuardStep
    <2> QED BY <2>1, Zenon DEF IsStep
  <1> HIDE DEF e
  <1>3. MayBePlanned(e)
    BY <1>2 DEF MayBePlanned
  <1> QED BY <1>2, <1>3 DEF e

\* The guards, the targeted plan, appendIfMissing, the probe and the LLM's
\* reflection each keep the plan sound.
LEMMA SoundEnsure ==
    ASSUME NEW p, Sound(p)
    PROVE  Sound(EnsureConfigEvidence(p))
  <1>1. p \in Seq(StepType) /\ \A s \in ToSet(p) : MayBePlanned(s)
    BY DEF Sound
  <1>2. /\ EnsureConfigEvidence(p) \in Seq(StepType)
        /\ ToSet(EnsureConfigEvidence(p)) \subseteq ToSet(p) \cup GuardSteps
    BY <1>1, EnsureIs
  <1>3. \A s \in GuardSteps : MayBePlanned(s)
    BY SoundGuardStep DEF GuardSteps
  <1> QED BY <1>1, <1>2, <1>3 DEF Sound

LEMMA SoundTargeted ==
    ASSUME NEW p, Sound(p), NEW tried, scene \in Scenes
    PROVE  Sound(Targeted(p, tried).plan)
  <1> DEFINE q == Targeted(p, tried).plan
  <1>1. p \in Seq(StepType) /\ \A s \in ToSet(p) : MayBePlanned(s)
    BY DEF Sound
  <1>2. /\ q \in Seq(StepType)
        /\ \A s \in ToSet(q) : \/ \E r \in ToSet(p) : Revision(s, r, tried)
                               \/ \E t \in Wanted(tried) : s = TargetStep(t)
    BY <1>1, TargetedIs
  <1> HIDE DEF q
  <1>3. Wanted(tried) \subseteq ToSet(scene.targets) /\ ToSet(scene.targets) \subseteq Tools
    BY SceneIs, MapElements DEF Wanted
  <1>4. ASSUME NEW s \in ToSet(q) PROVE MayBePlanned(s)
    <2>1. CASE \E r \in ToSet(p) : Revision(s, r, tried)
      <3>1. PICK r \in ToSet(p) : Revision(s, r, tried)
        BY <2>1
      <3>2. Kept(r) => r.by \in Adaptive
        BY DEF Kept
      <3> QED BY <1>1, <1>3, <3>1, <3>2 DEF MayBePlanned, Revision, Kept, Adaptive
    <2>2. CASE \E t \in Wanted(tried) : s = TargetStep(t)
      <3>1. "pre" \in Labels
        BY DEF Labels
      <3> QED BY <1>3, <2>2, <3>1, PlainSteps DEF TargetStep
    <2> QED BY <1>2, <2>1, <2>2
  <1>5. Sound(q)
    BY <1>2, <1>4 DEF Sound
  <1> QED BY <1>5 DEF q

LEMMA SoundMissing ==
    ASSUME NEW p, Sound(p), NEW tools \in Seq(Tools), NEW wanted
    PROVE  Sound(AppendMissing(p, tools, wanted))
  <1> DEFINE q == AppendMissing(p, tools, wanted)
  <1>1. p \in Seq(StepType) /\ \A s \in ToSet(p) : MayBePlanned(s)
    BY DEF Sound
  <1>2. q \in Seq(StepType) /\ ToSet(q) \subseteq ToSet(p) \cup {FollowUp(t) : t \in Missing(p)}
    BY <1>1, MissingIs DEF Extends
  <1>3. \A t \in Missing(p) : MayBePlanned(FollowUp(t))
    BY PlainSteps DEF Missing, FollowUp, Labels
  <1> HIDE DEF q
  <1>4. Sound(q)
    BY <1>1, <1>2, <1>3 DEF Sound
  <1> QED BY <1>4 DEF q

LEMMA SoundProbe ==
    ASSUME NEW p, Sound(p)
    PROVE  Sound(ProbePlan(p))
  <1>1. p \in Seq(StepType) /\ \A s \in ToSet(p) : MayBePlanned(s)
    BY DEF Sound
  <1>2. /\ ProbePlan(p) \in Seq(StepType)
        /\ \A s \in ToSet(ProbePlan(p)) : \E r \in ToSet(p) \cup ProbeSteps : Same(s, r)
    BY <1>1, ProbePlanIs
  <1>3. ASSUME NEW r \in ProbeSteps PROVE MayBePlanned(r)
    <2>1. PICK t \in ProbeTools : r = Step(<<t, "plain">>, "plan", "")
      BY DEF ProbeSteps
    <2> QED BY <2>1, PlainSteps DEF ProbeTools, Tools, Labels
  <1>4. ASSUME NEW s \in ToSet(ProbePlan(p)) PROVE MayBePlanned(s)
    <2>1. PICK r \in ToSet(p) \cup ProbeSteps : Same(s, r)
      BY <1>2
    <2> QED BY <1>1, <1>3, <2>1, SameIsPlanned DEF Same
  <1> QED BY <1>2, <1>4 DEF Sound

\* What enforceRuntimeEvidencePlan returns.
LEMMA EnforceIs ==
    ASSUME NEW p, Sound(p), scene \in Scenes, pinned \in BOOLEAN
    PROVE  /\ Sound(Enforce(p).plan) /\ Enforce(p).changed \in BOOLEAN /\ Enforce(p).refresh \in BOOLEAN
           /\ pinned => /\ Enforce(p).plan = Targeted(p, attempted).plan
                        /\ Enforce(p).changed = Targeted(p, attempted).changed /\ ~Enforce(p).refresh
           /\ ~pinned /\ ~Enforce(p).changed =>
                 /\ Enforce(p).plan = p /\ ~Enforce(p).refresh
                 /\ scene.probe /\ have => ProbeMissing(p) = {}
  <1>1. p \in Seq(StepType)
    BY DEF Sound
  <1>2. CASE pinned
    <2>1. Enforce(p) = [plan |-> Targeted(p, attempted).plan, changed |-> Targeted(p, attempted).changed, refresh |-> FALSE]
      BY <1>2 DEF Enforce
    <2>2. Sound(Targeted(p, attempted).plan) /\ Targeted(p, attempted).changed \in BOOLEAN
      BY <1>1, SoundTargeted, TargetedIs
    <2> QED BY <1>2, <2>1, <2>2
  <1>3. CASE ~pinned /\ scene.probe /\ have /\ ProbeMissing(p) # {}
    <2>1. Enforce(p) = [plan |-> ProbePlan(p), changed |-> TRUE, refresh |-> facts # {"events", "logs"}]
      BY <1>3 DEF Enforce
    <2>2. Sound(ProbePlan(p))
      BY SoundProbe
    <2>3. Enforce(p).plan = ProbePlan(p) /\ Enforce(p).changed = TRUE /\ Enforce(p).refresh \in BOOLEAN
      BY <2>1
    <2> QED BY <1>3, <2>2, <2>3
  <1>4. CASE ~pinned /\ ~(scene.probe /\ have /\ ProbeMissing(p) # {})
    <2> DEFINE q == IF have THEN AppendMissing(p, scene.needs, Tools) ELSE p
    <2>1. Enforce(p) = [plan |-> q, changed |-> q # p, refresh |-> FALSE]
      BY <1>4 DEF Enforce
    <2>2. Sound(q)
      BY SoundMissing, SceneIs
    <2> HIDE DEF q
    <2>3. Enforce(p).plan = q /\ Enforce(p).changed = (q # p) /\ Enforce(p).refresh = FALSE
      BY <2>1
    <2>4. Sound(Enforce(p).plan) /\ (~Enforce(p).changed => Enforce(p).plan = p)
      BY <2>2, <2>3
    <2> QED BY <1>4, <2>3, <2>4
  <1> QED BY <1>2, <1>3, <1>4

LEMMA SoundEvidence ==
    ASSUME NEW p, Sound(p), NEW wanted
    PROVE  Sound(AppendEvidence(p, wanted)) /\ Sound(Distinguish(p))
  BY SoundMissing, ConstantsAre DEF AppendEvidence, Distinguish

LEMMA SoundReflection ==
    ASSUME Sound(plan), scene.planner = "llm", budget.added \in 0..MaxReflectionSteps, NEW asked
    PROVE  /\ Sound(Reflection(asked))
           /\ Len(Reflection(asked)) - Len(plan) \in 0..(MaxReflectionSteps - budget.added)
  <1> DEFINE is == Firsts(LLMCalls, {c \in asked : ~Answered(c) /\ ~PendingCall(plan, c)})
             new == At(LLMCalls, is)
             room == MaxReflectionSteps - budget.added
             n == IF Len(new) < room THEN Len(new) ELSE room
             r == [k \in 1..n |-> Step(new[k], "reflection", "")]
             S == {s \in StepType : MayBePlanned(s)}
  <1>1. is \in SUBSET (DOMAIN LLMCalls) /\ LLMCalls \in Seq(AllCalls)
    BY ConstantsAre DEF Firsts
  <1> HIDE DEF is
  <1>2. new \in Seq(AllCalls)
    BY <1>1, AtElements
  <1> HIDE DEF new
  <1>3. n \in Nat /\ n <= Len(new) /\ n \in 0..room
    BY <1>2, BudgetType
  <1>4. Reflection(asked) = plan \o r
    BY DEF Reflection, new, is
  <1> HIDE DEF n
  <1>5. ASSUME NEW k \in 1..n PROVE Step(new[k], "reflection", "") \in S
    <2>1. new[k] \in AllCalls
      BY <1>2, <1>3
    <2>2. "reflection" \in Authors /\ "" \in Labels
      BY DEF Required, Adaptive, Authors, Labels
    <2> DEFINE e == Step(new[k], "reflection", "")
    <2>3. e \in StepType /\ e.by = "reflection"
      <3>1. IsStep(e, new[k], "reflection", "")
        BY <2>1, <2>2, StepIs
      <3> QED BY <3>1, Zenon DEF IsStep
    <2> HIDE DEF e
    <2>4. e \in S
      BY <2>3 DEF MayBePlanned
    <2> QED BY <2>4 DEF e
  <1>6. r \in Seq(S) /\ Len(r) = n
    <2> DEFINE g(k) == Step(new[k], "reflection", "")
    <2>1. r = [k \in 1..n |-> g(k)] /\ \A k \in 1..n : g(k) \in S
      BY <1>5
    <2> HIDE DEF g, r, S
    <2> QED BY <1>3, <2>1
  <1>7. plan \in Seq(StepType) /\ S \in SUBSET StepType
    BY DEF Sound
  <1> HIDE DEF r, S
  <1>8. plan \o r \in Seq(StepType) /\ ToSet(plan \o r) = ToSet(plan) \cup ToSet(r) /\ Len(plan \o r) = Len(plan) + Len(r)
    BY <1>6, <1>7, Extended DEF Extends
  <1>9. \A s \in ToSet(r) : MayBePlanned(s)
    BY <1>6, MapElements DEF S
  <1>10. Sound(plan \o r)
    BY <1>8, <1>9 DEF Sound
  <1>11. Len(plan \o r) - Len(plan) = n
    BY <1>6, <1>7, <1>8, <1>3, LenProperties
  <1> QED BY <1>3, <1>4, <1>10, <1>11 DEF room

\* A step that is skipped, marked or regrouped stays one.
LEMMA SkipIs ==
    ASSUME NEW s \in StepType
    PROVE  /\ [s EXCEPT !.skip = TRUE] \in StepType /\ Later([s EXCEPT !.skip = TRUE], s)
           /\ [s EXCEPT !.skip = TRUE].group = s.group /\ [s EXCEPT !.skip = TRUE].done = s.done
           /\ ~Pending([s EXCEPT !.skip = TRUE])
           /\ [s EXCEPT !.done = TRUE] \in StepType /\ Later([s EXCEPT !.done = TRUE], s)
           /\ [s EXCEPT !.done = TRUE].group = s.group /\ ~Pending([s EXCEPT !.done = TRUE])
           /\ [s EXCEPT !.group = "snapshot"] \in StepType /\ Later([s EXCEPT !.group = "snapshot"], s)
           /\ Later(s, s)
  <1>1. /\ [s EXCEPT !.skip = TRUE] \in StepType /\ Later([s EXCEPT !.skip = TRUE], s)
        /\ [s EXCEPT !.skip = TRUE].group = s.group /\ [s EXCEPT !.skip = TRUE].done = s.done
        /\ ~Pending([s EXCEPT !.skip = TRUE])
    BY DEF StepType, Later, Call, Pending
  <1>2. /\ [s EXCEPT !.done = TRUE] \in StepType /\ Later([s EXCEPT !.done = TRUE], s)
        /\ [s EXCEPT !.done = TRUE].group = s.group /\ ~Pending([s EXCEPT !.done = TRUE])
    BY DEF StepType, Later, Call, Pending
  <1>3. [s EXCEPT !.group = "snapshot"] \in StepType /\ Later([s EXCEPT !.group = "snapshot"], s)
    BY DEF StepType, Later, Call, Pending
  <1>4. Later(s, s)
    BY DEF Later
  <1> QED BY <1>1, <1>2, <1>3, <1>4

\* A plan of which some steps are skipped.
SkipsSome(q, p) ==
    /\ q \in Seq(StepType) /\ DOMAIN q = DOMAIN p
    /\ \A i \in DOMAIN p : q[i] = p[i] \/ q[i] = [p[i] EXCEPT !.skip = TRUE]

LEMMA SkipsAre ==
    ASSUME NEW p \in Seq(StepType), NEW is
    PROVE  SkipsSome([i \in DOMAIN p |-> IF i \in is THEN [p[i] EXCEPT !.skip = TRUE] ELSE p[i]], p)
  <1> DEFINE q == [i \in DOMAIN p |-> IF i \in is THEN [p[i] EXCEPT !.skip = TRUE] ELSE p[i]]
  <1>1. \A i \in DOMAIN p : q[i] \in StepType /\ (q[i] = p[i] \/ q[i] = [p[i] EXCEPT !.skip = TRUE])
    BY MapElements, SkipIs
  <1>2. q \in [DOMAIN p -> StepType] /\ DOMAIN q = DOMAIN p
    BY <1>1
  <1> HIDE DEF q
  <1>3. SkipsSome(q, p)
    BY <1>1, <1>2, MapElements DEF SkipsSome
  <1> QED BY <1>3 DEF q

\* A step that is skipped keeps its call, its origin and its group.
LEMMA SkipsLater ==
    ASSUME NEW p \in Seq(StepType), NEW q, SkipsSome(q, p)
    PROVE  \A i \in DOMAIN p : Later(q[i], p[i]) /\ q[i].group = p[i].group
  BY MapElements, SkipIs DEF SkipsSome

LEMMA SoundSkips ==
    ASSUME NEW p, Sound(p), NEW q, SkipsSome(q, p)
    PROVE  Sound(q)
  BY SoundMap, SkipsLater DEF Sound, SkipsSome

\* The echo of a plan by the LLM: nothing asks for its steps any more.
Echoed(q) == [i \in DOMAIN q |-> [q[i] EXCEPT !.by = "plan",
                                             !.group = IF q[i].tool \in Grouped THEN "snapshot" ELSE @]]

LEMMA SoundEcho ==
    ASSUME NEW p, Sound(p), scene.planner = "llm"
    PROVE  Sound(Echoed(p))
  <1> DEFINE q == Echoed(p)
             echo(s) == [s EXCEPT !.by = "plan", !.group = IF s.tool \in Grouped THEN "snapshot" ELSE @]
  <1>1. p \in Seq(StepType)
    BY DEF Sound
  <1>2. \A s \in StepType : echo(s) \in StepType /\ echo(s).by = "plan"
    BY DEF StepType
  <1>3. DOMAIN q = DOMAIN p /\ \A i \in DOMAIN p : q[i] = echo(p[i])
    BY DEF Echoed
  <1> HIDE DEF echo
  <1>4. \A i \in DOMAIN p : q[i] \in StepType /\ q[i].by = "plan"
    BY <1>1, <1>2, <1>3, MapElements
  <1>5. q \in [DOMAIN p -> StepType]
    BY <1>3, <1>4 DEF Echoed
  <1> HIDE DEF q
  <1>6. q \in Seq(StepType)
    BY <1>1, <1>5, MapElements
  <1>7. \A s \in ToSet(q) : s \in StepType /\ s.by = "plan"
    BY <1>3, <1>4 DEF ToSet
  <1>8. Sound(q)
    BY <1>6, <1>7 DEF Sound, MayBePlanned
  <1> QED BY <1>8 DEF q

LEMMA SoundRemove ==
    ASSUME NEW p, Sound(p), NEW i \in DOMAIN p
    PROVE  Sound(RemoveAt(p, i))
  <1> DEFINE a == SubSeq(p, 1, i - 1)
             b == SubSeq(p, i + 1, Len(p))
  <1>1. p \in Seq(StepType) /\ i \in 1..Len(p) /\ Len(p) \in Nat
    BY DEF Sound
  <1>2. /\ a \in Seq(StepType) /\ \A k \in DOMAIN a : \E j \in DOMAIN p : a[k] = p[j]
    BY <1>1
  <1>3. /\ b \in Seq(StepType) /\ \A k \in DOMAIN b : \E j \in DOMAIN p : b[k] = p[j]
    <2>1. i + 1 \in 1..(Len(p) + 1) /\ Len(p) \in (i + 1 - 1)..Len(p)
      BY <1>1
    <2>2. /\ b \in Seq(StepType) /\ Len(b) = Len(p) - (i + 1) + 1
          /\ \A k \in 1..(Len(p) - (i + 1) + 1) : b[k] = p[i + 1 + k - 1]
      BY <1>1, <2>1, SubSeqProperties
    <2> HIDE DEF b
    <2>3. \A k \in DOMAIN b : i + 1 + k - 1 \in DOMAIN p /\ b[k] = p[i + 1 + k - 1]
      BY <1>1, <2>2
    <2> QED BY <2>2, <2>3
  <1>4. RemoveAt(p, i) = a \o b
    BY DEF RemoveAt
  <1> HIDE DEF a, b
  <1>5. ToSet(a) \subseteq ToSet(p) /\ ToSet(b) \subseteq ToSet(p)
    BY <1>2, <1>3 DEF ToSet
  <1>6. a \o b \in Seq(StepType) /\ ToSet(a \o b) = ToSet(a) \cup ToSet(b)
    BY <1>2, <1>3, ConcatElements
  <1> QED BY <1>4, <1>5, <1>6 DEF Sound

\* Whatever a planner makes of a sound plan is sound.
LEMMA SoundAdjusted ==
    ASSUME NEW p, Sound(p), scene \in Scenes, NEW q \in Adjusted(p)
    PROVE  Sound(q)
  <1>1. p \in Seq(StepType)
    BY DEF Sound
  <1>2. CASE q \in RuleAdjusted(p) /\ last.success
    <2>1. PICK wanted \in SUBSET ToSet(GapTools) : q = AppendEvidence(p, wanted)
      BY <1>2 DEF RuleAdjusted
    <2> QED BY <2>1, SoundEvidence
  <1>3. CASE q \in RuleAdjusted(p) /\ ~last.success
    <2> DEFINE is == {i \in DOMAIN p : p[i].tool = last.tool /\ ~p[i].done}
    <2>1. q = [i \in DOMAIN p |-> IF p[i].tool = last.tool /\ ~p[i].done THEN [p[i] EXCEPT !.skip = TRUE] ELSE p[i]]
      BY <1>3 DEF RuleAdjusted
    <2>2. q = [i \in DOMAIN p |-> IF i \in is THEN [p[i] EXCEPT !.skip = TRUE] ELSE p[i]]
      BY <2>1
    <2> HIDE DEF is
    <2>3. SkipsSome(q, p)
      BY <1>1, <2>2, SkipsAre
    <2> QED BY <2>3, SoundSkips
  <1>4. CASE q \notin RuleAdjusted(p)
    <2>1. scene.planner = "llm" /\ q \in LLMAdjusted(p)
      BY <1>4 DEF Adjusted
    <2>2. PICK r : /\ q = Echoed(r)
                   /\ \/ r = p
                      \/ \E i \in DOMAIN p : r = RemoveAt(p, i)
                      \/ \E c \in ToSet(LLMCalls) : r = Append(p, Step(c, "plan", ""))
      <3> DEFINE echo(x) == [i \in DOMAIN x |->
                                [x[i] EXCEPT !.by = "plan",
                                             !.group = IF x[i].tool \in Grouped THEN "snapshot" ELSE @]]
                 dropped == IF Len(p) < 2 THEN {} ELSE {RemoveAt(p, i) : i \in DOMAIN p}
                 grown == {Append(p, Step(c, "plan", "")) : c \in ToSet(LLMCalls)}
      <3>1. LLMAdjusted(p) = {echo(x) : x \in {p} \cup dropped \cup grown}
        BY DEF LLMAdjusted
      <3>2. \A x : echo(x) = Echoed(x)
        BY DEF Echoed
      <3> HIDE DEF echo
      <3>3. PICK r \in {p} \cup dropped \cup grown : q = echo(r)
        <4> HIDE DEF dropped, grown
        <4> QED BY <2>1, <3>1
      <3>4. r = p \/ (\E i \in DOMAIN p : r = RemoveAt(p, i)) \/ (\E c \in ToSet(LLMCalls) : r = Append(p, Step(c, "plan", "")))
        BY <3>3
      <3> QED BY <3>2, <3>3, <3>4
    <2>3. CASE \E c \in ToSet(LLMCalls) : r = Append(p, Step(c, "plan", ""))
      <3>1. PICK c \in ToSet(LLMCalls) : r = Append(p, Step(c, "plan", ""))
        BY <2>3
      <3> DEFINE e == Step(c, "plan", "")
      <3>2. c \in AllCalls /\ "plan" \in Authors /\ "" \in Labels
        BY ConstantsAre, MapElements DEF Authors, Labels
      <3>3. e \in StepType /\ e.by = "plan"
        <4>1. IsStep(e, c, "plan", "")
          BY <3>2, StepIs
        <4> QED BY <4>1, Zenon DEF IsStep
      <3> HIDE DEF e
      <3>4. MayBePlanned(e)
        BY <2>1, <3>3 DEF MayBePlanned
      <3>5. Append(p, e) \in Seq(StepType) /\ ToSet(Append(p, e)) = ToSet(p) \cup {e}
        BY <1>1, <3>3, AppendElements
      <3>6. Sound(Append(p, e))
        BY <3>4, <3>5 DEF Sound
      <3> QED BY <2>1, <2>2, <3>1, <3>6, SoundEcho DEF e
    <2>4. CASE r = p \/ \E i \in DOMAIN p : r = RemoveAt(p, i)
      BY <2>1, <2>2, <2>4, SoundEcho, SoundRemove
    <2> QED BY <2>2, <2>3, <2>4
  <1> QED BY <1>2, <1>3, <1>4

\* dropCompletedSnapshotSteps only skips, and only what is answered.
LEMMA DropIs ==
    ASSUME NEW p \in Seq(StepType)
    PROVE  /\ SkipsSome(DropCompleted(p), p)
           /\ \A i \in DOMAIN p : ~Answered(Call(p[i])) => DropCompleted(p)[i] = p[i]
  <1> DEFINE is == {i \in DOMAIN p : p[i].tool \in SnapshotTools /\ ~p[i].done /\ Answered(Call(p[i]))}
  <1>1. DropCompleted(p) = [i \in DOMAIN p |-> IF i \in is THEN [p[i] EXCEPT !.skip = TRUE] ELSE p[i]]
    BY DEF DropCompleted, Call
  <1>2. \A i \in is : Answered(Call(p[i]))
    OBVIOUS
  <1> HIDE DEF is
  <1>3. SkipsSome(DropCompleted(p), p)
    BY <1>1, SkipsAre
  <1> QED BY <1>1, <1>2, <1>3

-----------------------------------------------------------------------------
(* The turn of the loop. *)

Batched ==
    /\ pc \notin {"budget", "execute"} => batch = {}
    /\ pc = "execute" => batch # {}
    /\ batch \subseteq PendingIn(plan)
    /\ \A i \in batch : plan[i].group = "" => batch = {i} /\ \A j \in PendingIn(plan) : i <= j
    /\ pinned => \A i \in batch : plan[i].by \in Required \/ plan[i].tool = "runbook"

Flow ==
    /\ pc # "stopped" => stop \in {"", "critical_tool_failed"}
    /\ pc = "reflect" => scene.planner = "llm"
    /\ \A c \in completed : c[1] \in attempted

AgentInv == AgentTypeOK /\ Sound(plan) /\ Batched /\ Flow

LEMMA SoundPrime ==
    ASSUME Sound(plan'), scene' = scene
    PROVE  Sound(plan)'
  BY DEF Sound, MayBePlanned

\* A step that leaves no batch keeps what is said of it.
LEMMA NoBatch ==
    ASSUME batch' = {}, pc' \notin {"budget", "execute"}
    PROVE  Batched'
  BY DEF Batched, PendingIn

LEMMA AgentInit == Init => AgentInv
  <1> SUFFICES ASSUME Init PROVE AgentInv
    OBVIOUS
  <1>1. /\ scene \in Scenes /\ plan = [i \in DOMAIN scene.plan |-> InitialStep(scene.plan[i])]
        /\ scene.plan \in Seq(AllCalls)
    BY SceneIs DEF Init
  <1>2. ASSUME NEW i \in DOMAIN scene.plan
        PROVE  InitialStep(scene.plan[i]) \in StepType /\ MayBePlanned(InitialStep(scene.plan[i]))
    <2> DEFINE c == scene.plan[i]
               e == InitialStep(c)
    <2>1. c \in AllCalls /\ c \in ToSet(scene.plan)
      BY <1>1, MapElements
    <2>2. "plan" \in Authors /\ (IF c[1] \in Grouped THEN "snapshot" ELSE "") \in Labels
      BY DEF Authors, Labels
    <2> HIDE DEF c
    <2>3. e \in StepType /\ e.by = "plan" /\ Call(e) = c
      <3>1. IsStep(e, c, "plan", IF c[1] \in Grouped THEN "snapshot" ELSE "")
        BY <2>1, <2>2, StepIs DEF InitialStep
      <3> QED BY <3>1, Zenon DEF IsStep
    <2>4. scene.planner = "rule" => c \notin ToSet(GuardCalls)
      BY <1>1, <2>1, PlanAssumption
    <2> HIDE DEF e
    <2>5. MayBePlanned(e)
      BY <2>3, <2>4 DEF MayBePlanned
    <2> QED BY <2>3, <2>5 DEF c, e
  <1>3. plan \in Seq(StepType) /\ DOMAIN plan = DOMAIN scene.plan
    <2>1. plan \in [DOMAIN scene.plan -> StepType]
      BY <1>1, <1>2
    <2> QED BY <1>1, <2>1, MapElements
  <1>4. Sound(plan)
    BY <1>1, <1>2, <1>3 DEF Sound, ToSet
  <1>5. AgentTypeOK
    <2>1. /\ pc = "select" /\ batch = {} /\ last = [tool |-> "pod", success |-> TRUE] /\ verdict = Undecided
          /\ pinned = FALSE /\ reflected = "none" /\ stop = ""
          /\ budget = [steps |-> 0, rounds |-> 0, added |-> 0, calls |-> [t \in Tools |-> 0]]
          /\ attempted = {} /\ completed = {} /\ have = FALSE /\ facts = {} /\ signal = FALSE /\ denied = {}
      BY DEF Init
    <2>2. verdict \in VerdictType
      BY <2>1 DEF Undecided, VerdictType
    <2>3. budget \in [steps: Nat, rounds: 0..MaxReflectionRounds, added: 0..MaxReflectionSteps,
                      calls: [Tools -> 0..MaxToolCallsPerTool]]
      <3>1. 0 \in 0..MaxReflectionRounds /\ 0 \in 0..MaxReflectionSteps /\ 0 \in 0..MaxToolCallsPerTool
        BY BudgetType
      <3>2. [t \in Tools |-> 0] \in [Tools -> 0..MaxToolCallsPerTool]
        BY <3>1
      <3> QED BY <2>1, <3>1, <3>2
    <2>4. last \in [tool: Tools, success: BOOLEAN]
      BY <2>1 DEF Tools
    <2> QED BY <1>1, <1>3, <2>1, <2>2, <2>3, <2>4 DEF AgentTypeOK, StopReasons
  <1>6. Batched /\ Flow
    BY DEF Init, Batched, Flow
  <1> QED BY <1>4, <1>5, <1>6 DEF AgentInv

\* What the proofs of the steps use of AgentInv.
LEMMA AgentParts ==
    ASSUME AgentInv
    PROVE  /\ scene \in Scenes /\ Sound(plan) /\ plan \in Seq(StepType) /\ pinned \in BOOLEAN
           /\ have \in BOOLEAN /\ signal \in BOOLEAN /\ facts \subseteq {"events", "logs"}
           /\ verdict \in VerdictType /\ batch \subseteq DOMAIN plan /\ stop \in StopReasons
           /\ budget \in [steps: Nat, rounds: 0..MaxReflectionRounds, added: 0..MaxReflectionSteps,
                          calls: [Tools -> 0..MaxToolCallsPerTool]]
           /\ attempted \subseteq Tools /\ completed \subseteq Tools \X Inputs
  BY DEF AgentInv, AgentTypeOK

LEMMA UndecidedType == Undecided \in VerdictType
  BY DEF Undecided, VerdictType

\* Steps that end the turn, or the run: they may revise the plan, and throw the
\* context away.
LEMMA TurnEnds ==
    ASSUME AgentInv, Sound(plan'), batch' = {}, verdict' \in VerdictType,
           pc' \in {"select", "decide", "stopped"}, stop' \in StopReasons,
           pc' # "stopped" => stop' \in {"", "critical_tool_failed"},
           reflected' \in {"none", "continue", "stop"}, have' \in BOOLEAN, facts' \subseteq {"events", "logs"},
           budget' \in [steps: Nat, rounds: 0..MaxReflectionRounds, added: 0..MaxReflectionSteps,
                        calls: [Tools -> 0..MaxToolCallsPerTool]],
           UNCHANGED <<scene, last, pinned, attempted, completed, signal, denied>>
    PROVE  AgentInv'
  <1>1. plan' \in Seq(StepType)
    BY DEF Sound
  <1>2. AgentTypeOK'
    BY <1>1 DEF AgentInv, AgentTypeOK
  <1>3. Batched'
    BY NoBatch
  <1>4. Flow'
    BY DEF AgentInv, Flow
  <1>5. Sound(plan)'
    BY SoundPrime
  <1> QED BY <1>2, <1>3, <1>4, <1>5 DEF AgentInv

LEMMA RefreshTypes ==
    ASSUME AgentInv, NEW e, e.refresh \in BOOLEAN, Refresh(e)
    PROVE  have' \in BOOLEAN /\ facts' \subseteq {"events", "logs"} /\ UNCHANGED <<attempted, completed, signal>>
  BY AgentParts DEF Refresh

LEMMA StoppedTypes ==
    ASSUME NEW reason \in StopReasons, Stopped(reason)
    PROVE  /\ pc' = "stopped" /\ stop' = reason /\ batch' = {} /\ verdict' \in VerdictType
           /\ stop' \in StopReasons /\ (pc' # "stopped" => stop' \in {"", "critical_tool_failed"})
  BY UndecidedType DEF Stopped

LEMMA NextTurnTypes ==
    ASSUME AgentInv, NextTurn
    PROVE  /\ pc' \in {"select", "stopped"} /\ stop' = stop /\ batch' = {} /\ verdict' \in VerdictType
           /\ stop' \in StopReasons /\ (pc' # "stopped" => stop' \in {"", "critical_tool_failed"})
  BY AgentParts, UndecidedType DEF NextTurn

\* Each action keeps AgentInv.
LEMMA InvTimeout ==
    ASSUME AgentInv, Timeout \/ ReachMaxSteps
    PROVE  AgentInv'
  <1>1. PICK reason \in {"timeout", "max_steps"} : Stopped(reason)
    BY DEF Timeout, ReachMaxSteps
  <1>2. /\ UNCHANGED <<scene, plan, last, pinned, reflected, budget, denied>>
        /\ UNCHANGED <<attempted, completed, have, facts, signal>>
    BY DEF Timeout, ReachMaxSteps, evidenceVars
  <1>3. reason \in StopReasons
    BY DEF StopReasons
  <1>4. reflected \in {"none", "continue", "stop"}
    BY DEF AgentInv, AgentTypeOK
  <1>5. /\ pc' = "stopped" /\ batch' = {} /\ verdict' \in VerdictType /\ stop' \in StopReasons
    BY <1>1, <1>3, StoppedTypes
  <1>6. Sound(plan')
    BY <1>2, AgentParts
  <1> QED BY <1>2, <1>4, <1>5, <1>6, AgentParts, TurnEnds

\* The plan of a turn is sound, and once pinned has only required steps and the
\* runbook pending.
LEMMA SoundTurn ==
    ASSUME AgentInv
    PROVE  /\ Sound(TurnPlan)
           /\ pinned => \A s \in ToSet(TurnPlan) : Pending(s) => s.by \in Required \/ s.tool = "runbook"
  <1> DEFINE q == IF pinned THEN Targeted(plan, attempted).plan ELSE plan
  <1>1. TurnPlan = EnsureConfigEvidence(q)
    BY DEF TurnPlan
  <1>2. Sound(q)
    BY AgentParts, SoundTargeted
  <1>3. ASSUME pinned, NEW s \in ToSet(q), Pending(s) PROVE s.by \in Required \/ s.tool = "runbook"
    <2>1. q = Targeted(plan, attempted).plan
      BY <1>3
    <2>2. (\E r \in ToSet(plan) : Revision(s, r, attempted)) \/ \E t \in Wanted(attempted) : s = TargetStep(t)
      <3> HIDE DEF q
      <3>1. \A u \in ToSet(Targeted(plan, attempted).plan) :
               \/ \E r \in ToSet(plan) : Revision(u, r, attempted)
               \/ \E t \in Wanted(attempted) : u = TargetStep(t)
        BY AgentParts, TargetedIs
      <3>2. s \in ToSet(Targeted(plan, attempted).plan)
        BY <1>3, <2>1
      <3> QED BY <3>1, <3>2
    <2>3. CASE \E t \in Wanted(attempted) : s = TargetStep(t)
      BY <2>3 DEF TargetStep, Step, Required
    <2> QED BY <1>3, <2>2, <2>3 DEF Revision
  <1> HIDE DEF q
  <1>4. Sound(TurnPlan)
    BY <1>1, <1>2, SoundEnsure
  <1>5. \A s \in ToSet(TurnPlan) : s \in ToSet(q) \cup GuardSteps
    BY <1>1, <1>2, EnsureIs DEF Sound
  <1>6. \A s \in GuardSteps : s.by \in Required
    BY SoundGuardStep DEF GuardSteps, Required, Adaptive
  <1> QED BY <1>3, <1>4, <1>5, <1>6

LEMMA InvSelect ==
    ASSUME AgentInv, Select
    PROVE  AgentInv'
  <1> DEFINE p == TurnPlan
  <1>1. /\ PendingIn(p) # {} /\ plan' = p /\ batch' = NextPlanSteps(p) /\ pc' = "budget" /\ pc = "select"
        /\ UNCHANGED <<scene, last, verdict, pinned, reflected, stop, budget, denied>>
        /\ UNCHANGED <<attempted, completed, have, facts, signal>>
    BY DEF Select, evidenceVars
  <1>2. /\ Sound(p) /\ (pinned => \A s \in ToSet(p) : Pending(s) => s.by \in Required \/ s.tool = "runbook")
    BY SoundTurn
  <1> HIDE DEF p
  <1>3. p \in Seq(StepType)
    BY <1>2 DEF Sound
  <1>4. /\ batch' \subseteq PendingIn(p) /\ batch' # {}
        /\ \A i \in batch' : p[i].group = "" => batch' = {i} /\ \A j \in PendingIn(p) : i <= j
    BY <1>1, <1>3, NextIs
  <1>5. PendingIn(p) \subseteq DOMAIN p /\ \A i \in PendingIn(p) : Pending(p[i]) /\ p[i] \in ToSet(p)
    BY DEF PendingIn, ToSet
  <1>6. AgentTypeOK'
    BY <1>1, <1>3, <1>4, <1>5 DEF AgentInv, AgentTypeOK
  <1>7. PendingIn(plan)' = PendingIn(p)
    BY <1>1 DEF PendingIn
  <1>8. Batched'
    BY <1>1, <1>2, <1>4, <1>5, <1>7 DEF Batched
  <1>9. Flow'
    BY <1>1 DEF AgentInv, Flow
  <1> QED BY <1>1, <1>2, <1>6, <1>8, <1>9, SoundPrime DEF AgentInv

LEMMA InvExhaust ==
    ASSUME AgentInv, Exhaust
    PROVE  AgentInv'
  <1>1. PICK e \in {Enforce(TurnPlan)} :
            /\ plan' = e.plan /\ Refresh(e) /\ (IF e.changed THEN NextTurn ELSE Stopped("plan_complete"))
    BY DEF Exhaust
  <1>2. UNCHANGED <<scene, last, pinned, reflected, budget, denied>>
    BY DEF Exhaust
  <1>3. Sound(e.plan) /\ e.refresh \in BOOLEAN
    BY SoundTurn, AgentParts, EnforceIs
  <1>4. have' \in BOOLEAN /\ facts' \subseteq {"events", "logs"} /\ UNCHANGED <<attempted, completed, signal>>
    BY <1>1, <1>3, RefreshTypes
  <1>5. /\ pc' \in {"select", "stopped"} /\ batch' = {} /\ verdict' \in VerdictType /\ stop' \in StopReasons
        /\ (pc' # "stopped" => stop' \in {"", "critical_tool_failed"})
    <2>1. "plan_complete" \in StopReasons
      BY DEF StopReasons
    <2> QED BY <1>1, <2>1, NextTurnTypes, StoppedTypes
  <1>6. reflected \in {"none", "continue", "stop"}
    BY DEF AgentInv, AgentTypeOK
  <1>7. Sound(plan')
    BY <1>1, <1>3
  <1> QED BY <1>2, <1>4, <1>5, <1>6, <1>7, AgentParts, TurnEnds

\* No tool is called more often than its limit: of the calls let through, the
\* last was under the budget with all those before it.
LEMMA MadeFits ==
    ASSUME NEW p \in Seq(StepType), NEW is \in SUBSET (DOMAIN p), NEW t, NEW n \in Nat, NEW over,
           \A i \in is : i \notin over =>
               n + Cardinality({j \in is : j < i /\ p[j].tool = p[i].tool}) < Limit(p[i].tool) \/ p[i].tool # t
    PROVE  LET made == Cardinality({i \in is \ over : p[i].tool = t})
           IN  made \in Nat /\ (made = 0 \/ n + made \in 0..MaxToolCallsPerTool)
  <1> DEFINE M == {i \in is \ over : p[i].tool = t}
  <1>0. Limit(t) \in Nat /\ Limit(t) <= MaxToolCallsPerTool /\ MaxToolCallsPerTool \in Nat
    BY BudgetType DEF Limit
  <1>1. IsFiniteSet(M) /\ Cardinality(M) \in Nat /\ M \subseteq Nat /\ M \in SUBSET (DOMAIN p)
    <2>1. M \in SUBSET (DOMAIN p)
      OBVIOUS
    <2> HIDE DEF M
    <2> QED BY <2>1, Positions
  <1>2. CASE M = {}
    <2>1. Cardinality(M) = 0
      BY <1>2, FS_EmptySet
    <2> QED BY <2>1
  <1>3. CASE M # {}
    <2>1. PICK m \in M : \A i \in M : i <= m
      <3> HIDE DEF M
      <3> QED BY <1>1, <1>3, FirstOf
    <2> DEFINE E == {j \in is : j < m /\ p[j].tool = p[m].tool}
    <2>2. m \in is /\ m \notin over /\ p[m].tool = t
      BY <2>1
    <2>3. n + Cardinality(E) < Limit(t)
      BY <2>2
    <2>4. M \ {m} \subseteq E
      BY <1>1, <2>1, <2>2
    <2>5. IsFiniteSet(E) /\ Cardinality(E) \in Nat
      <3>1. E \in SUBSET (DOMAIN p)
        OBVIOUS
      <3> HIDE DEF E
      <3> QED BY <3>1, Positions
    <2> HIDE DEF M, E
    <2>6. IsFiniteSet(M \ {m}) /\ Cardinality(M \ {m}) = Cardinality(M) - 1
      BY <1>1, <2>1, FS_RemoveElement
    <2>7. Cardinality(M \ {m}) <= Cardinality(E)
      BY <2>4, <2>5, FS_Subset
    <2>8. Cardinality(M) \in Nat /\ n + Cardinality(M) \in 0..MaxToolCallsPerTool
      BY <1>0, <1>1, <2>3, <2>5, <2>6, <2>7
    <2> QED BY <2>8 DEF M
  <1> QED BY <1>2, <1>3

LEMMA InvBudget ==
    ASSUME AgentInv, Budget
    PROVE  AgentInv'
  <1> DEFINE earlier(i) == Cardinality({j \in batch : j < i /\ plan[j].tool = plan[i].tool})
             over == {i \in batch : budget.calls[plan[i].tool] + earlier(i) >= Limit(plan[i].tool)}
             made(t) == Cardinality({i \in batch \ over : plan[i].tool = t})
  <1>1. /\ plan' = [i \in DOMAIN plan |-> IF i \in over THEN [plan[i] EXCEPT !.skip = TRUE] ELSE plan[i]]
        /\ budget' = [budget EXCEPT !.calls = [t \in Tools |-> @[t] + made(t)]]
        /\ denied' = denied \cup {plan[i].by : i \in over}
        /\ batch' = batch \ over
        /\ pc' = IF batch = over THEN "select" ELSE "execute"
        /\ pc = "budget"
        /\ UNCHANGED <<scene, last, verdict, pinned, reflected, stop>>
        /\ UNCHANGED <<attempted, completed, have, facts, signal>>
    BY DEF Budget, evidenceVars
  <1>2. over \subseteq batch /\ batch \in SUBSET (DOMAIN plan) /\ plan \in Seq(StepType) /\ Sound(plan)
    BY AgentParts
  <1>3. \A i \in DOMAIN plan : plan[i] \in StepType
    BY <1>2, MapElements
  <1>4. budget.calls \in [Tools -> 0..MaxToolCallsPerTool]
    BY AgentParts
  <1>5. ASSUME NEW t \in Tools PROVE budget.calls[t] + made(t) \in 0..MaxToolCallsPerTool
    <2> DEFINE n == budget.calls[t]
    <2>1. n \in Nat /\ n \in 0..MaxToolCallsPerTool
      BY <1>4, BudgetType
    <2>2. \A i \in batch : i \notin over =>
              n + Cardinality({j \in batch : j < i /\ plan[j].tool = plan[i].tool}) < Limit(plan[i].tool)
              \/ plan[i].tool # t
      <3> SUFFICES ASSUME NEW i \in batch, i \notin over, plan[i].tool = t
                   PROVE  n + earlier(i) < Limit(plan[i].tool)
        OBVIOUS
      <3>1. ~(n + earlier(i) >= Limit(plan[i].tool))
        OBVIOUS
      <3>2. earlier(i) \in Nat
        <4> DEFINE E == {j \in batch : j < i /\ plan[j].tool = plan[i].tool}
        <4>1. E \in SUBSET (DOMAIN plan)
          BY <1>2
        <4> HIDE DEF E
        <4>2. Cardinality(E) \in Nat
          BY <1>2, <4>1, Positions
        <4> QED BY <4>2 DEF E
      <3>3. Limit(plan[i].tool) \in Nat
        BY BudgetType DEF Limit
      <3> HIDE DEF earlier, over, n
      <3> QED BY <2>1, <3>1, <3>2, <3>3
    <2> HIDE DEF over, n
    <2>3. made(t) \in Nat /\ (made(t) = 0 \/ n + made(t) \in 0..MaxToolCallsPerTool)
      BY <1>2, <2>1, <2>2, MadeFits
    <2> HIDE DEF made
    <2> USE DEF n
    <2> QED BY <2>1, <2>3
  <1> HIDE DEF over, made
  <1>6. /\ budget'.steps = budget.steps /\ budget'.rounds = budget.rounds /\ budget'.added = budget.added
        /\ budget' \in [steps: Nat, rounds: 0..MaxReflectionRounds, added: 0..MaxReflectionSteps,
                        calls: [Tools -> 0..MaxToolCallsPerTool]]
    <2>1. [t \in Tools |-> budget.calls[t] + made(t)] \in [Tools -> 0..MaxToolCallsPerTool]
      BY <1>5
    <2> QED BY <1>1, <2>1, AgentParts
  <1>7. SkipsSome(plan', plan)
    BY <1>1, <1>2, SkipsAre
  <1>8. Sound(plan') /\ plan' \in Seq(StepType) /\ DOMAIN plan' = DOMAIN plan
    BY <1>2, <1>7, SoundSkips DEF SkipsSome
  <1>9. denied' \subseteq Required \cup {"plan"}
    <2>1. denied \subseteq Required \cup {"plan"}
      BY DEF AgentInv, AgentTypeOK
    <2>2. \A i \in over : plan[i].by \in Required \cup {"plan"}
      BY <1>2, <1>3 DEF StepType
    <2> QED BY <1>1, <2>1, <2>2
  <1>10. AgentTypeOK'
    BY <1>1, <1>2, <1>6, <1>8, <1>9 DEF AgentInv, AgentTypeOK
  <1>11. \A i \in DOMAIN plan : Later(plan'[i], plan[i]) /\ plan'[i].group = plan[i].group
    BY <1>2, <1>7, SkipsLater
  <1>12. \A i \in batch' : i \in batch /\ plan'[i] = plan[i]
    BY <1>1, <1>2
  <1>13. Batched'
    <2>1. Batched
      BY DEF AgentInv
    <2>2. \A i \in PendingIn(plan)' : i \in PendingIn(plan)
      BY <1>8, <1>11 DEF PendingIn, Later
    <2>3. batch' \subseteq PendingIn(plan)'
      BY <1>8, <1>12, <2>1 DEF Batched, PendingIn
    <2>4. \A i \in batch' : plan'[i].group = "" => batch' = {i} /\ \A j \in PendingIn(plan)' : i <= j
      <3> TAKE i \in batch'
      <3> HAVE plan'[i].group = ""
      <3>1. batch = {i} /\ \A j \in PendingIn(plan) : i <= j
        BY <1>12, <2>1 DEF Batched
      <3> QED BY <1>12, <2>2, <3>1
    <2>5. pinned' => \A i \in batch' : plan'[i].by \in Required \/ plan'[i].tool = "runbook"
      BY <1>1, <1>12, <2>1 DEF Batched
    <2>6. (pc' \notin {"budget", "execute"} => batch' = {}) /\ (pc' = "execute" => batch' # {})
      <3>1. batch' = {} <=> batch = over
        BY <1>1, <1>2
      <3>2. pc' = (IF batch = over THEN "select" ELSE "execute")
        BY <1>1
      <3> QED BY <3>1, <3>2
    <2> QED BY <2>3, <2>4, <2>5, <2>6 DEF Batched
  <1>14. Flow'
    BY <1>1 DEF AgentInv, Flow
  <1> QED BY <1>1, <1>8, <1>10, <1>13, <1>14, SoundPrime DEF AgentInv

\* The plan after its batch was executed.
Marked(p, is) == [i \in DOMAIN p |-> IF i \in is THEN [p[i] EXCEPT !.done = TRUE] ELSE p[i]]

LEMMA MarkedIs ==
    ASSUME NEW p, Sound(p), NEW is
    PROVE  /\ Sound(Marked(p, is)) /\ Marked(p, is) \in Seq(StepType) /\ DOMAIN Marked(p, is) = DOMAIN p
           /\ \A i \in DOMAIN p : Later(Marked(p, is)[i], p[i]) /\ Marked(p, is)[i].group = p[i].group
           /\ \A i \in DOMAIN p : i \notin is => Marked(p, is)[i] = p[i]
           /\ \A i \in is \cap DOMAIN p : ~Pending(Marked(p, is)[i])
  <1> DEFINE q == Marked(p, is)
  <1>1. p \in Seq(StepType)
    BY DEF Sound
  <1>2. \A i \in DOMAIN p : /\ q[i] \in StepType /\ Later(q[i], p[i]) /\ q[i].group = p[i].group
                            /\ (i \notin is => q[i] = p[i]) /\ (i \in is => ~Pending(q[i]))
    BY <1>1, MapElements, SkipIs DEF Marked
  <1>3. q \in [DOMAIN p -> StepType] /\ DOMAIN q = DOMAIN p
    BY <1>2 DEF Marked
  <1> HIDE DEF q
  <1>4. q \in Seq(StepType)
    BY <1>1, <1>3, MapElements
  <1>5. Sound(q)
    BY <1>2, <1>3, <1>4, SoundMap
  <1> QED BY <1>2, <1>3, <1>4, <1>5 DEF q

\* The last of a batch that is not empty.
LEMMA FinalIs ==
    ASSUME AgentInv, batch # {}
    PROVE  LET final == CHOOSE i \in batch : \A j \in batch : j <= i
           IN  final \in batch /\ \A j \in batch : j <= final
  <1>1. plan \in Seq(StepType) /\ batch \in SUBSET (DOMAIN plan)
    BY AgentParts
  <1>2. \E i \in batch : \A j \in batch : j <= i
    BY <1>1, FirstOf
  <1> QED BY <1>2

\* What Execute does, with the calls that succeeded and the last of the batch named.
LEMMA ExecuteIs ==
    ASSUME AgentInv, Execute
    PROVE  \E good \in SUBSET batch, final \in batch :
              /\ pc = "execute" /\ batch # {} /\ \A j \in batch : j <= final
              /\ attempted' = attempted \cup ToolsOf(batch)
              /\ completed' = completed \cup {Call(plan[i]) : i \in good}
              /\ pinned' \in {pinned, TRUE} /\ (pinned' => scene.targets # <<>>  \/ pinned)
              /\ plan' = IF pinned' # pinned THEN Targeted(Marked(plan, batch), attempted \cup ToolsOf(batch)).plan
                         ELSE Marked(plan, batch)
              /\ last' = [tool |-> plan[final].tool, success |-> final \in good]
              /\ pc' = IF scene.planner = "llm" THEN "reflect" ELSE "decide"
              /\ stop' \in {stop, "critical_tool_failed"}
              /\ budget' = [budget EXCEPT !.steps = @ + Cardinality(batch)]
              /\ signal' \in BOOLEAN /\ have' \in BOOLEAN /\ facts' \subseteq {"events", "logs"}
              /\ verdict' \in Verdicts /\ batch' = {}
              /\ UNCHANGED <<scene, reflected, denied>>
  <1>1. PICK good \in SUBSET batch :
         LET tried == attempted \cup ToolsOf(batch)
             critical == \E i \in batch \ good : plan[i].tool = "pod"
             final == CHOOSE i \in batch : \A j \in batch : j <= i
             alarming == scene.config /\ ToolsOf(good) \cap {"events", "logs"} # {}
             lists == {l \in {"events", "logs"} : ToolsOf(good) \cap {l, "logs"} # {}}
             pinnable == /\ scene.targets # <<>> /\ ~critical
                         /\ ToolsOf(good) \cap SnapshotTools # {}
         IN  /\ attempted' = tried
             /\ completed' = completed \cup {<<plan[i].tool, plan[i].input>> : i \in good}
             /\ have' = (have \/ ToolsOf(good) \cap SnapshotTools # {})
             /\ facts' \in {facts \cup f : f \in SUBSET lists}
             /\ signal' \in {signal, signal \/ alarming}
             /\ stop' = IF critical THEN "critical_tool_failed" ELSE stop
             /\ pinned' \in {pinned, pinned \/ pinnable}
             /\ plan' = IF pinned' # pinned THEN Targeted(Marked(plan, batch), tried).plan ELSE Marked(plan, batch)
             /\ budget' = [budget EXCEPT !.steps = @ + Cardinality(batch)]
             /\ last' = [tool |-> plan[final].tool, success |-> final \in good]
    BY DEF Execute, Marked
  <1>2. /\ pc = "execute" /\ verdict' \in Verdicts /\ batch' = {}
        /\ pc' = IF scene.planner = "llm" THEN "reflect" ELSE "decide"
        /\ UNCHANGED <<scene, reflected, denied>>
    BY DEF Execute
  <1>3. batch # {}
    BY <1>2 DEF AgentInv, Batched
  <1> DEFINE final == CHOOSE i \in batch : \A j \in batch : j <= i
             tried == attempted \cup ToolsOf(batch)
             critical == \E i \in batch \ good : plan[i].tool = "pod"
             pinnable == /\ scene.targets # <<>> /\ ~critical
                         /\ ToolsOf(good) \cap SnapshotTools # {}
  <1>4. final \in batch /\ \A j \in batch : j <= final
    BY <1>3, FinalIs
  <1>5. last' = [tool |-> plan[final].tool, success |-> final \in good]
    BY <1>1
  <1>6. /\ attempted' = tried
        /\ plan' = IF pinned' # pinned THEN Targeted(Marked(plan, batch), tried).plan ELSE Marked(plan, batch)
        /\ budget' = [budget EXCEPT !.steps = @ + Cardinality(batch)]
    BY <1>1
  <1>7. completed' = completed \cup {Call(plan[i]) : i \in good}
    BY <1>1 DEF Call
  <1>8. pinned' \in {pinned, TRUE} /\ (pinned' => scene.targets # <<>> \/ pinned)
    <2>1. pinned' \in {pinned, pinned \/ pinnable}
      BY <1>1
    <2>2. pinned \in BOOLEAN
      BY AgentParts
    <2>3. pinnable \in BOOLEAN /\ (pinnable => scene.targets # <<>>)
      OBVIOUS
    <2> HIDE DEF pinnable
    <2> QED BY <2>1, <2>2, <2>3
  <1>9. stop' \in {stop, "critical_tool_failed"}
    BY <1>1
  <1>10. signal' \in BOOLEAN /\ have' \in BOOLEAN /\ facts' \subseteq {"events", "logs"}
    <2>1. signal' \in {signal, signal \/ (scene.config /\ ToolsOf(good) \cap {"events", "logs"} # {})}
      BY <1>1
    <2>2. signal \in BOOLEAN /\ facts \subseteq {"events", "logs"}
      BY AgentParts
    <2>3. have' \in BOOLEAN
      BY <1>1
    <2>4. PICK f \in SUBSET {l \in {"events", "logs"} : ToolsOf(good) \cap {l, "logs"} # {}} : facts' = facts \cup f
      BY <1>1
    <2> QED BY <2>1, <2>2, <2>3, <2>4
  <1> HIDE DEF final
  <1> QED BY <1>2, <1>3, <1>4, <1>5, <1>6, <1>7, <1>8, <1>9, <1>10

LEMMA InvExecute ==
    ASSUME AgentInv, Execute
    PROVE  AgentInv'
  <1>1. PICK good \in SUBSET batch, final \in batch :
              /\ pc = "execute" /\ batch # {} /\ \A j \in batch : j <= final
              /\ attempted' = attempted \cup ToolsOf(batch)
              /\ completed' = completed \cup {Call(plan[i]) : i \in good}
              /\ pinned' \in {pinned, TRUE} /\ (pinned' => scene.targets # <<>>  \/ pinned)
              /\ plan' = IF pinned' # pinned THEN Targeted(Marked(plan, batch), attempted \cup ToolsOf(batch)).plan
                         ELSE Marked(plan, batch)
              /\ last' = [tool |-> plan[final].tool, success |-> final \in good]
              /\ pc' = IF scene.planner = "llm" THEN "reflect" ELSE "decide"
              /\ stop' \in {stop, "critical_tool_failed"}
              /\ budget' = [budget EXCEPT !.steps = @ + Cardinality(batch)]
              /\ signal' \in BOOLEAN /\ have' \in BOOLEAN /\ facts' \subseteq {"events", "logs"}
              /\ verdict' \in Verdicts /\ batch' = {}
              /\ UNCHANGED <<scene, reflected, denied>>
    BY ExecuteIs
  <1>2. batch \in SUBSET (DOMAIN plan) /\ plan \in Seq(StepType) /\ Sound(plan) /\ scene \in Scenes
    BY AgentParts
  <1>3. \A i \in batch : plan[i] \in StepType /\ plan[i].tool \in Tools /\ Call(plan[i]) \in Tools \X Inputs
                         /\ Call(plan[i])[1] = plan[i].tool
    <2>1. \A i \in batch : plan[i] \in StepType
      BY <1>2, MapElements
    <2> QED BY <2>1 DEF StepType, Call
  <1>4. Sound(plan')
    <2>1. Sound(Marked(plan, batch))
      BY <1>2, MarkedIs
    <2>2. Sound(Targeted(Marked(plan, batch), attempted \cup ToolsOf(batch)).plan)
      BY <1>2, <2>1, SoundTargeted
    <2> QED BY <1>1, <2>1, <2>2
  <1>5. attempted' \subseteq Tools /\ completed' \subseteq Tools \X Inputs
    BY <1>1, <1>3, AgentParts DEF ToolsOf
  <1>6. budget' \in [steps: Nat, rounds: 0..MaxReflectionRounds, added: 0..MaxReflectionSteps,
                     calls: [Tools -> 0..MaxToolCallsPerTool]]
    <2>1. Cardinality(batch) \in Nat
      BY <1>2, Positions
    <2> QED BY <1>1, <2>1, AgentParts
  <1>7. last' \in [tool: Tools, success: BOOLEAN]
    BY <1>1, <1>3
  <1>8. verdict' \in VerdictType
    BY <1>1 DEF Verdicts
  <1>9. AgentTypeOK'
    <2>1. plan' \in Seq(StepType)
      BY <1>4 DEF Sound
    <2>2. stop' \in StopReasons /\ pinned' \in BOOLEAN
      BY <1>1, AgentParts DEF StopReasons
    <2>3. pc' \in {"select", "budget", "execute", "reflect", "decide", "stopped"} /\ batch' \subseteq DOMAIN plan'
      BY <1>1
    <2> QED BY <1>1, <1>5, <1>6, <1>7, <1>8, <2>1, <2>2, <2>3 DEF AgentInv, AgentTypeOK
  <1>10. Batched'
    BY <1>1, NoBatch
  <1>11. Flow'
    <2>1. stop' \in {"", "critical_tool_failed"}
      BY <1>1 DEF AgentInv, Flow
    <2>2. pc' = "reflect" => scene'.planner = "llm"
      BY <1>1
    <2>3. ASSUME NEW c \in completed' PROVE c[1] \in attempted'
      BY <1>1, <1>3 DEF AgentInv, Flow, ToolsOf
    <2> QED BY <2>1, <2>2, <2>3 DEF Flow
  <1> QED BY <1>1, <1>4, <1>9, <1>10, <1>11, SoundPrime DEF AgentInv

LEMMA InvSkipReflection ==
    ASSUME AgentInv, SkipReflection
    PROVE  AgentInv'
  <1>1. /\ pc = "reflect" /\ pc' = "decide"
        /\ UNCHANGED <<scene, plan, batch, last, verdict, pinned, reflected, stop, budget, denied>>
        /\ UNCHANGED <<attempted, completed, have, facts, signal>>
    BY DEF SkipReflection, evidenceVars
  <1>2. batch = {} /\ stop \in {"", "critical_tool_failed"} /\ reflected \in {"none", "continue", "stop"}
    BY <1>1 DEF AgentInv, Batched, Flow, AgentTypeOK
  <1> QED BY <1>1, <1>2, AgentParts, TurnEnds

\* What Reflect does once the LLM has answered: x is the plan it extends.
Reflected(go, x, e) ==
    LET added == Len(x) - Len(plan)
        collect == \/ e.changed \/ added > 0
                   \/ \E i \in PendingIn(e.plan) : e.plan[i].by = "reflection"
        converged == verdict.top = "converged"
        more == ~pinned /\ Runnable(e.plan)
    IN  /\ reflected' = IF go THEN "continue" ELSE "stop"
        /\ budget' = [budget EXCEPT !.rounds = @ + 1, !.added = @ + added]
        /\ Refresh(e)
        /\ \/ collect /\ plan' = e.plan /\ NextTurn
           \/ /\ ~collect /\ ~go /\ converged
              /\ plan' = IF more /\ ~PendingRequired(e.plan)
                         THEN AppendEvidence(e.plan, verdict.gaps) ELSE e.plan
              /\ IF more \/ PendingRequired(e.plan) THEN NextTurn
                 ELSE Stopped("llm_reflection_complete")
           \/ /\ ~collect /\ (go \/ ~converged)
              /\ plan' = IF go THEN e.plan ELSE Distinguish(e.plan)
              /\ pc' = "decide" /\ UNCHANGED <<batch, verdict, stop>>

LEMMA InvReflect ==
    ASSUME AgentInv, Reflect
    PROVE  AgentInv'
  <1>0. PICK go \in BOOLEAN, asked \in SUBSET ToSet(LLMCalls) :
         \E x \in {Reflection(IF go THEN asked ELSE {})} : \E e \in {Enforce(x)} : Reflected(go, x, e)
    BY DEF Reflect, Reflected
  <1>1. PICK x, e : x = Reflection(IF go THEN asked ELSE {}) /\ e = Enforce(x) /\ Reflected(go, x, e)
    BY <1>0
  <1>2. pc = "reflect" /\ CanReflect /\ UNCHANGED <<scene, last, pinned, denied>>
    BY DEF Reflect
  <1>3. scene.planner = "llm" /\ batch = {} /\ stop \in {"", "critical_tool_failed"}
    BY <1>2 DEF AgentInv, Batched, Flow
  <1>4. /\ budget.rounds \in 0..MaxReflectionRounds /\ budget.rounds < MaxReflectionRounds
        /\ budget.added \in 0..MaxReflectionSteps
    BY <1>2, AgentParts DEF CanReflect
  <1>5. Sound(x) /\ Len(x) - Len(plan) \in 0..(MaxReflectionSteps - budget.added)
    BY <1>1, <1>3, <1>4, AgentParts, SoundReflection
  <1>6. Sound(e.plan) /\ e.refresh \in BOOLEAN
    BY <1>1, <1>5, AgentParts, EnforceIs
  <1>7. Sound(AppendEvidence(e.plan, verdict.gaps)) /\ Sound(Distinguish(e.plan))
    BY <1>6, SoundEvidence
  <1>8. /\ reflected' \in {"none", "continue", "stop"} /\ Refresh(e)
        /\ budget' = [budget EXCEPT !.rounds = @ + 1, !.added = @ + (Len(x) - Len(plan))]
        /\ \/ plan' = e.plan /\ NextTurn
           \/ plan' \in {e.plan, AppendEvidence(e.plan, verdict.gaps)} /\ (NextTurn \/ Stopped("llm_reflection_complete"))
           \/ plan' \in {e.plan, Distinguish(e.plan)} /\ pc' = "decide" /\ UNCHANGED <<batch, verdict, stop>>
    BY <1>1 DEF Reflected
  <1>9. budget' \in [steps: Nat, rounds: 0..MaxReflectionRounds, added: 0..MaxReflectionSteps,
                     calls: [Tools -> 0..MaxToolCallsPerTool]]
    <2> DEFINE n == Len(x) - Len(plan)
    <2>1. n \in 0..(MaxReflectionSteps - budget.added) /\ budget' = [budget EXCEPT !.rounds = @ + 1, !.added = @ + n]
      BY <1>5, <1>8
    <2> HIDE DEF n
    <2>2. budget.rounds + 1 \in 0..MaxReflectionRounds /\ budget.added + n \in 0..MaxReflectionSteps
      BY <1>4, <2>1, BudgetType
    <2> QED BY <2>1, <2>2, AgentParts
  <1>10. have' \in BOOLEAN /\ facts' \subseteq {"events", "logs"} /\ UNCHANGED <<attempted, completed, signal>>
    BY <1>6, <1>8, RefreshTypes
  <1>11. Sound(plan')
    BY <1>6, <1>7, <1>8
  <1>12. /\ pc' \in {"select", "decide", "stopped"} /\ batch' = {} /\ verdict' \in VerdictType /\ stop' \in StopReasons
         /\ (pc' # "stopped" => stop' \in {"", "critical_tool_failed"})
    <2>1. "llm_reflection_complete" \in StopReasons
      BY DEF StopReasons
    <2>2. CASE NextTurn
      BY <2>2, NextTurnTypes
    <2>3. CASE Stopped("llm_reflection_complete")
      BY <2>1, <2>3, StoppedTypes
    <2>4. CASE pc' = "decide" /\ UNCHANGED <<batch, verdict, stop>>
      BY <1>3, <2>4, AgentParts
    <2> QED BY <1>8, <2>2, <2>3, <2>4
  <1> QED BY <1>2, <1>8, <1>9, <1>10, <1>11, <1>12, TurnEnds

\* What Conclude does, with the plans it goes through.
Outcome(guarded, e, wide) ==
    LET more == ~pinned /\ Runnable(wide)
    IN  \/ /\ stop # "" /\ Stopped(stop) /\ UNCHANGED <<plan, evidenceVars>>
        \/ /\ stop = "" /\ guarded # plan /\ plan' = guarded
           /\ NextTurn /\ UNCHANGED evidenceVars
        \/ /\ stop = "" /\ guarded = plan /\ e.changed
           /\ plan' = e.plan /\ Refresh(e) /\ NextTurn
        \/ /\ stop = "" /\ guarded = plan /\ ~e.changed /\ verdict.top = "converged"
           /\ plan' = IF more /\ ~PendingRequired(wide)
                      THEN AppendEvidence(wide, verdict.gaps) ELSE wide
           /\ IF more \/ PendingRequired(wide) THEN NextTurn ELSE Stopped("confirmed_hypothesis")
           /\ UNCHANGED evidenceVars
Concluded(guarded, e, wide) ==
    /\ guarded = EnsureConfigEvidence(plan) /\ e = Enforce(plan)
    /\ wide = IF pinned THEN e.plan ELSE Distinguish(e.plan)
    /\ Outcome(guarded, e, wide)

LEMMA ConcludedIs ==
    ASSUME Conclude
    PROVE  \E guarded, e, wide : Concluded(guarded, e, wide)
  <1>1. PICK guarded \in {EnsureConfigEvidence(plan)}, e \in {Enforce(plan)} :
             \E wide \in {IF pinned THEN e.plan ELSE Distinguish(e.plan)} : Outcome(guarded, e, wide)
    BY Zenon DEF Conclude, Outcome
  <1>2. PICK wide \in {IF pinned THEN e.plan ELSE Distinguish(e.plan)} : Outcome(guarded, e, wide)
    BY <1>1, Zenon
  <1>3. Concluded(guarded, e, wide)
    BY <1>2, Zenon DEF Concluded
  <1> QED BY <1>3, Zenon

LEMMA InvConclude ==
    ASSUME AgentInv, Conclude
    PROVE  AgentInv'
  <1>1. PICK guarded, e, wide : Concluded(guarded, e, wide)
    BY ConcludedIs
  <1>2. UNCHANGED <<scene, last, pinned, reflected, budget, denied>>
    BY DEF Conclude
  <1>3. Sound(guarded) /\ Sound(e.plan) /\ e.refresh \in BOOLEAN
    BY <1>1, AgentParts, SoundEnsure, EnforceIs DEF Concluded, Outcome
  <1>4. Sound(wide) /\ Sound(AppendEvidence(wide, verdict.gaps))
    BY <1>1, <1>3, SoundEvidence DEF Concluded, Outcome
  <1>5. /\ plan' \in {plan, guarded, e.plan, wide, AppendEvidence(wide, verdict.gaps)}
        /\ UNCHANGED evidenceVars \/ Refresh(e)
        /\ NextTurn \/ Stopped(stop) \/ Stopped("confirmed_hypothesis")
    BY <1>1 DEF Concluded, Outcome
  <1>6. Sound(plan')
    BY <1>3, <1>4, <1>5, AgentParts
  <1>7. have' \in BOOLEAN /\ facts' \subseteq {"events", "logs"} /\ UNCHANGED <<attempted, completed, signal>>
    <2>1. CASE UNCHANGED evidenceVars
      BY <2>1, AgentParts DEF evidenceVars
    <2>2. CASE Refresh(e)
      BY <1>3, <2>2, RefreshTypes
    <2> QED BY <1>5, <2>1, <2>2
  <1>8. /\ pc' \in {"select", "decide", "stopped"} /\ batch' = {} /\ verdict' \in VerdictType /\ stop' \in StopReasons
        /\ (pc' # "stopped" => stop' \in {"", "critical_tool_failed"})
    <2>1. "confirmed_hypothesis" \in StopReasons /\ stop \in StopReasons
      BY AgentParts DEF StopReasons
    <2>2. CASE NextTurn
      BY <2>2, NextTurnTypes
    <2>3. CASE Stopped(stop) \/ Stopped("confirmed_hypothesis")
      BY <2>1, <2>3, StoppedTypes
    <2> QED BY <1>5, <2>2, <2>3
  <1>9. reflected \in {"none", "continue", "stop"}
    BY DEF AgentInv, AgentTypeOK
  <1> QED BY <1>2, <1>6, <1>7, <1>8, <1>9, AgentParts, TurnEnds

\* What Adjust does, with the plans it goes through.
Adjusting(held, revised, p, e) ==
    /\ held = Enforce(plan)
    /\ revised \in IF pinned THEN {held.plan} ELSE Adjusted(Distinguish(held.plan))
    /\ p = DropCompleted(revised) /\ e = Enforce(p)
    /\ EnsureConfigEvidence(plan) = plan /\ ~held.changed
    /\ \/ PendingIn(p) # {} /\ plan' = p /\ NextTurn /\ UNCHANGED evidenceVars
       \/ /\ PendingIn(p) = {} /\ plan' = e.plan /\ Refresh(e)
          /\ IF e.changed THEN NextTurn ELSE Stopped(ExhaustedReason(e.plan))

LEMMA AdjustIs ==
    ASSUME AgentInv, Adjust
    PROVE  /\ \E held, revised, p, e : /\ Adjusting(held, revised, p, e)
                                       /\ Sound(held.plan) /\ Sound(revised) /\ Sound(p) /\ Sound(e.plan)
                                       /\ e.refresh \in BOOLEAN
           /\ pc = "decide" /\ stop = "" /\ UNCHANGED <<scene, last, pinned, reflected, budget, denied>>
  <1>1. /\ pc = "decide" /\ stop = "" /\ UNCHANGED <<scene, last, pinned, reflected, budget, denied>>
        /\ \E held, revised, p, e : Adjusting(held, revised, p, e)
    BY DEF Adjust, Adjusting
  <1>2. PICK held, revised, p, e : Adjusting(held, revised, p, e)
    BY <1>1
  <1>3. /\ held = Enforce(plan) /\ p = DropCompleted(revised) /\ e = Enforce(p)
        /\ revised \in IF pinned THEN {held.plan} ELSE Adjusted(Distinguish(held.plan))
    BY <1>2 DEF Adjusting
  <1>4. Sound(held.plan)
    BY <1>3, AgentParts, EnforceIs
  <1>5. Sound(revised)
    <2>1. CASE pinned
      BY <1>3, <1>4, <2>1
    <2>2. CASE ~pinned
      <3>1. Sound(Distinguish(held.plan)) /\ revised \in Adjusted(Distinguish(held.plan))
        BY <1>3, <1>4, <2>2, SoundEvidence
      <3> QED BY <3>1, AgentParts, SoundAdjusted
    <2> QED BY <2>1, <2>2
  <1>6. Sound(p)
    <2>1. revised \in Seq(StepType)
      BY <1>5 DEF Sound
    <2>2. SkipsSome(p, revised)
      BY <1>3, <2>1, DropIs
    <2> QED BY <1>5, <2>2, SoundSkips
  <1>7. Sound(e.plan) /\ e.refresh \in BOOLEAN
    BY <1>3, <1>6, AgentParts, EnforceIs
  <1> QED BY <1>1, <1>2, <1>4, <1>5, <1>6, <1>7

LEMMA InvAdjust ==
    ASSUME AgentInv, Adjust
    PROVE  AgentInv'
  <1>1. PICK held, revised, p, e : /\ Adjusting(held, revised, p, e)
                                   /\ Sound(held.plan) /\ Sound(revised) /\ Sound(p) /\ Sound(e.plan)
                                   /\ e.refresh \in BOOLEAN
    BY AdjustIs
  <1>2. UNCHANGED <<scene, last, pinned, reflected, budget, denied>>
    BY AdjustIs
  <1>3. /\ plan' \in {p, e.plan} /\ (UNCHANGED evidenceVars \/ Refresh(e))
        /\ NextTurn \/ Stopped(ExhaustedReason(e.plan))
    BY <1>1 DEF Adjusting
  <1>4. Sound(plan')
    BY <1>1, <1>3
  <1>5. have' \in BOOLEAN /\ facts' \subseteq {"events", "logs"} /\ UNCHANGED <<attempted, completed, signal>>
    <2>1. CASE UNCHANGED evidenceVars
      BY <2>1, AgentParts DEF evidenceVars
    <2>2. CASE Refresh(e)
      BY <1>1, <2>2, RefreshTypes
    <2> QED BY <1>3, <2>1, <2>2
  <1>6. /\ pc' \in {"select", "decide", "stopped"} /\ batch' = {} /\ verdict' \in VerdictType /\ stop' \in StopReasons
        /\ (pc' # "stopped" => stop' \in {"", "critical_tool_failed"})
    <2>1. ExhaustedReason(e.plan) \in StopReasons
      BY DEF ExhaustedReason, StopReasons
    <2>2. CASE NextTurn
      BY <2>2, NextTurnTypes
    <2>3. CASE Stopped(ExhaustedReason(e.plan))
      BY <2>1, <2>3, StoppedTypes
    <2> QED BY <1>3, <2>2, <2>3
  <1>7. reflected \in {"none", "continue", "stop"}
    BY DEF AgentInv, AgentTypeOK
  <1> QED BY <1>2, <1>4, <1>5, <1>6, <1>7, AgentParts, TurnEnds

LEMMA InvStutter ==
    ASSUME AgentInv, UNCHANGED vars
    PROVE  AgentInv'
  <1>1. /\ UNCHANGED <<scene, pc, plan, batch, last, verdict, pinned, reflected, stop, budget, denied>>
        /\ UNCHANGED <<attempted, completed, have, facts, signal>>
    BY DEF vars, evidenceVars
  <1>2. AgentTypeOK'
    BY <1>1 DEF AgentInv, AgentTypeOK
  <1>3. Sound(plan') /\ scene' = scene
    BY <1>1, AgentParts
  <1>4. Batched' /\ Flow'
    BY <1>1 DEF AgentInv, Batched, Flow, PendingIn
  <1> QED BY <1>2, <1>3, <1>4, SoundPrime DEF AgentInv

\* Every step keeps AgentInv.
LEMMA AgentStep == AgentInv /\ [Next]_vars => AgentInv'
  <1> SUFFICES ASSUME AgentInv, [Next]_vars PROVE AgentInv'
    OBVIOUS
  <1>1. CASE Timeout \/ ReachMaxSteps
    BY <1>1, InvTimeout
  <1>2. CASE Select \/ Exhaust \/ Budget
    BY <1>2, InvSelect, InvExhaust, InvBudget
  <1>3. CASE Execute \/ SkipReflection \/ Reflect
    BY <1>3, InvExecute, InvSkipReflection, InvReflect
  <1>4. CASE Conclude \/ Adjust
    BY <1>4, InvConclude, InvAdjust
  <1>5. CASE Done \/ UNCHANGED vars
    BY <1>5, InvStutter DEF Done
  <1> QED BY <1>1, <1>2, <1>3, <1>4, <1>5 DEF Next, Turn

LEMMA AgentInvariant == Spec => []AgentInv
  <1>1. Init => AgentInv
    BY AgentInit
  <1>2. AgentInv /\ [Next]_vars => AgentInv'
    BY AgentStep
  <1> QED BY <1>1, <1>2, PTL DEF Spec

\* The state of the loop stays within its types: the batch consists of steps of the
\* plan, and no reflection, no step of one and no call of a tool exceeds its budget
\* (enforceToolCallBudgets, reflectionBudgetAvailable).
THEOREM AgentTypes == Spec => []AgentTypeOK
  <1>1. AgentInv => AgentTypeOK
    BY DEF AgentInv
  <1> QED BY <1>1, AgentInvariant, PTL

\* Once the pre-analyzer has pinned the fault, no tool is called but for that
\* fault, for a reflection or a guard, or to search the runbook: revising the plan
\* at the beginning of the turn (enforceRuntimeEvidencePlan) leaves nothing else.
THEOREM PinnedSafe == Spec => []PinnedBatch
  <1>1. AgentInv => PinnedBatch
    BY DEF AgentInv, Batched, PinnedBatch
  <1> QED BY <1>1, AgentInvariant, PTL

-----------------------------------------------------------------------------
(* Where the rules plan, the guards have the last word on their tools.      *)

Guards(p) == \A s \in ToSet(p) : /\ s.by \in {"plan", "guard"}
                                 /\ s.by = "guard" => Call(s) \in ToSet(GuardCalls) /\ s.group = ""

\* Once a guard's call has answered, only a guard comes back to the other's tool.
Settled(p) == \A c \in ToSet(GuardCalls) : c \in completed =>
                 \A s \in ToSet(p) : Pending(s) /\ s.tool \in GuardTools /\ s.tool # c[1] => s.by = "guard"

\* Once a guard asks, both tools are tried or planned, and not appended again.
Guarding(p) == (\E s \in ToSet(p) : PendingGuard(s)) \/ \E c \in ToSet(GuardCalls) : c \in completed
Covered(p) == Guarding(p) => \A t \in GuardTools : t \in attempted \/ HasTool(p, t)

Guided(p) == Guards(p) /\ Ordered(p) /\ Settled(p)
RulePlan(p) == Guided(p) /\ Covered(p)

LEMMA GuardedTools ==
    /\ \A c \in ToSet(GuardCalls) : c[1] \in GuardTools /\ c[2] # "plain"
    /\ \A t \in GuardTools : \E c \in ToSet(GuardCalls) : c[1] = t
    /\ \A c, d \in ToSet(GuardCalls) : c[1] = d[1] => c = d
    /\ GuardTools \subseteq Tools
  <1>1. GuardCalls[1] = <<"config", "app">> /\ GuardCalls[2] = <<"runbook", "config">>
    BY DEF GuardCalls
  <1>2. ToSet(GuardCalls) = {<<"config", "app">>, <<"runbook", "config">>}
    BY <1>1, GuardCallsAre
  <1> QED BY <1>2 DEF GuardTools, Tools

LEMMA GuardsOnlyTools ==
    ASSUME NEW p \in Seq(StepType), Guards(p)
    PROVE  GuardsOnly(p)
  <1> SUFFICES ASSUME NEW s \in ToSet(p), s.by = "guard" PROVE s.tool \in GuardTools
    BY DEF GuardsOnly
  <1>1. Call(s) \in ToSet(GuardCalls) /\ Call(s)[1] = s.tool
    BY DEF Guards, Call
  <1> QED BY <1>1, GuardedTools

\* A plan in order stays so when a guard appends its step.
LEMMA GuidedGuard ==
    ASSUME NEW p \in Seq(StepType), Guided(p), NEW c \in {GuardCalls[1], GuardCalls[2]}
    PROVE  Guided(Guard(p, c))
  <1> DEFINE q == Guard(p, c)
             g == GuardStep(c)
  <1>1. c \in AllCalls /\ c \in ToSet(GuardCalls)
    BY GuardCallsAre
  <1>2. Guarded(q, p, c) /\ q \in Seq(StepType) /\ ToSet(q) \subseteq ToSet(p) \cup {g}
    BY <1>1, GuardIs DEF GuardStep
  <1>3. g \in StepType /\ Call(g) = c /\ g.by = "guard" /\ g.group = ""
    BY SoundGuardStep
  <1> HIDE DEF q, g
  <1>4. Guards(q)
    BY <1>1, <1>2, <1>3 DEF Guided, Guards
  <1>5. Settled(q)
    BY <1>2, <1>3 DEF Guided, Settled
  <1>6. Ordered(q)
    <2>1. CASE q = p
      BY <2>1 DEF Guided
    <2>2. CASE q # p
      <3>1. PICK is \in SUBSET (DOMAIN p) : q = Append(At(p, is), g)
        BY <1>2, <2>2 DEF Guarded, g, GuardStep
      <3>2. ~PendingCall(p, c)
        BY <1>2, <2>2 DEF Guarded
      <3>3. /\ At(p, is) \in Seq(StepType) /\ Ordered(At(p, is))
            /\ ToSet(At(p, is)) = {p[i] : i \in is}
        BY OrderedAt, AtElements DEF Guided
      <3>4. \A s \in ToSet(At(p, is)) : s \in ToSet(p)
        BY <3>3 DEF ToSet
      <3>5. \A s \in ToSet(At(p, is)) : Follows(s, g)
        BY <1>3, <3>2, <3>4, Elements DEF Follows, PendingGuard
      <3> QED BY <1>3, <3>1, <3>3, <3>5, OrderedAppend
    <2> QED BY <2>1, <2>2
  <1>7. Guided(q)
    BY <1>4, <1>5, <1>6 DEF Guided
  <1> QED BY <1>7 DEF q

LEMMA RuleEnsure ==
    ASSUME NEW p \in Seq(StepType), RulePlan(p), \A c \in completed : c[1] \in attempted
    PROVE  RulePlan(EnsureConfigEvidence(p))
  <1>1. CASE ~signal
    BY <1>1 DEF EnsureConfigEvidence
  <1>2. CASE signal
    <2> DEFINE c1 == GuardCalls[1]
               c2 == GuardCalls[2]
               p1 == Guard(p, c1)
               p2 == Guard(p1, c2)
    <2>0. c1 \in AllCalls /\ c2 \in AllCalls /\ ToSet(GuardCalls) = {c1, c2}
      BY GuardCallsAre
    <2>1. p1 \in Seq(StepType) /\ Guided(p1) /\ (Answered(c1) \/ PendingCall(p1, c1))
      <3>1. Guided(p)
        BY DEF RulePlan
      <3> QED BY <2>0, <3>1, GuardIs, GuidedGuard
    <2>2. EnsureConfigEvidence(p) = p2
      BY <1>2 DEF EnsureConfigEvidence
    <2> HIDE DEF p1
    <2>3. /\ p2 \in Seq(StepType) /\ Guided(p2) /\ (Answered(c2) \/ PendingCall(p2, c2))
          /\ \A s \in ToSet(p1) : Pending(s) => s \in ToSet(p2)
      <3>1. c2 \in {GuardCalls[1], GuardCalls[2]}
        OBVIOUS
      <3> HIDE DEF c2
      <3>2. Guided(p2)
        BY <2>1, <3>1, GuidedGuard
      <3>3. /\ p2 \in Seq(StepType) /\ (Answered(c2) \/ PendingCall(p2, c2))
            /\ \A s \in ToSet(p1) : Pending(s) => s \in ToSet(p2)
        BY <2>0, <2>1, GuardIs
      <3> QED BY <3>2, <3>3
    <2> HIDE DEF p2, c1, c2
    <2>4. Answered(c1) \/ PendingCall(p2, c1)
      BY <2>1, <2>3, Elements
    <2>5. \A c \in ToSet(GuardCalls) : c \in completed \/ PendingCall(p2, c)
      BY <2>0, <2>3, <2>4, GuardedTools DEF Answered
    <2>6. ASSUME NEW t \in GuardTools PROVE t \in attempted \/ HasTool(p2, t)
      <3>1. PICK c \in ToSet(GuardCalls) : c[1] = t
        BY GuardedTools
      <3>2. CASE c \in completed
        BY <3>1, <3>2
      <3>3. CASE PendingCall(p2, c)
        <4>1. PICK s \in ToSet(p2) : Call(s) = c
          BY <2>3, <3>3, Elements
        <4>2. s.tool = t
          BY <3>1, <4>1 DEF Call
        <4> QED BY <2>3, <4>2, Elements
      <3> QED BY <2>5, <3>2, <3>3
    <2> QED BY <2>2, <2>3, <2>6 DEF RulePlan, Covered
  <1> QED BY <1>1, <1>2

\* A plan whose steps are those of p, some of them skipped, moved or regrouped, and
\* new ones that leave the tools of the guards alone.
Derived(q, p) ==
    /\ q \in Seq(StepType)
    /\ \A s \in ToSet(q) : \/ \E r \in ToSet(p) : Later(s, r) /\ (s.group = r.group \/ s.group = "")
                           \/ s.by = "plan" /\ ~(Pending(s) /\ s.tool \in GuardTools /\ Guarding(p))
    /\ \A r \in ToSet(p) : \E s \in ToSet(q) : s.tool = r.tool

LEMMA RuleDerived ==
    ASSUME NEW p \in Seq(StepType), RulePlan(p), NEW q, Derived(q, p), Ordered(q)
    PROVE  RulePlan(q)
  <1>1. q \in Seq(StepType)
    BY DEF Derived
  <1>2. Guards(q)
    <2> SUFFICES ASSUME NEW s \in ToSet(q)
                 PROVE  /\ s.by \in {"plan", "guard"}
                        /\ s.by = "guard" => Call(s) \in ToSet(GuardCalls) /\ s.group = ""
      BY DEF Guards
    <2>1. CASE \E r \in ToSet(p) : Later(s, r) /\ (s.group = r.group \/ s.group = "")
      BY <2>1 DEF RulePlan, Guided, Guards, Later
    <2>2. CASE s.by = "plan"
      BY <2>2
    <2> QED BY <2>1, <2>2 DEF Derived
  <1>3. Settled(q)
    <2> SUFFICES ASSUME NEW c \in ToSet(GuardCalls), c \in completed, NEW s \in ToSet(q),
                        Pending(s), s.tool \in GuardTools, s.tool # c[1]
                 PROVE  s.by = "guard"
      BY DEF Settled
    <2>1. Guarding(p)
      BY DEF Guarding
    <2>2. PICK r \in ToSet(p) : Later(s, r)
      BY <2>1 DEF Derived
    <2> QED BY <2>2 DEF RulePlan, Guided, Settled, Later
  <1>4. Guarding(q) => Guarding(p)
    <2> SUFFICES ASSUME NEW s \in ToSet(q), PendingGuard(s) PROVE Guarding(p)
      BY DEF Guarding
    <2>1. s.by # "plan"
      BY DEF PendingGuard
    <2>2. PICK r \in ToSet(p) : Later(s, r)
      BY <2>1 DEF Derived
    <2> QED BY <2>2 DEF Later, PendingGuard, Guarding
  <1>5. \A t : HasTool(p, t) => HasTool(q, t)
    <2> SUFFICES ASSUME NEW t, HasTool(p, t) PROVE HasTool(q, t)
      OBVIOUS
    <2>1. PICK r \in ToSet(p) : r.tool = t
      BY Elements
    <2>2. PICK s \in ToSet(q) : s.tool = t
      BY <2>1 DEF Derived
    <2> QED BY <1>1, <2>2, Elements
  <1>6. Covered(q)
    BY <1>4, <1>5 DEF RulePlan, Covered
  <1> QED BY <1>2, <1>3, <1>6 DEF RulePlan, Guided

LEMMA RuleSkips ==
    ASSUME NEW p \in Seq(StepType), RulePlan(p), NEW q, SkipsSome(q, p)
    PROVE  RulePlan(q)
  <1>1. q \in Seq(StepType) /\ DOMAIN q = DOMAIN p /\ \A i \in DOMAIN p : Later(q[i], p[i]) /\ q[i].group = p[i].group
    BY SkipsLater DEF SkipsSome
  <1>2. Ordered(q)
    BY <1>1, OrderedMap DEF RulePlan, Guided
  <1>3. \A s \in ToSet(q) : \E r \in ToSet(p) : Later(s, r) /\ s.group = r.group
    BY <1>1 DEF ToSet
  <1>4. \A r \in ToSet(p) : \E s \in ToSet(q) : s.tool = r.tool
    BY <1>1 DEF ToSet, Later
  <1> QED BY <1>1, <1>2, <1>3, <1>4, RuleDerived DEF Derived

LEMMA FollowUpIs ==
    ASSUME NEW t \in Tools
    PROVE  FollowUp(t) \in StepType /\ FollowUp(t).tool = t /\ FollowUp(t).by = "plan"
  <1>1. <<t, "plain">> \in AllCalls /\ <<t, "plain">>[1] = t /\ "plan" \in Authors
    BY DEF AllCalls, Inputs, Authors
  <1>2. "followup" \in Labels
    BY DEF Labels
  <1>3. IsStep(FollowUp(t), <<t, "plain">>, "plan", "followup")
    BY <1>1, <1>2, StepIs DEF FollowUp
  <1> QED BY <1>1, <1>3 DEF IsStep

LEMMA RuleMissing ==
    ASSUME NEW p \in Seq(StepType), RulePlan(p), NEW tools \in Seq(Tools), NEW wanted
    PROVE  RulePlan(AppendMissing(p, tools, wanted))
  <1> DEFINE q == AppendMissing(p, tools, wanted)
             new == {FollowUp(t) : t \in Missing(p)}
  <1>1. Extends(q, p, new)
    BY MissingIs
  <1>2. \A s \in new : s.by = "plan" /\ s \in StepType /\ (s.tool \in GuardTools => ~Guarding(p))
    <2> SUFFICES ASSUME NEW t \in Missing(p)
                 PROVE  LET s == FollowUp(t)
                        IN  s.by = "plan" /\ s \in StepType /\ (s.tool \in GuardTools => ~Guarding(p))
      OBVIOUS
    <2>1. t \in Tools /\ t \notin attempted /\ ~HasTool(p, t)
      BY DEF Missing
    <2> QED BY <2>1, FollowUpIs DEF RulePlan, Covered
  <1> HIDE DEF q, new
  <1>3. q \in Seq(StepType) /\ \A i \in DOMAIN p : i \in DOMAIN q /\ q[i] = p[i]
    <2>1. q \in Seq(StepType) /\ Len(p) <= Len(q)
      BY <1>1 DEF Extends
    <2>2. DOMAIN p \subseteq DOMAIN q
      BY <2>1, MapElements
    <2> QED BY <1>1, <2>1, <2>2 DEF Extends
  <1>4. Derived(q, p)
    <2>1. \A s \in ToSet(q) : s \in ToSet(p) \/ s \in new
      BY <1>1 DEF Extends
    <2>2. \A s \in ToSet(p) : Later(s, s)
      BY MapElements, SkipIs
    <2>3. ToSet(p) \subseteq ToSet(q)
      BY <1>1 DEF Extends
    <2> QED BY <1>2, <1>3, <2>1, <2>2, <2>3 DEF Derived
  <1>5. Ordered(q)
    <2> SUFFICES ASSUME NEW i \in DOMAIN q, NEW j \in DOMAIN q, i < j PROVE Follows(q[i], q[j])
      BY DEF Ordered
    <2>0. DOMAIN q = 1..Len(q) /\ DOMAIN p = 1..Len(p) /\ Len(p) \in Nat /\ Len(q) \in Nat
      BY <1>3, MapElements
    <2>1. CASE j \in DOMAIN p
      <3>1. i \in DOMAIN p
        BY <2>0, <2>1
      <3> QED BY <1>3, <2>1, <3>1 DEF RulePlan, Guided, Ordered
    <2>2. CASE i \notin DOMAIN p
      <3>1. q[i] \in new
        BY <1>1, <2>2 DEF Extends
      <3> QED BY <1>2, <3>1 DEF Follows, PendingGuard
    <2>3. CASE i \in DOMAIN p /\ j \notin DOMAIN p
      <3>1. q[i] \in ToSet(p) /\ q[j] \in new
        BY <1>1, <1>3, <2>3, MapElements DEF Extends
      <3> QED BY <1>2, <3>1 DEF Follows, Guarding
    <2> QED BY <2>1, <2>2, <2>3
  <1>6. RulePlan(q)
    BY <1>4, <1>5, RuleDerived
  <1> QED BY <1>6 DEF q

LEMMA RuleProbe ==
    ASSUME NEW p \in Seq(StepType), RulePlan(p)
    PROVE  RulePlan(ProbePlan(p))
  <1> DEFINE q == ProbePlan(p)
  <1>1. /\ q \in Seq(StepType)
        /\ \A s \in ToSet(q) : \E r \in ToSet(p) \cup ProbeSteps : Same(s, r)
        /\ \A r \in ToSet(p) : \E s \in ToSet(q) : s.tool = r.tool
        /\ Ordered(p) /\ GuardsOnly(p) => Ordered(q)
    BY ProbePlanIs
  <1> HIDE DEF q
  <1>2. Ordered(q)
    BY <1>1, GuardsOnlyTools DEF RulePlan, Guided
  <1>3. ASSUME NEW r \in ProbeSteps PROVE r.by = "plan" /\ r.tool \notin GuardTools
    <2>1. PICK t \in ProbeTools : r = Step(<<t, "plain">>, "plan", "")
      BY DEF ProbeSteps
    <2>2. r.by = "plan" /\ r.tool = t
      BY <2>1, ProbeStepIs
    <2> QED BY <2>2 DEF ProbeTools, GuardTools
  <1>4. Derived(q, p)
    <2>1. ASSUME NEW s \in ToSet(q)
          PROVE  \/ \E r \in ToSet(p) : Later(s, r) /\ (s.group = r.group \/ s.group = "")
                 \/ s.by = "plan" /\ ~(Pending(s) /\ s.tool \in GuardTools /\ Guarding(p))
      <3>1. PICK r \in ToSet(p) \cup ProbeSteps : Same(s, r)
        BY <1>1
      <3>2. CASE r \in ToSet(p)
        BY <3>1, <3>2 DEF Same
      <3>3. CASE r \in ProbeSteps
        BY <1>3, <3>1, <3>3 DEF Same, Later
      <3> QED BY <3>2, <3>3
    <2>2. \A r \in ToSet(p) : \E s \in ToSet(q) : s.tool = r.tool
      BY <1>1
    <2> QED BY <1>1, <2>1, <2>2 DEF Derived
  <1>5. RulePlan(q)
    BY <1>2, <1>4, RuleDerived
  <1> QED BY <1>5 DEF q

LEMMA RuleEnforce ==
    ASSUME NEW p \in Seq(StepType), RulePlan(p), scene \in Scenes, ~pinned
    PROVE  RulePlan(Enforce(p).plan)
  <1>1. RulePlan(ProbePlan(p)) /\ RulePlan(AppendMissing(p, scene.needs, Tools))
    BY RuleProbe, RuleMissing, SceneIs
  <1>2. Enforce(p).plan \in {ProbePlan(p), AppendMissing(p, scene.needs, Tools), p}
    <2>1. CASE scene.probe /\ have /\ ProbeMissing(p) # {}
      <3>1. Enforce(p) = [plan |-> ProbePlan(p), changed |-> TRUE, refresh |-> facts # {"events", "logs"}]
        BY <2>1 DEF Enforce
      <3> QED BY <3>1
    <2>2. CASE ~(scene.probe /\ have /\ ProbeMissing(p) # {})
      <3> DEFINE q == IF have THEN AppendMissing(p, scene.needs, Tools) ELSE p
      <3>1. Enforce(p) = [plan |-> q, changed |-> q # p, refresh |-> FALSE]
        BY <2>2 DEF Enforce
      <3>2. Enforce(p).plan = q
        BY <3>1
      <3> QED BY <3>2
    <2> QED BY <2>1, <2>2
  <1> QED BY <1>1, <1>2

LEMMA RuleEvidence ==
    ASSUME NEW p \in Seq(StepType), RulePlan(p), NEW wanted
    PROVE  RulePlan(AppendEvidence(p, wanted)) /\ RulePlan(Distinguish(p))
  BY RuleMissing, ConstantsAre DEF AppendEvidence, Distinguish

\* A failed call skips the steps of its tool.
FailedSkips(p) == [i \in DOMAIN p |-> IF p[i].tool = last.tool /\ ~p[i].done
                                      THEN [p[i] EXCEPT !.skip = TRUE] ELSE p[i]]

LEMMA FailedSkipsIs ==
    ASSUME NEW p \in Seq(StepType)
    PROVE  SkipsSome(FailedSkips(p), p)
  <1> DEFINE is == {i \in DOMAIN p : p[i].tool = last.tool /\ ~p[i].done}
  <1>1. FailedSkips(p) = [i \in DOMAIN p |-> IF i \in is THEN [p[i] EXCEPT !.skip = TRUE] ELSE p[i]]
    BY DEF FailedSkips
  <1> HIDE DEF is
  <1> QED BY <1>1, SkipsAre

LEMMA RulesAdjust ==
    ASSUME NEW p, scene.planner = "rule", NEW q \in Adjusted(p)
    PROVE  \/ last.success /\ \E wanted : q = AppendEvidence(p, wanted)
           \/ ~last.success /\ q = FailedSkips(p)
  <1>1. q \in RuleAdjusted(p)
    BY DEF Adjusted
  <1> QED BY <1>1 DEF RuleAdjusted, FailedSkips

LEMMA RuleAdjustedPlan ==
    ASSUME NEW p \in Seq(StepType), RulePlan(p), scene.planner = "rule", NEW q \in Adjusted(p)
    PROVE  RulePlan(q)
  BY RulesAdjust, RuleEvidence, RuleSkips, FailedSkipsIs

LEMMA RulePrime ==
    ASSUME RulePlan(plan'), attempted' = attempted, completed' = completed
    PROVE  RulePlan(plan)'
  BY DEF RulePlan, Guided, Guards, Ordered, Follows, Settled, Covered, Guarding, PendingGuard, HasTool

\* After a call that failed, no guard's step of its tool is left to go on with,
\* unless the other guard has not answered either.
LastFails ==
    ~last.success =>
        \A s \in ToSet(plan) : PendingGuard(s) /\ s.tool = last.tool =>
            \A c \in ToSet(GuardCalls) : c[1] # last.tool => c \notin completed

RuleInv == scene.planner = "rule" /\ ~pinned => RulePlan(plan) /\ (pc = "decide" => LastFails)

LEMMA RuleInit == Init => RuleInv
  <1> SUFFICES ASSUME Init PROVE RulePlan(plan) /\ pc # "decide"
    BY DEF RuleInv
  <1>1. /\ scene \in Scenes /\ plan = [i \in DOMAIN scene.plan |-> InitialStep(scene.plan[i])]
        /\ scene.plan \in Seq(AllCalls) /\ completed = {} /\ pc = "select"
    BY SceneIs DEF Init
  <1>2. \A s \in ToSet(plan) : s.by = "plan"
    <2>1. \A i \in DOMAIN plan : plan[i].by = "plan"
      BY <1>1 DEF InitialStep, Step
    <2> QED BY <2>1 DEF ToSet
  <1>3. Guards(plan) /\ Settled(plan) /\ Covered(plan)
    BY <1>1, <1>2 DEF Guards, Settled, Covered, Guarding, PendingGuard
  <1>4. Ordered(plan)
    BY <1>2 DEF Ordered, Follows, PendingGuard, ToSet
  <1> QED BY <1>1, <1>3, <1>4 DEF RulePlan, Guided

\* A guard's step is taken alone.
LEMMA GuardAlone ==
    ASSUME AgentInv, scene.planner = "rule", RulePlan(plan), NEW i \in batch,
           plan[i].by = "guard" \/ Call(plan[i]) \in ToSet(GuardCalls)
    PROVE  /\ batch = {i} /\ PendingGuard(plan[i]) /\ Call(plan[i]) \in ToSet(GuardCalls)
           /\ \A j \in PendingIn(plan) : i <= j /\ (j # i => Follows(plan[i], plan[j]))
  <1>1. plan \in Seq(StepType) /\ batch \subseteq PendingIn(plan) /\ PendingIn(plan) \subseteq DOMAIN plan
    BY AgentParts DEF AgentInv, Batched, PendingIn
  <1>2. plan[i] \in ToSet(plan) /\ Pending(plan[i])
    BY <1>1 DEF ToSet, PendingIn
  <1>3. plan[i].by = "guard"
    BY <1>2, AgentParts DEF Sound, MayBePlanned
  <1>4. Call(plan[i]) \in ToSet(GuardCalls) /\ plan[i].group = ""
    BY <1>2, <1>3 DEF RulePlan, Guided, Guards
  <1>5. batch = {i} /\ \A j \in PendingIn(plan) : i <= j
    BY <1>4 DEF AgentInv, Batched
  <1>6. ASSUME NEW j \in PendingIn(plan), j # i PROVE Follows(plan[i], plan[j])
    <2>1. i \in Nat /\ j \in Nat /\ i \in DOMAIN plan /\ j \in DOMAIN plan
      BY <1>1, MapElements
    <2>2. i < j
      BY <1>5, <1>6, <2>1
    <2> QED BY <2>1, <2>2 DEF RulePlan, Guided, Ordered
  <1> QED BY <1>2, <1>3, <1>4, <1>5, <1>6 DEF PendingGuard

LEMMA RuleExecute ==
    ASSUME AgentInv, RuleInv, Execute
    PROVE  RuleInv'
  <1> SUFFICES ASSUME scene'.planner = "rule", ~pinned' PROVE RulePlan(plan)' /\ LastFails'
    BY DEF RuleInv
  <1>1. PICK good \in SUBSET batch, final \in batch :
              /\ pc = "execute" /\ batch # {} /\ \A j \in batch : j <= final
              /\ attempted' = attempted \cup ToolsOf(batch)
              /\ completed' = completed \cup {Call(plan[i]) : i \in good}
              /\ pinned' \in {pinned, TRUE} /\ (pinned' => scene.targets # <<>>  \/ pinned)
              /\ plan' = IF pinned' # pinned THEN Targeted(Marked(plan, batch), attempted \cup ToolsOf(batch)).plan
                         ELSE Marked(plan, batch)
              /\ last' = [tool |-> plan[final].tool, success |-> final \in good]
              /\ pc' = IF scene.planner = "llm" THEN "reflect" ELSE "decide"
              /\ stop' \in {stop, "critical_tool_failed"}
              /\ budget' = [budget EXCEPT !.steps = @ + Cardinality(batch)]
              /\ signal' \in BOOLEAN /\ have' \in BOOLEAN /\ facts' \subseteq {"events", "logs"}
              /\ verdict' \in Verdicts /\ batch' = {}
              /\ UNCHANGED <<scene, reflected, denied>>
    BY ExecuteIs
  <1> DEFINE q == Marked(plan, batch)
  <1>2. pinned' = pinned /\ plan' = q /\ scene.planner = "rule"
    BY <1>1
  <1>3. RulePlan(plan) /\ plan \in Seq(StepType) /\ Sound(plan)
    BY <1>2, AgentParts DEF RuleInv
  <1>4. /\ q \in Seq(StepType) /\ DOMAIN q = DOMAIN plan
        /\ \A i \in DOMAIN plan : Later(q[i], plan[i]) /\ q[i].group = plan[i].group
        /\ \A i \in DOMAIN plan : i \notin batch => q[i] = plan[i]
        /\ \A i \in batch \cap DOMAIN plan : ~Pending(q[i])
    BY <1>3, MarkedIs
  <1> HIDE DEF q
  <1>5. RulePlan(q)
    <2>1. Ordered(q)
      BY <1>3, <1>4, OrderedMap DEF RulePlan, Guided
    <2>2. \A s \in ToSet(q) : \E r \in ToSet(plan) : Later(s, r) /\ s.group = r.group
      BY <1>4 DEF ToSet
    <2>3. \A r \in ToSet(plan) : \E s \in ToSet(q) : s.tool = r.tool
      BY <1>4 DEF ToSet, Later
    <2> QED BY <1>3, <1>4, <2>1, <2>2, <2>3, RuleDerived DEF Derived
  <1>6. ASSUME NEW s \in ToSet(q), Pending(s) PROVE \E j \in PendingIn(plan) \ batch : s = plan[j]
    <2>1. PICK j \in DOMAIN q : s = q[j]
      BY DEF ToSet
    <2>2. j \notin batch
      BY <1>4, <1>6, <2>1
    <2> QED BY <1>4, <1>6, <2>1, <2>2 DEF PendingIn
  <1>7. ASSUME NEW c \in ToSet(GuardCalls), c \in completed', c \notin completed
        PROVE  \E i \in good : c = Call(plan[i]) /\ batch = {i} /\ PendingGuard(plan[i])
                               /\ \A j \in PendingIn(plan) : j # i => Follows(plan[i], plan[j])
    <2>1. PICK i \in good : c = Call(plan[i])
      BY <1>1, <1>7
    <2> QED BY <1>2, <1>3, <2>1, GuardAlone
  <1>8. ASSUME NEW c \in ToSet(GuardCalls), c \in completed', NEW s \in ToSet(q), Pending(s),
               s.tool \in GuardTools, s.tool # c[1]
        PROVE  s.by = "guard"
    <2>1. CASE c \in completed
      BY <1>5, <1>8, <2>1 DEF RulePlan, Guided, Settled
    <2>2. CASE c \notin completed
      <3>1. PICK i \in good : PendingGuard(plan[i]) /\ batch = {i}
                              /\ \A j \in PendingIn(plan) : j # i => Follows(plan[i], plan[j])
        BY <1>7, <1>8, <2>2
      <3>2. PICK j \in PendingIn(plan) \ batch : s = plan[j]
        BY <1>6, <1>8
      <3>3. Follows(plan[i], plan[j])
        BY <3>1, <3>2
      <3> QED BY <1>8, <3>1, <3>2, <3>3 DEF Follows
    <2> QED BY <2>1, <2>2
  <1>9. ASSUME (\E s \in ToSet(q) : PendingGuard(s)) \/ \E c \in ToSet(GuardCalls) : c \in completed',
               NEW t \in GuardTools
        PROVE  t \in attempted' \/ HasTool(q, t)
    <2>1. CASE Guarding(q)
      <3>1. t \in attempted \/ HasTool(q, t)
        BY <1>5, <2>1 DEF RulePlan, Covered
      <3> QED BY <1>1, <3>1
    <2>2. CASE ~Guarding(q)
      <3>1. PICK c \in ToSet(GuardCalls) : c \in completed' /\ c \notin completed
        BY <1>9, <2>2 DEF Guarding
      <3>2. PICK i \in good : PendingGuard(plan[i])
        BY <1>7, <3>1
      <3>3. Guarding(plan)
        <4>1. i \in DOMAIN plan
          BY AgentParts
        <4> QED BY <3>2, <4>1 DEF Guarding, ToSet
      <3>4. t \in attempted \/ HasTool(plan, t)
        BY <1>3, <3>3 DEF RulePlan, Covered
      <3>5. HasTool(plan, t) => HasTool(q, t)
        BY <1>4 DEF HasTool, Later
      <3> QED BY <1>1, <3>4, <3>5
    <2> QED BY <2>1, <2>2
  <1>10. RulePlan(plan)'
    <2>1. Guards(plan') /\ Ordered(plan')
      BY <1>2, <1>5 DEF RulePlan, Guided
    <2>2. Settled(plan)'
      BY <1>2, <1>8 DEF Settled
    <2>3. Covered(plan)'
      BY <1>2, <1>9 DEF Covered, Guarding, PendingGuard, HasTool
    <2>4. Guards(plan)' /\ Ordered(plan)'
      BY <2>1 DEF Guards, Ordered, Follows, PendingGuard
    <2> QED BY <2>2, <2>3, <2>4 DEF RulePlan, Guided
  <1>11. LastFails'
    <2> SUFFICES ASSUME ~last'.success, NEW s \in ToSet(q), PendingGuard(s), s.tool = last'.tool,
                        NEW c \in ToSet(GuardCalls), c[1] # last'.tool, c \in completed'
                 PROVE  FALSE
      BY <1>2 DEF LastFails, PendingGuard
    <2>1. last'.tool = plan[final].tool /\ final \notin good
      BY <1>1
    <2>2. c \in completed
      <3> SUFFICES ASSUME c \notin completed PROVE FALSE
        OBVIOUS
      <3>1. PICK i \in good : batch = {i}
        BY <1>7
      <3> QED BY <2>1, <3>1
    <2>3. PICK j \in PendingIn(plan) \ batch : s = plan[j]
      BY <1>6 DEF PendingGuard
    <2>4. plan[j] \in ToSet(plan) /\ plan[j].by = "guard" /\ Call(plan[j]) \in ToSet(GuardCalls) /\ s.tool \in GuardTools
      <3>1. plan[j] \in ToSet(plan) /\ plan[j].by = "guard"
        BY <2>3 DEF PendingIn, ToSet, PendingGuard
      <3>2. Call(plan[j]) \in ToSet(GuardCalls) /\ Call(plan[j])[1] = s.tool
        BY <1>3, <2>3, <3>1 DEF RulePlan, Guided, Guards, Call
      <3> QED BY <3>1, <3>2, GuardedTools
    <2>5. final \in PendingIn(plan) /\ plan[final] \in ToSet(plan) /\ Pending(plan[final])
      BY DEF AgentInv, Batched, PendingIn, ToSet
    <2>6. plan[final].by = "guard"
      BY <1>3, <2>1, <2>2, <2>4, <2>5 DEF RulePlan, Guided, Settled
    <2>7. /\ batch = {final} /\ PendingGuard(plan[final]) /\ Call(plan[final]) \in ToSet(GuardCalls)
          /\ \A k \in PendingIn(plan) : k # final => Follows(plan[final], plan[k])
      BY <1>2, <1>3, <2>6, GuardAlone
    <2>8. Follows(plan[final], plan[j]) /\ Pending(plan[j])
      BY <2>3, <2>7 DEF PendingIn
    <2>9. Call(plan[final]) # Call(plan[j])
      BY <2>3, <2>4, <2>7, <2>8 DEF Follows
    <2>10. Call(plan[final])[1] = Call(plan[j])[1]
      BY <2>1, <2>3 DEF Call
    <2> QED BY <2>4, <2>7, <2>9, <2>10, GuardedTools
  <1> QED BY <1>10, <1>11

\* Steps that call no tool.
LEMMA RuleKept ==
    ASSUME AgentInv, UNCHANGED <<scene, pinned, attempted, completed>>,
           scene.planner = "rule" /\ ~pinned => RulePlan(plan') /\ pc' # "decide"
    PROVE  RuleInv'
  <1> SUFFICES ASSUME scene'.planner = "rule", ~pinned' PROVE RulePlan(plan)' /\ pc' # "decide"
    BY DEF RuleInv
  <1> QED BY RulePrime

LEMMA RefreshKeeps ==
    ASSUME NEW e, Refresh(e) \/ UNCHANGED evidenceVars
    PROVE  UNCHANGED <<attempted, completed, signal>>
  BY DEF Refresh, evidenceVars

LEMMA PlannedSteps ==
    ASSUME AgentInv, RuleInv, scene.planner = "rule", ~pinned
    PROVE  /\ RulePlan(plan) /\ plan \in Seq(StepType) /\ scene \in Scenes
           /\ \A c \in completed : c[1] \in attempted
           /\ RulePlan(EnsureConfigEvidence(plan)) /\ EnsureConfigEvidence(plan) \in Seq(StepType)
           /\ RulePlan(Enforce(plan).plan) /\ Enforce(plan).plan \in Seq(StepType)
  <1>1. /\ RulePlan(plan) /\ plan \in Seq(StepType) /\ scene \in Scenes /\ Sound(plan)
        /\ \A c \in completed : c[1] \in attempted
    BY AgentParts DEF RuleInv, AgentInv, Flow
  <1>2. RulePlan(EnsureConfigEvidence(plan)) /\ EnsureConfigEvidence(plan) \in Seq(StepType)
    BY <1>1, RuleEnsure, EnsureIs
  <1>3. RulePlan(Enforce(plan).plan) /\ Enforce(plan).plan \in Seq(StepType)
    BY <1>1, RuleEnforce, EnforceIs, AgentParts DEF Sound
  <1> QED BY <1>1, <1>2, <1>3

LEMMA RuleSelects ==
    ASSUME AgentInv, RuleInv, Select \/ Exhaust
    PROVE  RuleInv'
  <1>1. UNCHANGED <<scene, pinned, attempted, completed>>
    BY RefreshKeeps DEF Select, Exhaust, evidenceVars
  <1>2. ASSUME scene.planner = "rule", ~pinned PROVE RulePlan(plan') /\ pc' # "decide"
    <2>1. TurnPlan = EnsureConfigEvidence(plan)
      BY <1>2 DEF TurnPlan
    <2>2. RulePlan(TurnPlan) /\ TurnPlan \in Seq(StepType)
      BY <1>2, <2>1, PlannedSteps
    <2>3. RulePlan(Enforce(TurnPlan).plan)
      BY <1>2, <2>2, RuleEnforce, AgentParts
    <2>4. CASE Select
      BY <2>2, <2>4 DEF Select
    <2>5. CASE Exhaust
      BY <2>3, <2>5 DEF Exhaust, NextTurn, Stopped
    <2> QED BY <2>4, <2>5
  <1> QED BY <1>1, <1>2, RuleKept

LEMMA RuleBudgets ==
    ASSUME AgentInv, RuleInv, Budget
    PROVE  RuleInv'
  <1>1. UNCHANGED <<scene, pinned, attempted, completed>> /\ pc' # "decide"
    BY DEF Budget, evidenceVars
  <1>2. \E is : plan' = [i \in DOMAIN plan |-> IF i \in is THEN [plan[i] EXCEPT !.skip = TRUE] ELSE plan[i]]
    BY DEF Budget
  <1>3. plan \in Seq(StepType)
    BY AgentParts
  <1>4. SkipsSome(plan', plan)
    BY <1>2, <1>3, SkipsAre
  <1>5. scene.planner = "rule" /\ ~pinned => RulePlan(plan')
    BY <1>3, <1>4, RuleSkips DEF RuleInv
  <1> QED BY <1>1, <1>5, RuleKept

LEMMA RuleConcludes ==
    ASSUME AgentInv, RuleInv, Conclude
    PROVE  RuleInv'
  <1>1. PICK guarded, e, wide : Concluded(guarded, e, wide)
    BY ConcludedIs
  <1>2. /\ plan' \in {plan, guarded, e.plan, wide, AppendEvidence(wide, verdict.gaps)}
        /\ Refresh(e) \/ UNCHANGED evidenceVars
        /\ NextTurn \/ Stopped(stop) \/ Stopped("confirmed_hypothesis")
    BY <1>1 DEF Concluded, Outcome
  <1>3. UNCHANGED <<scene, pinned, attempted, completed>> /\ pc' # "decide"
    BY <1>2, RefreshKeeps DEF Conclude, NextTurn, Stopped
  <1>4. ASSUME scene.planner = "rule", ~pinned PROVE RulePlan(plan')
    <2>1. /\ guarded = EnsureConfigEvidence(plan) /\ e = Enforce(plan)
          /\ wide = Distinguish(e.plan)
      BY <1>1, <1>4 DEF Concluded, Outcome
    <2>2. RulePlan(plan) /\ RulePlan(guarded) /\ RulePlan(e.plan) /\ e.plan \in Seq(StepType)
      BY <1>4, <2>1, PlannedSteps
    <2>3. RulePlan(wide)
      BY <2>1, <2>2, RuleEvidence
    <2>4. wide \in Seq(StepType)
      <3>1. Sound(e.plan)
        BY <2>1, AgentParts, EnforceIs
      <3> QED BY <2>1, <3>1, SoundEvidence DEF Sound
    <2>5. RulePlan(AppendEvidence(wide, verdict.gaps))
      BY <2>3, <2>4, RuleEvidence
    <2> QED BY <1>2, <2>2, <2>3, <2>5
  <1> QED BY <1>3, <1>4, RuleKept

LEMMA RuleAdjusts ==
    ASSUME AgentInv, RuleInv, Adjust
    PROVE  RuleInv'
  <1>1. PICK held, revised, p, e : /\ Adjusting(held, revised, p, e)
                                   /\ Sound(held.plan) /\ Sound(revised) /\ Sound(p) /\ Sound(e.plan)
                                   /\ e.refresh \in BOOLEAN
    BY AdjustIs
  <1>2. /\ held = Enforce(plan) /\ p = DropCompleted(revised) /\ e = Enforce(p)
        /\ revised \in IF pinned THEN {held.plan} ELSE Adjusted(Distinguish(held.plan))
        /\ plan' \in {p, e.plan} /\ (Refresh(e) \/ UNCHANGED evidenceVars)
        /\ NextTurn \/ Stopped(ExhaustedReason(e.plan))
    BY <1>1 DEF Adjusting
  <1>3. UNCHANGED <<scene, pinned, attempted, completed>> /\ pc' # "decide"
    BY <1>2, AdjustIs, RefreshKeeps DEF NextTurn, Stopped
  <1>4. ASSUME scene.planner = "rule", ~pinned PROVE RulePlan(plan')
    <2>1. RulePlan(held.plan) /\ held.plan \in Seq(StepType)
      BY <1>2, <1>4, PlannedSteps
    <2>2. RulePlan(Distinguish(held.plan)) /\ Distinguish(held.plan) \in Seq(StepType)
      BY <1>1, <2>1, RuleEvidence, SoundEvidence DEF Sound
    <2>3. RulePlan(revised) /\ revised \in Seq(StepType)
      BY <1>1, <1>2, <1>4, <2>2, RuleAdjustedPlan DEF Sound
    <2>4. RulePlan(p) /\ p \in Seq(StepType)
      BY <1>1, <1>2, <2>3, DropIs, RuleSkips DEF Sound
    <2>5. RulePlan(e.plan)
      BY <1>2, <1>4, <2>4, RuleEnforce, AgentParts
    <2> QED BY <1>2, <2>4, <2>5
  <1> QED BY <1>3, <1>4, RuleKept

LEMMA RuleReflects ==
    ASSUME AgentInv, Reflect \/ SkipReflection
    PROVE  RuleInv'
  <1>1. pc = "reflect" /\ scene' = scene
    BY DEF Reflect, SkipReflection
  <1>2. scene.planner = "llm"
    BY <1>1 DEF AgentInv, Flow
  <1> QED BY <1>1, <1>2 DEF RuleInv

LEMMA RuleStays ==
    ASSUME AgentInv, RuleInv, Timeout \/ ReachMaxSteps \/ Done \/ UNCHANGED vars
    PROVE  RuleInv'
  <1>1. CASE Timeout \/ ReachMaxSteps
    <2>1. UNCHANGED <<scene, pinned, attempted, completed>> /\ plan' = plan /\ pc' # "decide"
      BY <1>1 DEF Timeout, ReachMaxSteps, Stopped, evidenceVars
    <2> QED BY <2>1, RuleKept DEF RuleInv
  <1>2. CASE UNCHANGED vars
    <2>1. UNCHANGED <<scene, pinned, attempted, completed, plan, pc, last>>
      BY <1>2 DEF vars, evidenceVars
    <2>2. scene.planner = "rule" /\ ~pinned => RulePlan(plan)'
      BY <2>1, RulePrime DEF RuleInv
    <2>3. LastFails' = LastFails
      BY <2>1 DEF LastFails, PendingGuard
    <2> QED BY <2>1, <2>2, <2>3 DEF RuleInv
  <1> QED BY <1>1, <1>2 DEF Done

\* Where the rules plan, every step keeps RuleInv.
LEMMA RuleStep == AgentInv /\ RuleInv /\ [Next]_vars => RuleInv'
  <1> SUFFICES ASSUME AgentInv, RuleInv, [Next]_vars PROVE RuleInv'
    OBVIOUS
  <1>1. CASE Select \/ Exhaust \/ Budget \/ Execute
    BY <1>1, RuleSelects, RuleBudgets, RuleExecute
  <1>2. CASE Reflect \/ SkipReflection \/ Conclude \/ Adjust
    BY <1>2, RuleReflects, RuleConcludes, RuleAdjusts
  <1>3. CASE Timeout \/ ReachMaxSteps \/ Done \/ UNCHANGED vars
    BY <1>3, RuleStays
  <1> QED BY <1>1, <1>2, <1>3 DEF Next, Turn

-----------------------------------------------------------------------------
(* A confirmed hypothesis.                                                 *)

\* EvidenceFirst of the plan q, in a state that otherwise does not change.
Evidence(q) ==
    /\ \A s \in ToSet(q) : Pending(s) /\ s.by \in Required => Answered(Call(s))
    /\ scene.probe /\ have /\ ~pinned => ProbeMissing(q) = {}
    /\ signal /\ scene.planner = "rule" =>
           \A i \in DOMAIN GuardCalls : Answered(GuardCalls[i]) \/ PendingCall(q, GuardCalls[i])

LEMMA EvidencePrime ==
    ASSUME Evidence(plan'), UNCHANGED <<scene, pinned, completed, have, signal>>
    PROVE  EvidenceFirst'
  <1>1. ASSUME NEW i \in PendingIn(plan'), plan'[i].by \in Required
        PROVE  Answered(<<plan'[i].tool, plan'[i].input>>)
    <2>1. plan'[i] \in ToSet(plan') /\ Pending(plan'[i])
      BY DEF PendingIn, ToSet
    <2> QED BY <1>1, <2>1 DEF Evidence, Call
  <1>2. \A c : Answered(c)' <=> Answered(c)
    BY DEF Answered
  <1>3. ProbeMissing(plan)' = ProbeMissing(plan')
    BY DEF ProbeMissing, Collected
  <1>4. PendingIn(plan)' = PendingIn(plan')
    BY DEF PendingIn
  <1>5. \A c : PendingCall(plan, c)' <=> PendingCall(plan', c)
    BY <1>4 DEF PendingCall
  <1>6. \A i \in PendingIn(plan)' : plan'[i].by \in Required => Answered(<<plan[i].tool, plan[i].input>>)'
    BY <1>1, <1>2, <1>4 DEF Answered
  <1>7. signal' /\ scene'.planner = "rule" => FollowUps'
    BY <1>2, <1>5 DEF Evidence, FollowUps
  <1>8. scene'.probe /\ have' /\ ~pinned' => ProbeMissing(plan)' = {}
    BY <1>3 DEF Evidence
  <1> QED BY <1>6, <1>7, <1>8 DEF EvidenceFirst

\* A pending call of a guard is its own step, where the rules plan.
LEMMA GuardPending ==
    ASSUME NEW p, Sound(p), scene.planner = "rule", NEW c \in ToSet(GuardCalls), PendingCall(p, c)
    PROVE  \E s \in ToSet(p) : PendingGuard(s) /\ Call(s) = c /\ Kept(s) /\ ~s.done
  <1>1. p \in Seq(StepType)
    BY DEF Sound
  <1>2. PICK s \in ToSet(p) : Pending(s) /\ Call(s) = c
    BY <1>1, Elements
  <1>3. s.by = "guard"
    BY <1>2 DEF Sound, MayBePlanned
  <1> QED BY <1>2, <1>3 DEF PendingGuard, Kept, Adaptive, Pending

LEMMA GuardedPlan ==
    ASSUME AgentInv, EnsureConfigEvidence(plan) = plan, signal, NEW c \in ToSet(GuardCalls)
    PROVE  Answered(c) \/ PendingCall(plan, c)
  <1>1. plan \in Seq(StepType)
    BY AgentParts
  <1>2. \A i \in DOMAIN GuardCalls : Answered(GuardCalls[i]) \/ PendingCall(plan, GuardCalls[i])
    BY <1>1, EnsureIs
  <1> QED BY <1>2 DEF ToSet

\* Stopping on a confirmed hypothesis keeps EvidenceFirst: Conclude is where it
\* could break.
LEMMA ConcludeEvidence ==
    ASSUME AgentInv, Conclude, stop' = "confirmed_hypothesis"
    PROVE  EvidenceFirst'
  <1>1. PICK guarded, e, wide : Concluded(guarded, e, wide)
    BY ConcludedIs
  <1>2. stop \in {"", "critical_tool_failed"}
    BY DEF AgentInv, Flow, Conclude
  <1>3. /\ guarded = plan /\ ~e.changed /\ verdict.top = "converged"
        /\ plan' = wide /\ ~PendingRequired(wide) /\ UNCHANGED evidenceVars
    BY <1>1, <1>2 DEF Concluded, Outcome, NextTurn, Stopped
  <1>4. e = Enforce(plan) /\ guarded = EnsureConfigEvidence(plan) /\ wide = e.plan
    BY <1>1, <1>3 DEF Concluded, Outcome, Distinguish
  <1>5. Sound(wide) /\ wide \in Seq(StepType)
    BY <1>4, AgentParts, EnforceIs DEF Sound
  <1>6. \A s \in ToSet(wide) : ~(Pending(s) /\ s.by \in Required)
    BY <1>3, <1>5, Elements
  <1>7. scene.probe /\ have /\ ~pinned => ProbeMissing(wide) = {}
    BY <1>3, <1>4, AgentParts, EnforceIs
  <1>8. ASSUME signal, scene.planner = "rule", NEW c \in ToSet(GuardCalls)
        PROVE  Answered(c) \/ PendingCall(wide, c)
    <2>1. Answered(c) \/ PendingCall(plan, c)
      BY <1>3, <1>4, <1>8, GuardedPlan
    <2>2. CASE ~pinned
      <3>1. wide = plan
        BY <1>3, <1>4, <2>2, AgentParts, EnforceIs
      <3> QED BY <2>1, <3>1
    <2>3. CASE pinned /\ PendingCall(plan, c)
      <3>1. wide = Targeted(plan, attempted).plan
        BY <1>4, <2>3, AgentParts, EnforceIs
      <3>2. PICK r \in ToSet(plan) : Call(r) = c /\ Kept(r) /\ ~r.done
        BY <1>8, <2>3, AgentParts, GuardPending
      <3>3. \A u \in ToSet(plan) : Kept(u) /\ ~u.done =>
               \E s \in ToSet(Targeted(plan, attempted).plan) : Pending(s) /\ Call(s) = Call(u) /\ s.by = u.by
        BY AgentParts, TargetedIs
      <3>4. \E s \in ToSet(wide) : Pending(s) /\ Call(s) = c
        BY <3>1, <3>2, <3>3
      <3> QED BY <1>5, <3>4, Elements
    <2> QED BY <2>1, <2>2, <2>3
  <1>9. \A i \in DOMAIN GuardCalls : GuardCalls[i] \in ToSet(GuardCalls)
    BY DEF ToSet
  <1>10. Evidence(wide)
    BY <1>6, <1>7, <1>8, <1>9 DEF Evidence
  <1>11. UNCHANGED <<scene, pinned, completed, have, signal>>
    BY <1>3 DEF Conclude, evidenceVars
  <1> QED BY <1>3, <1>10, <1>11, EvidencePrime

\* A pending step that has not answered is not dropped as completed.
LEMMA Survives ==
    ASSUME NEW p \in Seq(StepType), NEW s \in ToSet(p), Pending(s), ~Answered(Call(s))
    PROVE  PendingIn(DropCompleted(p)) # {}
  <1>1. PICK i \in DOMAIN p : s = p[i]
    BY DEF ToSet
  <1>2. DOMAIN DropCompleted(p) = DOMAIN p /\ DropCompleted(p)[i] = s
    BY <1>1, DropIs DEF SkipsSome
  <1> QED BY <1>1, <1>2 DEF PendingIn

\* Under the rules nothing is left of a plan only once the guards have answered.
LEMMA RulesLeaveGuards ==
    ASSUME AgentInv, RuleInv, pc = "decide", scene.planner = "rule", ~pinned, signal,
           EnsureConfigEvidence(plan) = plan,
           NEW q \in Adjusted(Distinguish(plan)), PendingIn(DropCompleted(q)) = {},
           NEW c \in ToSet(GuardCalls)
    PROVE  Answered(c)
  <1> DEFINE D == Distinguish(plan)
  <1>1. plan \in Seq(StepType) /\ Sound(plan) /\ Sound(D) /\ D \in Seq(StepType) /\ Sound(q) /\ q \in Seq(StepType)
    <2>1. Sound(plan) /\ Sound(D)
      BY AgentParts, SoundEvidence
    <2>2. Sound(q)
      BY <2>1, AgentParts, SoundAdjusted
    <2> QED BY <2>1, <2>2 DEF Sound
  <1>2. ToSet(plan) \subseteq ToSet(D)
    BY <1>1, ConstantsAre, MissingIs DEF Distinguish, AppendEvidence, Extends
  <1> HIDE DEF D
  <1>3. ASSUME NEW d \in ToSet(GuardCalls), ~Answered(d), last.success \/ d[1] # last.tool PROVE FALSE
    <2>1. PendingCall(plan, d)
      BY <1>3, GuardedPlan
    <2>2. PICK s \in ToSet(D) : Pending(s) /\ Call(s) = d
      BY <1>1, <1>2, <2>1, Elements
    <2>3. CASE last.success
      <3>1. PICK wanted : q = AppendEvidence(D, wanted)
        BY <2>3, RulesAdjust DEF D
      <3>2. ToSet(D) \subseteq ToSet(q)
        BY <1>1, <3>1, ConstantsAre, MissingIs DEF AppendEvidence, Extends
      <3> QED BY <1>1, <1>3, <2>2, <3>2, Survives
    <2>4. CASE ~last.success
      <3>1. q = FailedSkips(D)
        BY <2>4, RulesAdjust DEF D
      <3>2. s.tool # last.tool
        BY <1>3, <2>2, <2>4 DEF Call
      <3>3. PICK i \in DOMAIN D : s = D[i]
        BY <2>2 DEF ToSet
      <3>4. i \in DOMAIN q /\ q[i] = s
        BY <3>1, <3>2, <3>3 DEF FailedSkips
      <3>5. s \in ToSet(q)
        BY <3>4 DEF ToSet
      <3> QED BY <1>1, <1>3, <2>2, <3>5, Survives
    <2> QED BY <2>3, <2>4
  <1> SUFFICES ASSUME ~Answered(c) PROVE FALSE
    OBVIOUS
  <1>4. ~last.success /\ c[1] = last.tool
    BY <1>3 DEF AgentInv, AgentTypeOK
  <1>5. PICK s \in ToSet(plan) : PendingGuard(s) /\ Call(s) = c
    <2>1. PendingCall(plan, c)
      BY GuardedPlan
    <2> QED BY <1>1, <2>1, GuardPending
  <1>6. PICK d \in ToSet(GuardCalls) : d[1] # c[1]
    BY GuardCallsAre DEF GuardCalls
  <1>7. d \notin completed
    <2>1. s.tool = last.tool
      BY <1>4, <1>5 DEF Call
    <2> QED BY <1>4, <1>5, <1>6, <2>1 DEF RuleInv, LastFails
  <1>8. ~Answered(d)
    BY <1>6, <1>7, GuardedTools DEF Answered
  <1> QED BY <1>3, <1>4, <1>6, <1>8

\* Of a plan for a pinned fault, what was kept is pending or done.
LEMMA KeptPends ==
    ASSUME NEW p, Sound(p), NEW tried, scene \in Scenes, NEW s \in ToSet(Targeted(p, tried).plan),
           Kept(s), ~s.done
    PROVE  Pending(s)
  <1>1. p \in Seq(StepType)
    BY DEF Sound
  <1>2. \A u \in ToSet(Targeted(p, tried).plan) : \/ \E r \in ToSet(p) : Revision(u, r, tried)
                                                  \/ \E t \in Wanted(tried) : u = TargetStep(t)
    BY <1>1, TargetedIs
  <1>3. s.by # "pre"
    BY DEF Kept, Adaptive
  <1>4. CASE \E t \in Wanted(tried) : s = TargetStep(t)
    BY <1>3, <1>4 DEF TargetStep, Step
  <1>5. CASE \E r \in ToSet(p) : Revision(s, r, tried)
    <2>1. PICK r \in ToSet(p) : Revision(s, r, tried)
      BY <1>5
    <2>2. Kept(r) /\ ~r.done
      BY <1>3, <2>1 DEF Revision, Kept
    <2> QED BY <2>1, <2>2 DEF Revision
  <1> QED BY <1>2, <1>4, <1>5

\* For a pinned fault nothing is left of a plan only once what was asked for has answered.
LEMMA PinnedLeaves ==
    ASSUME AgentInv, pinned, NEW h, h = Targeted(plan, attempted).plan, NEW p, p = DropCompleted(h),
           Sound(h), Sound(p), PendingIn(p) = {}, ~Targeted(p, attempted).changed,
           NEW s \in ToSet(Targeted(p, attempted).plan), Pending(s), s.by \in Required
    PROVE  Answered(Call(s))
  <1>1. h \in Seq(StepType) /\ p \in Seq(StepType) /\ scene \in Scenes
    BY AgentParts DEF Sound
  <1>2. \A u \in ToSet(Targeted(p, attempted).plan) : Pending(u) =>
            \E r \in ToSet(p) : /\ Revision(u, r, attempted)
                                /\ \/ Pending(r) \/ (Kept(r) /\ ~r.done)
                                   \/ r.tool = "runbook" /\ "runbook" \notin ToSet(scene.targets) /\ u.by = r.by
    BY <1>1, TargetedIs
  <1>3. PICK r \in ToSet(p) : /\ Revision(s, r, attempted)
                              /\ \/ Pending(r) \/ (Kept(r) /\ ~r.done)
                                 \/ r.tool = "runbook" /\ "runbook" \notin ToSet(scene.targets) /\ s.by = r.by
    BY <1>2
  <1>4. ~Pending(r)
    BY <1>1, Elements
  <1>5. ~r.done /\ Call(s) = Call(r)
    BY <1>3 DEF Revision, Pending
  <1>6. Kept(r)
    <2> SUFFICES ASSUME ~Kept(r) PROVE FALSE
      OBVIOUS
    <2>1. r.tool = "runbook" /\ "runbook" \notin ToSet(scene.targets) /\ s.by = r.by
      BY <1>3, <1>4
    <2>2. r.by = "pre"
      BY <2>1 DEF Required, Kept
    <2> QED BY <2>1, <2>2 DEF Sound, MayBePlanned
  <1>7. PICK i \in DOMAIN p : r = p[i]
    BY DEF ToSet
  <1>8. SkipsSome(p, h) /\ (~Answered(Call(h[i])) => p[i] = h[i])
    BY <1>1, <1>7, DropIs DEF SkipsSome
  <1>9. i \in DOMAIN h /\ h[i] \in ToSet(h) /\ Later(p[i], h[i])
    BY <1>1, <1>7, <1>8, SkipsLater DEF SkipsSome, ToSet
  <1>10. Answered(Call(h[i]))
    <2> SUFFICES ASSUME p[i] = h[i] PROVE FALSE
      BY <1>8
    <2>1. Pending(h[i])
      BY <1>1, <1>5, <1>6, <1>7, <1>9, AgentParts, KeptPends
    <2> QED BY <1>4, <1>7, <2>1
  <1> QED BY <1>5, <1>7, <1>9, <1>10 DEF Later

LEMMA AdjustEvidence ==
    ASSUME AgentInv, RuleInv, Adjust, stop' = "confirmed_hypothesis"
    PROVE  EvidenceFirst'
  <1>1. PICK held, revised, p, e : /\ Adjusting(held, revised, p, e)
                                   /\ Sound(held.plan) /\ Sound(revised) /\ Sound(p) /\ Sound(e.plan)
                                   /\ e.refresh \in BOOLEAN
    BY AdjustIs
  <1>2. pc = "decide" /\ stop = "" /\ UNCHANGED <<scene, last, pinned, reflected, budget, denied>>
    BY AdjustIs
  <1>3. /\ held = Enforce(plan) /\ p = DropCompleted(revised) /\ e = Enforce(p)
        /\ revised \in IF pinned THEN {held.plan} ELSE Adjusted(Distinguish(held.plan))
        /\ EnsureConfigEvidence(plan) = plan /\ ~held.changed
        /\ PendingIn(p) = {} /\ plan' = e.plan /\ Refresh(e) /\ ~e.changed
    BY <1>1, <1>2 DEF Adjusting, NextTurn
  <1>4. scene \in Scenes /\ pinned \in BOOLEAN /\ Sound(plan) /\ plan \in Seq(StepType) /\ have \in BOOLEAN
    BY AgentParts
  <1>5. /\ pinned => e.plan = Targeted(p, attempted).plan /\ ~Targeted(p, attempted).changed
        /\ ~pinned => e.plan = p /\ (scene.probe /\ have => ProbeMissing(p) = {})
        /\ ~e.refresh
    BY <1>1, <1>3, <1>4, EnforceIs
  <1>6. /\ pinned => held.plan = Targeted(plan, attempted).plan
        /\ ~pinned => held.plan = plan
    BY <1>3, <1>4, EnforceIs
  <1>7. UNCHANGED <<scene, pinned, completed, have, signal>>
    BY <1>2, <1>3, <1>4, <1>5 DEF Refresh
  <1>8. CASE pinned
    <2>1. revised = held.plan
      BY <1>3, <1>8
    <2>2. ASSUME NEW s \in ToSet(e.plan), Pending(s), s.by \in Required PROVE Answered(Call(s))
      BY <1>1, <1>3, <1>5, <1>6, <1>8, <2>1, <2>2, PinnedLeaves
    <2>3. ASSUME signal, scene.planner = "rule", NEW c \in ToSet(GuardCalls) PROVE Answered(c)
      <3> SUFFICES ASSUME ~Answered(c) PROVE FALSE
        OBVIOUS
      <3>1. PendingCall(plan, c)
        BY <1>3, <2>3, GuardedPlan
      <3>2. PICK r \in ToSet(plan) : Call(r) = c /\ Kept(r) /\ ~r.done
        BY <1>4, <2>3, <3>1, GuardPending
      <3>3. \A u \in ToSet(plan) : Kept(u) /\ ~u.done =>
               \E s \in ToSet(Targeted(plan, attempted).plan) : Pending(s) /\ Call(s) = Call(u) /\ s.by = u.by
        BY <1>4, TargetedIs
      <3>4. PICK s \in ToSet(revised) : Pending(s) /\ Call(s) = c
        BY <1>6, <1>8, <2>1, <3>2, <3>3
      <3>5. revised \in Seq(StepType)
        BY <1>1 DEF Sound
      <3> QED BY <1>3, <3>4, <3>5, Survives
    <2>4. \A i \in DOMAIN GuardCalls : GuardCalls[i] \in ToSet(GuardCalls)
      BY DEF ToSet
    <2>5. Evidence(plan')
      BY <1>3, <1>8, <2>2, <2>3, <2>4 DEF Evidence
    <2> QED BY <1>7, <2>5, EvidencePrime
  <1>9. CASE ~pinned
    <2>1. plan' = p /\ p \in Seq(StepType) /\ revised \in Adjusted(Distinguish(plan))
      BY <1>1, <1>3, <1>5, <1>6, <1>9 DEF Sound
    <2>2. \A s \in ToSet(p) : ~Pending(s)
      BY <1>3, <2>1, Elements
    <2>3. ASSUME signal, scene.planner = "rule", NEW c \in ToSet(GuardCalls) PROVE Answered(c)
      BY <1>2, <1>3, <1>9, <2>1, <2>3, RulesLeaveGuards
    <2>4. \A i \in DOMAIN GuardCalls : GuardCalls[i] \in ToSet(GuardCalls)
      BY DEF ToSet
    <2>5. Evidence(plan')
      BY <1>5, <1>9, <2>1, <2>2, <2>3, <2>4 DEF Evidence
    <2> QED BY <1>7, <2>5, EvidencePrime
  <1> QED BY <1>4, <1>8, <1>9

\* Only Conclude and Adjust confirm a hypothesis.
LEMMA OthersConfirmNothing ==
    ASSUME AgentInv, stop # "confirmed_hypothesis",
           Timeout \/ ReachMaxSteps \/ Select \/ Exhaust \/ Budget \/ Execute \/ SkipReflection \/ Reflect
    PROVE  stop' # "confirmed_hypothesis"
  <1>1. CASE Timeout \/ ReachMaxSteps \/ Select \/ Budget \/ SkipReflection
    BY <1>1 DEF Timeout, ReachMaxSteps, Select, Budget, SkipReflection, Stopped
  <1>2. CASE Exhaust
    BY <1>2 DEF Exhaust, Stopped, NextTurn
  <1>3. CASE Execute
    <2>1. stop' \in {stop, "critical_tool_failed"}
      BY <1>3, ExecuteIs
    <2> QED BY <2>1
  <1>4. CASE Reflect
    <2>1. stop' = stop \/ stop' = "llm_reflection_complete"
      <3>1. NextTurn => stop' = stop
        BY DEF NextTurn
      <3>2. Stopped("llm_reflection_complete") => stop' = "llm_reflection_complete"
        BY DEF Stopped
      <3> QED BY <1>4, <3>1, <3>2, Zenon DEF Reflect
    <2> QED BY <2>1
  <1> QED BY <1>1, <1>2, <1>3, <1>4

EvidenceInv == RuleInv /\ EvidenceFirst

\* Every step keeps EvidenceInv.
LEMMA EvidenceStep == AgentInv /\ EvidenceInv /\ [Next]_vars => EvidenceInv'
  <1> SUFFICES ASSUME AgentInv, EvidenceInv, [Next]_vars PROVE EvidenceFirst'
    BY RuleStep DEF EvidenceInv
  <1>1. CASE stop = "confirmed_hypothesis"
    <2>1. pc = "stopped"
      BY <1>1 DEF AgentInv, Flow
    <2>2. UNCHANGED vars
      BY <2>1 DEF Next, Turn, Timeout, ReachMaxSteps, Select, Exhaust, Budget, Execute, SkipReflection,
                  Reflect, Conclude, Adjust, Done
    <2>3. /\ UNCHANGED <<scene, plan, pinned, stop>> /\ UNCHANGED <<completed, have, signal>>
      BY <2>2 DEF vars, evidenceVars
    <2>4. EvidenceFirst' = EvidenceFirst
      BY <2>3 DEF EvidenceFirst, PendingIn, Answered, ProbeMissing, Collected, FollowUps, PendingCall
    <2> QED BY <2>4 DEF EvidenceInv
  <1>2. CASE stop # "confirmed_hypothesis"
    <2>1. CASE stop' # "confirmed_hypothesis"
      BY <2>1 DEF EvidenceFirst
    <2>2. CASE stop' = "confirmed_hypothesis"
      <3>1. Conclude \/ Adjust
        BY <1>2, <2>2, OthersConfirmNothing DEF Next, Turn, Done, vars
      <3> QED BY <2>2, <3>1, ConcludeEvidence, AdjustEvidence DEF EvidenceInv
    <2> QED BY <2>1, <2>2
  <1> QED BY <1>1, <1>2

\* A confirmed hypothesis is announced only once the evidence that was asked for
\* is there: whatever the planner, the tools and the LLM did before.
THEOREM EvidenceComesFirst == Spec => []EvidenceFirst
  <1>1. Init => EvidenceInv
    BY RuleInit DEF EvidenceInv, Init, EvidenceFirst
  <1>2. AgentInv /\ EvidenceInv /\ [Next]_vars => EvidenceInv'
    BY EvidenceStep
  <1>3. EvidenceInv => EvidenceFirst
    BY DEF EvidenceInv
  <1> QED BY <1>1, <1>2, <1>3, AgentInvariant, PTL DEF Spec

=============================================================================
