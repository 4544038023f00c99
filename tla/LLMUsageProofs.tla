---------------------------- MODULE LLMUsageProofs ----------------------------
(***************************************************************************)
(* What the accounts of the language model guarantee for any number of     *)
(* diagnoses at a time, any prices and any limits.                         *)
(***************************************************************************)
EXTENDS LLMUsage, FiniteSetTheorems, TLAPS

USE LLMAssumption

(* The part of the types the arguments need. *)
Contexts == {"none", "live", "cancelled"}
RunStates == [stage : Stages, context : Contexts,
              turns : Nat, rounds : Nat, digests : Nat, attempts : Nat]
Kinds == {"plan", "score", "reflect", "adjust", "digest", "summary", "grounded"}
Scoring == {"score", "align", "final"}
Typed ==
    /\ run \in [Runs -> RunStates] /\ DOMAIN call = Runs
    /\ mutex \in Runs \cup {None}
    /\ usage \in [n : Nat, tokens : Nat]
    /\ total \in Nat /\ calls \in Nat /\ answers \in Nat
    /\ budget \in [Runs -> Nat] /\ spent \in [Runs -> Nat] /\ last \in [Runs -> Nat]
    /\ \A r \in Runs : InHand(r) => call[r].tokens \in Nat
    /\ \A r \in Runs : call[r].step # "none" =>
          call[r].kind \in Kinds /\ (call[r].kind = "score" => run[r].stage \in Scoring)

(* A run in captureUsage holds the mutex and what it has read is what is there. *)
MutexInv ==
    /\ \A r \in Runs : call[r].step = "locked" =>
          /\ mutex = r
          /\ call[r].calls = calls /\ call[r].total = total
          /\ usage.n = calls + 1
    /\ mutex # None => call[mutex].step = "locked"
    /\ mutex = None => usage.n = calls

(* The run of a row is over, so its last call is behind it. *)
RowsInv ==
    /\ \A r \in Runs : last[r] <= calls
    /\ \A r \in Runs : run[r].stage = "done" => call[r].step = "none"
    /\ \A row \in rows : /\ row.run \in Runs /\ run[row.run].stage = "done"
                         /\ row.n >= last[row.run]

UsageInv == Typed /\ MutexInv /\ RowsInv /\ AllowanceIsOwn

(* Every call a diagnosis makes is an Ask of a diagnosis that has not ended. *)
Asking(r) == /\ call[r].step = "none" /\ run[r].stage # "done"
             /\ \E kind \in Kinds, limit \in Int :
                   /\ Ask(r, kind, limit)
                   /\ kind = "score" => run[r].stage \in Scoring
(* The steps that move a diagnosis without a call. *)
Moving(r) == /\ call[r].step = "none" /\ run[r].stage # "done"
             /\ \E next \in RunStates : run' = [run EXCEPT ![r] = next]
             /\ UNCHANGED <<config, call, client, rows, unstored, history>>

LEMMA ToStates ==
    ASSUME NEW me \in RunStates, NEW stage \in Stages
    PROVE  To(me, stage) \in RunStates /\ To(me, stage).stage = stage
BY DEF To, RunStates

(* Whatever an answer leads to is a state of a run. *)
LEMMA ContinuationStates ==
    ASSUME NEW me \in RunStates, NEW kind, NEW good,
           kind \in Kinds, kind = "score" => me.stage \in Scoring,
           NEW next \in Continuations(me, kind, good)
    PROVE  next \in RunStates
<1>1. \A stage \in Stages : To(me, stage) \in RunStates
  BY ToStates
<1>2. {"tools", "done", "align", "adjust", "reflect", "final", "enhance", "record"} \subseteq Stages
  BY DEF Stages
<1>3. NextTurn(me) \subseteq RunStates /\ Stopped(me) \subseteq RunStates
  BY <1>1, <1>2 DEF NextTurn, Stopped, RunStates
<1>4. CASE kind = "plan"
  BY <1>1, <1>2, <1>4 DEF Continuations, Planned
<1>5. CASE kind = "score"
  <2>1. next \in Scored(me)
    BY <1>5 DEF Continuations
  <2>2. CASE me.stage = "score" /\ me.rounds < MaxReflectionRounds
    <3>1. PICK reflect \in RunStates : next = [reflect EXCEPT !.rounds = @ + 1]
      BY <1>1, <1>2, <2>1, <2>2 DEF Scored
    <3> QED BY <3>1 DEF RunStates
  <2>3. CASE me.stage = "score" /\ ~(me.rounds < MaxReflectionRounds)
    BY <1>1, <1>2, <1>3, <2>1, <2>3 DEF Scored
  <2>4. CASE me.stage = "align"
    BY <1>1, <1>2, <2>1, <2>4 DEF Scored
  <2>5. CASE me.stage = "final"
    BY <1>1, <1>2, <2>1, <2>5 DEF Scored
  <2> QED BY <1>5, <2>2, <2>3, <2>4, <2>5 DEF Scoring
<1>6. CASE kind = "reflect"
  <2>1. next \in Reflected(me)
    BY <1>6 DEF Continuations
  <2> QED BY <1>1, <1>2, <1>3, <2>1 DEF Reflected
<1>7. CASE kind = "adjust"
  <2>1. next \in Adjusted(me)
    BY <1>7 DEF Continuations
  <2> QED BY <1>3, <2>1 DEF Adjusted
<1>8. CASE kind = "digest"
  <2>1. next = [me EXCEPT !.digests = @ + 1]
    BY <1>8 DEF Continuations
  <2> QED BY <2>1 DEF RunStates
<1>9. CASE kind \in {"summary", "grounded"}
  <2>1. next \in Enhanced(me, good)
    BY <1>9 DEF Continuations
  <2>2. CASE next = To(me, "record")
    BY <1>1, <1>2, <2>2
  <2>3. CASE next = [me EXCEPT !.attempts = @ + 1]
    BY <2>3 DEF RunStates
  <2> QED BY <2>1, <2>2, <2>3 DEF Enhanced
<1> QED BY <1>4, <1>5, <1>6, <1>7, <1>8, <1>9 DEF Kinds

LEMMA StepCases ==
    ASSUME Typed, NEW r \in Runs, Step(r)
    PROVE  \/ Moving(r) \/ Asking(r) \/ Answer(r) \/ Lose(r) \/ Lock(r) \/ Unlock(r)
           \/ CountTokens(r) \/ Record(r)
<1>1. ASSUME Collect(r) PROVE Moving(r)
  <2>1. \A stage \in {"enhance", "done"}, context \in {"live", "none"} :
           [To(run[r], stage) EXCEPT !.context = context] \in RunStates
    <3>1. \A stage \in {"enhance", "done"} : To(run[r], stage) \in RunStates
      BY ToStates DEF Typed, Stages
    <3> QED BY <3>1 DEF RunStates, Contexts
  <2> QED BY <1>1, <2>1 DEF Collect, At, Moving
<1>2. ASSUME RunTools(r) PROVE Moving(r)
  <2>1. \A stage \in {"score", "done", "enhance"}, context \in Contexts :
           [To(run[r], stage) EXCEPT !.context = context] \in RunStates
    <3>1. \A stage \in {"score", "done", "enhance"} : To(run[r], stage) \in RunStates
      BY ToStates DEF Typed, Stages
    <3> QED BY <3>1 DEF RunStates, Contexts
  <2>2. run[r].context \in Contexts
    BY DEF Typed, RunStates
  <2> QED BY <1>2, <2>1, <2>2 DEF RunTools, At, Moving, Contexts
<1>3. ContextMaxTokens(r) \in Int
  BY DEF ContextMaxTokens, RemainingTokens, EstimatedPromptTokens, MaxCompletionTokens
<1>4. ASSUME NEW stages, At(r, stages), "done" \notin stages,
             NEW kind \in Kinds, NEW limit \in Int, Ask(r, kind, limit),
             kind = "score" => stages = Scoring
      PROVE  Asking(r)
  BY <1>4 DEF At, Asking, Scoring
<1>5. ASSUME \/ GenerateAgentPlan(r) \/ ScoreHypotheses(r) \/ GenerateReflection(r)
             \/ GeneratePlanAdjustment(r)
      PROVE  Asking(r)
  BY <1>3, <1>4, <1>5 DEF GenerateAgentPlan, ScoreHypotheses, GenerateReflection,
     GeneratePlanAdjustment, Kinds, Scoring
<1>6. ASSUME GenerateDiagnosisSummary(r) \/ GenerateGroundedSummary(r) PROVE Asking(r)
  BY <1>3, <1>4, <1>6 DEF GenerateDiagnosisSummary, GenerateGroundedSummary, Kinds
<1>7. ASSUME SummarizeEvidences(r) PROVE Asking(r)
  BY <1>4, <1>7 DEF SummarizeEvidences, Kinds
<1> QED BY <1>1, <1>2, <1>5, <1>6, <1>7 DEF Step

LEMMA InitUsage == Init => UsageInv
<1> SUFFICES ASSUME Init PROVE UsageInv
  OBVIOUS
<1>1. Typed
  <2>1. FirstStage \in Stages
    BY DEF Init, FirstStage, Stages, Planners
  <2>2. "none" \in Contexts
    BY DEF Contexts
  <2>3. run \in [Runs -> RunStates]
    BY <2>1, <2>2 DEF Init, RunStates
  <2> QED BY <2>3 DEF Init, Typed, NoUsage, NoCall, InHand
<1>2. MutexInv
  BY DEF Init, MutexInv, NoUsage, NoCall
<1>3. RowsInv
  BY DEF Init, RowsInv, NoCall
<1>4. AllowanceIsOwn
  BY DEF Init, AllowanceIsOwn, NoCall, InHand
<1> QED BY <1>1, <1>2, <1>3, <1>4 DEF UsageInv

(* What Return does, whatever the answer leads to. *)
LEMMA ReturnEffect ==
    ASSUME Typed, NEW r \in Runs, NEW good, Return(r, good), call[r].step # "none"
    PROVE  /\ \E next \in RunStates : run' = [run EXCEPT ![r] = next]
           /\ call' = [call EXCEPT ![r] = NoCall]
<1>1. PICK next \in Continuations(run[r], call[r].kind, good) : run' = [run EXCEPT ![r] = next]
  BY DEF Return
<1>2. /\ run[r] \in RunStates /\ call[r].kind \in Kinds
      /\ call[r].kind = "score" => run[r].stage \in Scoring
  BY DEF Typed
<1>3. next \in RunStates
  BY <1>1, <1>2, ContinuationStates
<1> QED BY <1>1, <1>3 DEF Return

LEMMA MovingKeeps ==
    ASSUME UsageInv, NEW r \in Runs, Moving(r)
    PROVE  UsageInv'
<1> USE DEF UsageInv, Moving, client, history
<1>1. Typed'
  BY DEF Typed, InHand
<1>2. MutexInv'
  BY DEF MutexInv
<1>3. RowsInv'
  BY DEF RowsInv, Typed
<1>4. AllowanceIsOwn'
  BY DEF AllowanceIsOwn, Typed, InHand
<1> QED BY <1>1, <1>2, <1>3, <1>4

LEMMA AskingKeeps ==
    ASSUME UsageInv, NEW r \in Runs, Asking(r)
    PROVE  UsageInv'
<1>0. PICK kind \in Kinds, limit \in Int :
         /\ Ask(r, kind, limit)
         /\ kind = "score" => run[r].stage \in Scoring
  BY DEF Asking
<1> DEFINE record == [step |-> "sent", kind |-> kind, limit |-> limit,
                      live |-> kind # "digest" \/ run[r].stage # "enhance"
                                              \/ run[r].context = "live"]
<1>a. /\ call' = [call EXCEPT ![r] = record]
      /\ call[r].step = "none" /\ run[r].stage # "done"
      /\ UNCHANGED <<run, client, rows, history>>
  BY <1>0 DEF Asking, Ask
<1>b. record.step = "sent" /\ record.kind = kind
  OBVIOUS
<1> HIDE DEF record
<1> USE <1>0, <1>a, <1>b
<1> USE DEF UsageInv, client, history
<1>1. Typed'
  BY DEF Typed, InHand
<1>2. MutexInv'
  BY DEF MutexInv, Typed
<1>3. RowsInv'
  BY DEF RowsInv, Typed
<1>4. AllowanceIsOwn'
  BY DEF AllowanceIsOwn, Typed, InHand
<1> QED BY <1>1, <1>2, <1>3, <1>4

LEMMA AnswerKeeps ==
    ASSUME UsageInv, NEW r \in Runs, Answer(r)
    PROVE  UsageInv'
<1> USE DEF UsageInv, Answer, client
<1>1. Typed'
  BY DEF Typed, InHand
<1>2. MutexInv'
  BY DEF MutexInv, Typed
<1>3. RowsInv'
  BY DEF RowsInv, Typed
<1>4. AllowanceIsOwn'
  BY DEF AllowanceIsOwn, Typed, InHand
<1> QED BY <1>1, <1>2, <1>3, <1>4

LEMMA LoseKeeps ==
    ASSUME UsageInv, NEW r \in Runs, Lose(r)
    PROVE  UsageInv'
<1>0. /\ \E next \in RunStates : run' = [run EXCEPT ![r] = next]
      /\ call' = [call EXCEPT ![r] = NoCall]
      /\ call[r].step = "sent" /\ UNCHANGED <<client, rows, history>>
  BY ReturnEffect DEF Lose, UsageInv
<1> USE <1>0 DEF UsageInv, client, history, NoCall
<1>1. Typed'
  BY DEF Typed, InHand
<1>2. MutexInv'
  BY DEF MutexInv, Typed
<1>3. RowsInv'
  BY DEF RowsInv, Typed
<1>4. AllowanceIsOwn'
  BY DEF AllowanceIsOwn, Typed, InHand
<1> QED BY <1>1, <1>2, <1>3, <1>4

LEMMA LockKeeps ==
    ASSUME UsageInv, NEW r \in Runs, Lock(r)
    PROVE  UsageInv'
<1> USE DEF UsageInv, Lock, MutexFree, Recorded, history
<1>0. call[r].tokens \in Nat
  BY DEF Typed, InHand
<1>1. Typed'
  BY <1>0 DEF Typed, InHand
<1>2. MutexInv'
  BY DEF MutexInv, Typed
<1>3. RowsInv'
  BY DEF RowsInv, Typed
<1>4. AllowanceIsOwn'
  BY DEF AllowanceIsOwn, Typed, InHand
<1> QED BY <1>1, <1>2, <1>3, <1>4

LEMMA UnlockKeeps ==
    ASSUME UsageInv, NEW r \in Runs, Unlock(r)
    PROVE  UsageInv'
<1> USE DEF UsageInv, Unlock
<1>0. /\ call[r].tokens \in Nat /\ call[r].calls = calls /\ call[r].total = total
      /\ mutex = r /\ usage.n = calls + 1 /\ calls' = calls + 1
  BY DEF Typed, InHand, MutexInv
<1>1. Typed'
  BY <1>0 DEF Typed, InHand
<1>2. MutexInv'
  BY <1>0 DEF MutexInv, Typed
<1>3. RowsInv'
  BY <1>0 DEF RowsInv, Typed
<1>4. AllowanceIsOwn'
  BY DEF AllowanceIsOwn, Typed, InHand
<1> QED BY <1>1, <1>2, <1>3, <1>4

LEMMA CountTokensKeeps ==
    ASSUME UsageInv, NEW r \in Runs, CountTokens(r)
    PROVE  UsageInv'
<1>0. /\ \E next \in RunStates : run' = [run EXCEPT ![r] = next]
      /\ call' = [call EXCEPT ![r] = NoCall]
      /\ call[r].step = "captured" /\ budget' = Counted(r, call[r].tokens)
      /\ UNCHANGED <<mutex, usage, total, calls, rows, history>>
  BY ReturnEffect DEF CountTokens, UsageInv
<1> USE <1>0 DEF UsageInv, Counted, history, NoCall
<1>1. Typed'
  BY DEF Typed, InHand
<1>2. MutexInv'
  BY DEF MutexInv, Typed
<1>3. RowsInv'
  BY DEF RowsInv, Typed
<1>4. AllowanceIsOwn'
  BY DEF AllowanceIsOwn, Typed, InHand
<1> QED BY <1>1, <1>2, <1>3, <1>4

LEMMA RecordKeeps ==
    ASSUME UsageInv, NEW r \in Runs, Record(r)
    PROVE  UsageInv'
<1>0. /\ run' = [run EXCEPT ![r] = To(@, "done")] /\ call[r].step = "none" /\ mutex = None
      /\ rows' = rows \/ rows' = rows \cup {Row(r)}
      /\ UNCHANGED <<call, client, history>> /\ run[r].stage = "record"
  BY DEF Record, At, MutexFree
<1>1. To(run[r], "done") \in RunStates /\ To(run[r], "done").stage = "done"
  BY ToStates DEF UsageInv, Typed, Stages
<1> USE <1>0 DEF UsageInv, client, history
<1>2. Typed'
  BY <1>1 DEF Typed, InHand
<1>3. MutexInv'
  BY DEF MutexInv, Typed
<1>4. RowsInv'
  BY <1>1 DEF RowsInv, Typed, Row, MutexInv
<1>5. AllowanceIsOwn'
  BY <1>1 DEF AllowanceIsOwn, Typed, InHand
<1> QED BY <1>2, <1>3, <1>4, <1>5

-----------------------------------------------------------------------------
LEMMA UsageInductive == UsageInv /\ [Next]_vars => UsageInv'
<1> SUFFICES ASSUME UsageInv, [Next]_vars PROVE UsageInv'
  OBVIOUS
<1>1. ASSUME NEW r \in Runs, Step(r) PROVE UsageInv'
  BY <1>1, StepCases, MovingKeeps, AskingKeeps, AnswerKeeps, LoseKeeps, LockKeeps, UnlockKeeps,
     CountTokensKeeps, RecordKeeps DEF UsageInv
<1>2. ASSUME UNCHANGED vars PROVE UsageInv'
  <2> USE <1>2 DEF vars, client, history
  <2>1. Typed'
    BY DEF UsageInv, Typed, InHand
  <2>2. MutexInv'
    BY DEF UsageInv, MutexInv
  <2>3. RowsInv'
    BY DEF UsageInv, RowsInv
  <2>4. AllowanceIsOwn'
    BY DEF UsageInv, AllowanceIsOwn, InHand
  <2> QED BY <2>1, <2>2, <2>3, <2>4 DEF UsageInv
<1> QED BY <1>1, <1>2 DEF Next, Idle

LEMMA UsageInvariant == Spec => []UsageInv
BY InitUsage, UsageInductive, PTL DEF Spec

(* The budget in the context of a run is that of its own agent, for any number of runs that *)
(* share the client (RecordLLMTokenUsage, captureUsage).                                    *)
THEOREM AllowanceSafe == Spec => []AllowanceIsOwn
<1>1. UsageInv => AllowanceIsOwn
  BY DEF UsageInv
<1> QED BY <1>1, UsageInvariant, PTL

(* A row of the usage table is never older than the last call of its task, whoever used the *)
(* client in between (recordLLMUsage, LastUsage, captureUsage).                             *)
THEOREM RowsSafe == Spec => []RowsNotOutdated
<1>1. UsageInv => RowsNotOutdated
  BY DEF UsageInv, RowsInv, RowsNotOutdated
<1> QED BY <1>1, UsageInvariant, PTL

-----------------------------------------------------------------------------
(* The answers that are not counted yet make up the difference. *)
Late == {r \in Runs : Uncounted(r)}
CountInv == calls + Cardinality(Late) = answers

LEMMA LateFinite == IsFiniteSet(Late) /\ Cardinality(Late) \in Nat
<1>1. IsFiniteSet(Late)
  BY FS_Subset DEF Late
<1> QED BY <1>1, FS_CardinalityType

LEMMA SameLate ==
    ASSUME CountInv, UNCHANGED <<calls, answers>>, \A r \in Runs : Uncounted(r)' <=> Uncounted(r)
    PROVE  CountInv'
<1>1. Late' = Late
  BY DEF Late
<1> QED BY <1>1 DEF CountInv

LEMMA CountInductive == UsageInv /\ CountInv /\ [Next]_vars => CountInv'
<1> SUFFICES ASSUME UsageInv, CountInv, [Next]_vars PROVE CountInv'
  OBVIOUS
<1>0. DOMAIN call = Runs
  BY DEF UsageInv, Typed
<1>1. ASSUME NEW r \in Runs, Moving(r) PROVE CountInv'
  BY <1>1, SameLate DEF Moving, client, history, Uncounted
<1>2. ASSUME NEW r \in Runs, Asking(r) PROVE CountInv'
  BY <1>0, <1>2, SameLate DEF Asking, Ask, client, history, Uncounted
<1>3. ASSUME NEW r \in Runs, Answer(r) PROVE CountInv'
  <2>1. r \notin Late /\ Late' = Late \cup {r}
    BY <1>0, <1>3 DEF Answer, Late, Uncounted
  <2>2. Cardinality(Late') = Cardinality(Late) + 1
    BY <2>1, LateFinite, FS_AddElement
  <2> QED BY <1>3, <2>2, LateFinite DEF Answer, client, CountInv, UsageInv, Typed
<1>4. ASSUME NEW r \in Runs, Lose(r) PROVE CountInv'
  <2>1. call' = [call EXCEPT ![r] = NoCall] /\ call[r].step = "sent"
    BY <1>4 DEF Lose, Return
  <2> QED BY <1>0, <1>4, <2>1, SameLate DEF Lose, client, history, Uncounted, NoCall
<1>5. ASSUME NEW r \in Runs, Lock(r) PROVE CountInv'
  BY <1>0, <1>5, SameLate DEF Lock, history, Uncounted
<1>6. ASSUME NEW r \in Runs, Unlock(r) PROVE CountInv'
  <2>1. r \in Late /\ Late' = Late \ {r}
    BY <1>0, <1>6 DEF Unlock, Late, Uncounted
  <2>2. Cardinality(Late') = Cardinality(Late) - 1
    BY <2>1, LateFinite, FS_RemoveElement
  <2>3. calls' = calls + 1 /\ answers' = answers
    BY <1>6 DEF Unlock, UsageInv, MutexInv
  <2> QED BY <2>2, <2>3, LateFinite DEF CountInv, UsageInv, Typed
<1>7. ASSUME NEW r \in Runs, CountTokens(r) PROVE CountInv'
  <2>1. call' = [call EXCEPT ![r] = NoCall] /\ call[r].step = "captured"
    BY <1>7 DEF CountTokens, Return
  <2> QED BY <1>0, <1>7, <2>1, SameLate DEF CountTokens, history, Uncounted, NoCall
<1>8. ASSUME NEW r \in Runs, Record(r) PROVE CountInv'
  BY <1>8, SameLate DEF Record, client, history, Uncounted
<1>9. ASSUME UNCHANGED vars PROVE CountInv'
  BY <1>9, SameLate DEF vars, client, history, Uncounted
<1>10. ASSUME NEW r \in Runs, Step(r) PROVE CountInv'
  <2>1. Typed
    BY DEF UsageInv
  <2> QED BY <1>1, <1>2, <1>3, <1>4, <1>5, <1>6, <1>7, <1>8, <1>10, <2>1, StepCases
<1> QED BY <1>9, <1>10 DEF Next, Idle

(* Whenever no answer is on its way into the counters, UsageCallCount is the number of the  *)
(* provider's answers: the mutex of captureUsage loses none and counts none twice.          *)
THEOREM AnswersSafe == Spec => []AnswersCounted
<1>1. Init => CountInv
  <2> SUFFICES ASSUME Init PROVE CountInv
    OBVIOUS
  <2>1. Late = {}
    BY DEF Init, Late, Uncounted, NoCall
  <2> QED BY <2>1, FS_EmptySet DEF Init, CountInv
<1>2. UsageInv /\ CountInv => AnswersCounted
  <2> SUFFICES ASSUME UsageInv, CountInv, Late = {} PROVE calls = answers
    BY DEF AnswersCounted, Late
  <2>1. Cardinality(Late) = 0
    BY FS_EmptySet
  <2> QED BY <2>1 DEF CountInv, UsageInv, Typed
<1> QED BY <1>1, <1>2, CountInductive, UsageInvariant, PTL DEF Spec
-----------------------------------------------------------------------------
(* The tokens of the answers that are not counted yet make up the difference of the other   *)
(* counter.  A sum over the runs is a function on sets of runs: each run adds what it owes,  *)
(* and a set of runs that owe nothing owes nothing.                                          *)
Owed == [r \in Runs |-> IF Uncounted(r) THEN call[r].tokens ELSE 0]
IsSum(f, owed) ==
    /\ f \in [SUBSET Runs -> Nat]
    /\ \A S \in SUBSET Runs, r \in Runs : r \notin S => f[S \cup {r}] = f[S] + owed[r]
    /\ \A S \in SUBSET Runs : (\A r \in S : owed[r] = 0) => f[S] = 0
Replaces(g, f, old, new) == g[Runs] = f[Runs] - old + new
TotalInv == \E f : IsSum(f, Owed) /\ total + f[Runs] = given

(* When what one run owes changes, so does the sum, and nothing else. *)
LEMMA SumChanges ==
    ASSUME NEW owed \in [Runs -> Nat], NEW f, IsSum(f, owed), NEW r \in Runs, NEW v \in Nat,
           NEW new, new = [owed EXCEPT ![r] = v]
    PROVE  \E g : IsSum(g, new) /\ Replaces(g, f, owed[r], v)
<1> DEFINE g == [S \in SUBSET Runs |-> IF r \in S THEN f[S \ {r}] + v ELSE f[S]]
<1>1. f \in [SUBSET Runs -> Nat]
  BY DEF IsSum
<1>2. g \in [SUBSET Runs -> Nat]
  <2>1. ASSUME NEW S \in SUBSET Runs PROVE f[S \ {r}] \in Nat /\ f[S] \in Nat
    <3>1. S \ {r} \in SUBSET Runs
      BY <2>1
    <3> QED BY <1>1, <2>1, <3>1
  <2> QED BY <2>1
<1>3. ASSUME NEW S \in SUBSET Runs, NEW q \in Runs, q \notin S PROVE g[S \cup {q}] = g[S] + new[q]
  <2>1. CASE q = r
    <3>1. (S \cup {q}) \ {r} = S
      BY <1>3, <2>1
    <3> QED BY <1>3, <2>1, <3>1
  <2>2. CASE q # r /\ r \in S
    <3>1. (S \cup {q}) \ {r} = (S \ {r}) \cup {q} /\ q \notin S \ {r} /\ S \ {r} \in SUBSET Runs
      BY <1>3, <2>2
    <3>2. f[(S \ {r}) \cup {q}] = f[S \ {r}] + owed[q]
      BY <1>3, <3>1 DEF IsSum
    <3>3. g[S \cup {q}] = f[(S \cup {q}) \ {r}] + v /\ g[S] = f[S \ {r}] + v
      BY <1>3, <2>2
    <3>4. f[S \ {r}] \in Nat /\ owed[q] \in Nat /\ new[q] = owed[q]
      BY <1>1, <1>3, <2>2
    <3>5. f[(S \cup {q}) \ {r}] = f[S \ {r}] + owed[q]
      BY <3>1, <3>2
    <3> HIDE DEF g
    <3> QED BY <3>3, <3>4, <3>5
  <2>3. CASE q # r /\ r \notin S
    BY <1>1, <1>3, <2>3 DEF IsSum
  <2> QED BY <2>1, <2>2, <2>3
<1>4. ASSUME NEW S \in SUBSET Runs, \A q \in S : new[q] = 0 PROVE g[S] = 0
  <2>1. \A q \in S \ {r} : owed[q] = 0
    BY <1>4
  <2>2. f[S \ {r}] = 0
    BY <2>1 DEF IsSum
  <2>3. r \notin S => S \ {r} = S
    OBVIOUS
  <2>4. r \in S => v = 0
    BY <1>4
  <2> QED BY <2>2, <2>3, <2>4
<1>5. g[Runs] = f[Runs] - owed[r] + v
  <2>1. (Runs \ {r}) \cup {r} = Runs /\ Runs \ {r} \in SUBSET Runs /\ r \notin Runs \ {r}
    OBVIOUS
  <2>2. f[Runs] = f[Runs \ {r}] + owed[r]
    BY <2>1 DEF IsSum
  <2>3. g[Runs] = f[Runs \ {r}] + v /\ f[Runs \ {r}] \in Nat
    BY <1>1
  <2> HIDE DEF g
  <2> QED BY <2>2, <2>3
<1>6. IsSum(g, new)
  BY <1>2, <1>3, <1>4 DEF IsSum
<1> QED BY <1>5, <1>6 DEF Replaces

LEMMA OwedType == Typed => Owed \in [Runs -> Nat]
BY DEF Typed, Owed, Uncounted, InHand

LEMMA SameOwed ==
    ASSUME TotalInv, UNCHANGED <<total, given>>,
           \A r \in Runs : /\ Uncounted(r)' <=> Uncounted(r)
                           /\ Uncounted(r) => call'[r].tokens = call[r].tokens
    PROVE  TotalInv'
<1>1. Owed' = Owed
  BY DEF Owed
<1>2. PICK f : IsSum(f, Owed) /\ total + f[Runs] = given
  BY DEF TotalInv
<1>3. IsSum(f, Owed') /\ total' + f[Runs] = given'
  BY <1>1, <1>2
<1> QED BY <1>3 DEF TotalInv, IsSum

LEMMA TotalInductive == UsageInv /\ TotalInv /\ [Next]_vars => TotalInv'
<1> SUFFICES ASSUME UsageInv, TotalInv, [Next]_vars PROVE TotalInv'
  OBVIOUS
<1>0. Typed /\ DOMAIN call = Runs
  BY DEF UsageInv, Typed
<1>1. ASSUME NEW r \in Runs, Moving(r) PROVE TotalInv'
  BY <1>1, SameOwed DEF Moving, client, history, Uncounted
<1>2. ASSUME NEW r \in Runs, Asking(r) PROVE TotalInv'
  BY <1>0, <1>2, SameOwed DEF Asking, Ask, client, history, Uncounted
<1>3. ASSUME NEW r \in Runs, NEW v \in Nat,
             Owed' = [Owed EXCEPT ![r] = v], total' + v = total + Owed[r] + (given' - given),
             total' \in Nat, given' \in Int, given \in Int
      PROVE  TotalInv'
  <2>1. PICK f : IsSum(f, Owed) /\ total + f[Runs] = given
    BY DEF TotalInv
  <2>a. Owed \in [Runs -> Nat]
    BY <1>0, OwedType
  <2>b. Owed' = [Owed EXCEPT ![r] = v] /\ IsSum(f, Owed)
    BY <1>3, <2>1
  <2>2. PICK g : IsSum(g, Owed') /\ g[Runs] = f[Runs] - Owed[r] + v
    <3>1. \E g : IsSum(g, Owed') /\ Replaces(g, f, Owed[r], v)
      BY <2>a, <2>b, SumChanges
    <3> QED BY <3>1 DEF Replaces
  <2>3. f[Runs] \in Nat /\ Owed[r] \in Nat /\ total \in Nat
    BY <1>0, <2>1, OwedType DEF IsSum, Typed
  <2>4. total' + g[Runs] = given'
    BY <1>3, <2>1, <2>2, <2>3
  <2> QED BY <2>2, <2>4 DEF TotalInv, IsSum
<1>4. ASSUME NEW r \in Runs, Answer(r) PROVE TotalInv'
  <2>1. PICK tokens \in Costs, good \in BOOLEAN :
           /\ call' = [call EXCEPT ![r] = [step |-> "answered", kind |-> @.kind,
                                           tokens |-> tokens, good |-> good]]
           /\ given' = given + tokens
    BY <1>4 DEF Answer
  <2>2. total' = total /\ call[r].step = "sent"
    BY <1>4 DEF Answer, client
  <2>3. Owed' = [Owed EXCEPT ![r] = tokens] /\ Owed[r] = 0
    BY <1>0, <2>1, <2>2 DEF Owed, Uncounted
  <2>4. given \in Int
    BY <1>0, OwedType DEF TotalInv, IsSum, Typed
  <2>5. tokens \in Nat /\ total \in Nat
    BY <1>0 DEF Typed
  <2>6. total' + tokens = total + Owed[r] + (given' - given) /\ given' \in Int
    BY <2>1, <2>2, <2>3, <2>4, <2>5
  <2> QED BY <1>3, <2>2, <2>3, <2>4, <2>5, <2>6
<1>5. ASSUME NEW r \in Runs, Lose(r) PROVE TotalInv'
  <2>1. call' = [call EXCEPT ![r] = NoCall] /\ call[r].step = "sent"
    BY <1>5 DEF Lose, Return
  <2> QED BY <1>0, <1>5, <2>1, SameOwed DEF Lose, client, history, Uncounted, NoCall
<1>6. ASSUME NEW r \in Runs, Lock(r) PROVE TotalInv'
  BY <1>0, <1>6, SameOwed DEF Lock, history, Uncounted
<1>7. ASSUME NEW r \in Runs, Unlock(r) PROVE TotalInv'
  <2>1. total' = total + call[r].tokens /\ given' = given /\ call[r].tokens \in Nat
    BY <1>0, <1>7 DEF Unlock, UsageInv, MutexInv, Typed, InHand
  <2>2. Owed' = [Owed EXCEPT ![r] = 0] /\ Owed[r] = call[r].tokens
    BY <1>0, <1>7 DEF Unlock, Owed, Uncounted
  <2>3. given \in Int
    BY <1>0, OwedType DEF TotalInv, IsSum, Typed
  <2>4. total \in Nat
    BY <1>0 DEF Typed
  <2>5. total' + 0 = total + Owed[r] + (given' - given) /\ total' \in Nat /\ given' \in Int
    BY <2>1, <2>2, <2>3, <2>4
  <2> QED BY <1>3, <2>2, <2>3, <2>5
<1>8. ASSUME NEW r \in Runs, CountTokens(r) PROVE TotalInv'
  <2>1. call' = [call EXCEPT ![r] = NoCall] /\ call[r].step = "captured"
    BY <1>8 DEF CountTokens, Return
  <2> QED BY <1>0, <1>8, <2>1, SameOwed DEF CountTokens, history, Uncounted, NoCall
<1>9. ASSUME NEW r \in Runs, Record(r) PROVE TotalInv'
  BY <1>9, SameOwed DEF Record, client, history, Uncounted
<1>10. ASSUME UNCHANGED vars PROVE TotalInv'
  BY <1>10, SameOwed DEF vars, client, history, Uncounted
<1>11. ASSUME NEW r \in Runs, Step(r) PROVE TotalInv'
  BY <1>0, <1>1, <1>2, <1>4, <1>5, <1>6, <1>7, <1>8, <1>9, <1>11, StepCases
<1> QED BY <1>10, <1>11 DEF Next, Idle

(* Whenever no answer is on its way into the counters, they say how often the provider      *)
(* answered and what it charged, for any number of runs and any prices (captureUsage).      *)
THEOREM CountersSafe == Spec => []CountersAddUp
<1>1. Init => TotalInv
  <2> SUFFICES ASSUME Init PROVE TotalInv
    OBVIOUS
  <2> DEFINE f == [S \in SUBSET Runs |-> 0]
  <2>1. \A r \in Runs : Owed[r] = 0
    BY DEF Init, Owed, Uncounted, NoCall
  <2>2. IsSum(f, Owed) /\ total + f[Runs] = given
    BY <2>1 DEF IsSum, Init
  <2> QED BY <2>2 DEF TotalInv
<1>2. UsageInv /\ TotalInv /\ AnswersCounted => CountersAddUp
  <2> SUFFICES ASSUME UsageInv, TotalInv, {r \in Runs : Uncounted(r)} = {} PROVE total = given
    BY DEF CountersAddUp
  <2>1. PICK f : IsSum(f, Owed) /\ total + f[Runs] = given
    BY DEF TotalInv
  <2>2. \A r \in Runs : Owed[r] = 0
    BY DEF Owed
  <2>3. f[Runs] = 0
    BY <2>1, <2>2 DEF IsSum
  <2> QED BY <2>1, <2>3 DEF UsageInv, Typed
<1> QED BY <1>1, <1>2, AnswersSafe, TotalInductive, UsageInvariant, PTL DEF Spec
=============================================================================
