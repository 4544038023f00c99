------------------------------- MODULE LLMUsage -------------------------------
(***************************************************************************)
(* The calls to the language model and the accounts kept of them.  A       *)
(* process has one client (internal/llm/client.go); the diagnoses that run *)
(* at the same time share its counters, and the agent of each has a        *)
(* counter of its own in its context (internal/agent/llm_budget.go).       *)
(* A diagnosis asks for a plan, for scores, reflections and adjustments,   *)
(* at its end for a summary of the report, and now and then for a digest   *)
(* of what does not fit in a prompt.                                       *)
(***************************************************************************)
EXTENDS Integers, FiniteSets

CONSTANTS Runs,               \* the diagnoses of a process
          None,               \* no run
          MaxReflectionRounds,   \* agent.max_reflection_rounds
          RetryMaxAttempts,   \* llm.retry_max_attempts
          Costs,              \* the tokens a provider may charge for an answer
          MaxTurns,           \* bound: the turns of an agent's loop
          MaxAnswers          \* bound: the answers of the provider, then it is down

ASSUME LLMAssumption ==
    /\ IsFiniteSet(Runs) /\ None \notin Runs
    /\ MaxReflectionRounds \in Nat /\ RetryMaxAttempts \in Nat \ {0}
    /\ Costs \subseteq Nat /\ MaxTurns \in Nat \ {0} /\ MaxAnswers \in Nat

VARIABLES
    config,     \* the planner of the process and whether summaries are grounded
    run,        \* how far a diagnosis is, with which context and attempts
    call,       \* the call it waits for
    mutex,      \* who holds client.mu
    usage,      \* client.usage: the tokens of the last call, numbered
    total,      \* client.total
    calls,      \* client.calls
    budget,     \* usedTokens of the LLMTokenBudget in the context of a run
    rows,       \* llm_usage_records
    unstored,   \* the runs whose row could not be inserted
    answers,    \* history: how often the provider answered
    given,      \* history: the tokens it charged
    spent,      \* history: the tokens it charged for what the agent of a run asked
    last        \* history: the number of a run's last counted call

client == <<mutex, usage, total, calls, budget>>
history == <<answers, given, spent, last>>
vars == <<config, run, call, client, rows, unstored, history>>

Planners == {"llm", "rule", "legacy"}       \* legacy: agent.enabled is false
Stages == {"snapshot", "plan", "tools", "score", "reflect", "adjust", "align", "final",
           "enhance", "record", "done"}
InAgent == {"plan", "tools", "score", "reflect", "adjust", "align", "final"}
NoCall == [step |-> "none"]
NoUsage == [n |-> 0, tokens |-> 0]

FirstStage == CASE config.planner = "llm"    -> "plan"
                [] config.planner = "rule"   -> "tools"
                [] config.planner = "legacy" -> "snapshot"

Init ==
    /\ config \in [planner : Planners, grounding : BOOLEAN]
    /\ run = [r \in Runs |->
                [stage |-> FirstStage, context |-> "none",
                 turns |-> 1, rounds |-> 0, digests |-> 0, attempts |-> 0]]
    /\ call = [r \in Runs |-> NoCall]
    /\ mutex = None /\ usage = NoUsage /\ total = 0 /\ calls = 0
    /\ budget = [r \in Runs |-> 0]
    /\ rows = {} /\ unstored = {}
    /\ answers = 0 /\ given = 0
    /\ spent = [r \in Runs |-> 0] /\ last = [r \in Runs |-> 0]

At(r, stages) == run[r].stage \in stages /\ call[r].step = "none"
To(me, stage) == [me EXCEPT !.stage = stage, !.digests = 0]

-----------------------------------------------------------------------------
(* The context a snapshot was taken with stays in it as RequestContext: in the legacy       *)
(* pipeline that of the worker, in the agent that of the tool, which ends with the tool.    *)
Collect(r) ==
    /\ At(r, {"snapshot"})
    /\ \E stage \in {"enhance", "done"} :
          run' = [run EXCEPT ![r] = [To(@, stage) EXCEPT
                                        !.context = IF stage = "enhance" THEN "live" ELSE "none"]]
    /\ UNCHANGED <<config, call, client, rows, unstored, history>>

(* A turn of the loop calls tools first.  One of them may bring the diagnostic context.     *)
(* The rule planner asks the model nothing: all of its turns, and the storage after them,   *)
(* which may fail, are one step.                                                            *)
RunTools(r) ==
    /\ At(r, {"tools"})
    /\ \E context \in {run[r].context, "cancelled"}, stored \in BOOLEAN :
          run' = [run EXCEPT ![r] = [To(@, CASE config.planner = "llm" -> "score"
                                             [] context = "none" \/ ~stored -> "done"
                                             [] OTHER -> "enhance") EXCEPT !.context = context]]
    /\ UNCHANGED <<config, call, client, rows, unstored, history>>

-----------------------------------------------------------------------------
(* RemainingLLMTokens: the budget of a run is not a limit any more; nothing is left of it.  *)
RemainingTokens == 0
MaxCompletionTokens == 2048                      \* defaultMaxLLMCompletionTokensPerCall
EstimatedPromptTokens == 12                      \* of one empty message: the least there is

(* applyContextTokenBudget: the max_tokens of a request, 0 when the field is left out *)
ContextMaxTokens(r) ==
    LET available == RemainingTokens - EstimatedPromptTokens IN
    IF run[r].stage \notin InAgent \/ available <= 0 THEN 0
    ELSE IF available > MaxCompletionTokens THEN MaxCompletionTokens ELSE available

Ask(r, kind, maxTokens) ==
    /\ call' = [call EXCEPT ![r] =
          [step |-> "sent", kind |-> kind, limit |-> maxTokens,
           live |-> kind # "digest" \/ run[r].stage # "enhance" \/ run[r].context = "live"]]
    /\ UNCHANGED <<config, run, client, rows, unstored, history>>

GenerateAgentPlan(r) == At(r, {"plan"}) /\ Ask(r, "plan", ContextMaxTokens(r))
ScoreHypotheses(r) == At(r, {"score", "align", "final"}) /\ Ask(r, "score", ContextMaxTokens(r))
GenerateReflection(r) == At(r, {"reflect"}) /\ Ask(r, "reflect", ContextMaxTokens(r))
GeneratePlanAdjustment(r) == At(r, {"adjust"}) /\ Ask(r, "adjust", ContextMaxTokens(r))
GenerateDiagnosisSummary(r) ==
    At(r, {"enhance"}) /\ ~config.grounding /\ Ask(r, "summary", ContextMaxTokens(r))
GenerateGroundedSummary(r) ==
    At(r, {"enhance"}) /\ config.grounding /\ Ask(r, "grounded", ContextMaxTokens(r))

(* collectEvidenceSummary, collectObservations and BuildGroundedPrompt ask for a digest of  *)
(* what exceeds the prompt: twice before a planner's call, once before a grounded summary.  *)
SummarizeEvidences(r) ==
    /\ \/ At(r, {"reflect", "adjust"}) /\ run[r].digests < 2
       \/ At(r, {"enhance"}) /\ config.grounding /\ run[r].digests < 1 /\ run[r].attempts = 0
    /\ Ask(r, "digest", 300)

-----------------------------------------------------------------------------
(* What a run does after a turn of its loop: another turn, as long as max_steps allows one, *)
(* or the end.  Without a diagnostic context the agent gives up.                            *)
NextTurn(me) == {[To(me, "tools") EXCEPT !.turns = @ + 1] : x \in {y \in {me} : y.turns < MaxTurns}}
Stopped(me) == {To(me, IF me.context = "none" THEN "done" ELSE "align")}

(* BuildInitialPlan: the rules make the plan when the model does not. *)
Planned(me) == {To(me, "tools")}

(* Whether the scores come back or not, the loop reflects while it has rounds left.  After  *)
(* the loop the hypotheses are scored twice more, and the results are stored or not.        *)
Scored(me) ==
    CASE me.stage = "score" ->
            IF me.rounds < MaxReflectionRounds
            THEN {[To(me, "reflect") EXCEPT !.rounds = @ + 1]}
            ELSE NextTurn(me) \cup {To(me, "adjust")} \cup Stopped(me)
      [] me.stage = "align" -> {To(me, "final")}
      [] me.stage = "final" -> {To(me, "enhance"), To(me, "done")}
Reflected(me) == NextTurn(me) \cup {To(me, "adjust")} \cup Stopped(me)
Adjusted(me) == NextTurn(me) \cup Stopped(me)

(* resilience.Do: an attempt that failed is repeated unless it was the last one or the      *)
(* context of the run ends during the backoff.                                              *)
Enhanced(me, good) ==
    {To(me, "record")}
    \cup IF good \/ me.attempts + 1 >= RetryMaxAttempts THEN {}
         ELSE {[me EXCEPT !.attempts = @ + 1]}

Continuations(me, kind, good) ==
    CASE kind = "plan"    -> Planned(me)
      [] kind = "score"   -> Scored(me)
      [] kind = "reflect" -> Reflected(me)
      [] kind = "adjust"  -> Adjusted(me)
      [] kind = "digest"  -> {[me EXCEPT !.digests = @ + 1]}
      [] kind \in {"summary", "grounded"} -> Enhanced(me, good)

Return(r, good) ==
    /\ \E next \in Continuations(run[r], call[r].kind, good) : run' = [run EXCEPT ![r] = next]
    /\ call' = [call EXCEPT ![r] = NoCall]

-----------------------------------------------------------------------------
(* The provider answers, and charges for it whether the content can be parsed or not. *)
Answer(r) ==
    /\ call[r].step = "sent" /\ call[r].live
    /\ answers < MaxAnswers
    /\ \E tokens \in Costs, good \in BOOLEAN :
          /\ call' = [call EXCEPT ![r] = [step |-> "answered", kind |-> @.kind,
                                          tokens |-> tokens, good |-> good]]
          /\ given' = given + tokens
          /\ spent' = [spent EXCEPT ![r] = IF run[r].stage \in InAgent THEN @ + tokens ELSE @]
    /\ answers' = answers + 1
    /\ UNCHANGED <<config, run, client, rows, unstored, last>>

(* No connection, a timeout, an HTTP error, a context that has ended. *)
Lose(r) ==
    /\ call[r].step = "sent"
    /\ Return(r, FALSE)
    /\ UNCHANGED <<config, client, rows, unstored, history>>

(* captureUsage: what it reads and what it writes under the mutex are two steps. *)
(* mutant: the mutex is not taken *)
MutexFreeMutant == TRUE
MutexFree == mutex = None

(* mutant: like client.total, the record keeps what it was first given *)
RecordedMutant(tokens) == IF usage = NoUsage THEN [n |-> calls + 1, tokens |-> tokens] ELSE usage
Recorded(tokens) == [n |-> calls + 1, tokens |-> tokens]

Lock(r) ==
    /\ call[r].step = "answered" /\ MutexFree
    /\ mutex' = r
    /\ usage' = Recorded(call[r].tokens)
    /\ call' = [call EXCEPT ![r] = [step |-> "locked", kind |-> @.kind, tokens |-> @.tokens,
                                    good |-> @.good, total |-> total, calls |-> calls]]
    /\ UNCHANGED <<config, run, total, calls, budget, rows, unstored, history>>

Unlock(r) ==
    /\ call[r].step = "locked"
    /\ total' = call[r].total + call[r].tokens
    /\ calls' = call[r].calls + 1
    /\ last' = [last EXCEPT ![r] = calls']
    /\ mutex' = None
    /\ call' = [call EXCEPT ![r] = [step |-> "captured", kind |-> @.kind, tokens |-> @.tokens,
                                    good |-> @.good]]
    /\ UNCHANGED <<config, run, usage, budget, rows, unstored, answers, given, spent>>

(* RecordLLMTokenUsage: into the budget of the context, if it has one *)
(* mutant: one budget on the client, for all runs *)
CountedMutant(r, tokens) ==
    IF run[r].stage \in InAgent THEN [x \in Runs |-> budget[x] + tokens] ELSE budget
Counted(r, tokens) ==
    IF run[r].stage \in InAgent THEN [budget EXCEPT ![r] = @ + tokens] ELSE budget

CountTokens(r) ==
    /\ call[r].step = "captured"
    /\ budget' = Counted(r, call[r].tokens)
    /\ Return(r, call[r].good)
    /\ UNCHANGED <<config, mutex, usage, total, calls, rows, unstored, history>>

-----------------------------------------------------------------------------
(* recordLLMUsage, after a summary that was made as after one that was not: the last call   *)
(* of the client, whoever made it, becomes a row of this task.  A failing insert is ignored. *)
Row(r) == [run |-> r, n |-> usage.n, tokens |-> usage.tokens]
Record(r) ==
    /\ At(r, {"record"}) /\ MutexFree
    /\ \/ usage = NoUsage /\ UNCHANGED <<rows, unstored>>
       \/ usage # NoUsage /\ rows' = rows \cup {Row(r)} /\ UNCHANGED unstored
       \/ usage # NoUsage /\ unstored' = unstored \cup {r} /\ UNCHANGED rows
    /\ run' = [run EXCEPT ![r] = To(@, "done")]
    /\ UNCHANGED <<config, call, client, history>>

-----------------------------------------------------------------------------
Step(r) ==
    \/ Collect(r) \/ RunTools(r)
    \/ GenerateAgentPlan(r) \/ ScoreHypotheses(r) \/ GenerateReflection(r)
    \/ GeneratePlanAdjustment(r) \/ GenerateDiagnosisSummary(r) \/ GenerateGroundedSummary(r)
    \/ SummarizeEvidences(r)
    \/ Answer(r) \/ Lose(r) \/ Lock(r) \/ Unlock(r) \/ CountTokens(r)
    \/ Record(r)

(* Every diagnosis has ended; the process waits for others. *)
Idle == (\A r \in Runs : run[r].stage = "done") /\ UNCHANGED vars

Next == (\E r \in Runs : Step(r)) \/ Idle

Spec == Init /\ [][Next]_vars

-----------------------------------------------------------------------------
InHand(r) == call[r].step \in {"answered", "locked", "captured"}

Uncounted(r) == call[r].step \in {"answered", "locked"}
AnswersCounted == {r \in Runs : Uncounted(r)} = {} => calls = answers

(* No answer is lost or counted twice, however the runs interleave: whenever none is on its *)
(* way into the counters, they say how often the provider answered and what it charged.     *)
(* captureUsage counts an answer whose content cannot be parsed, too.                       *)
CountersAddUp ==
    /\ AnswersCounted
    /\ {r \in Runs : Uncounted(r)} = {} => total = given

(* The budget of a run counts what its own agent was charged, no more and no less: runs do  *)
(* not eat each other's allowance (README.md:191), and the summary at the end is not on it. *)
AllowanceIsOwn ==
    \A r \in Runs :
        spent[r] = budget[r] + IF InHand(r) /\ run[r].stage \in InAgent THEN call[r].tokens ELSE 0

(* recordLLMUsage asks the shared client for "the last call".  That need not be the call of *)
(* this task, but it is never one from before the last call of this task.                   *)
RowsNotOutdated == \A row \in rows : row.n >= last[row.run]
=============================================================================
