------------------------------ MODULE AgentLoop ------------------------------
(***************************************************************************)
(* The loop of agent.Runtime.Run: take the next steps of the plan, call    *)
(* their tools, let the pre-analyzer, the hypotheses and the planner's     *)
(* reflection look at the result, revise the plan, until a stop reason is  *)
(* set.  A turn of the loop goes through select, budget, execute, reflect  *)
(* (LLM planner only) and decide.                                          *)
(*                                                                         *)
(* What tools return, what the analyzer and the hypotheses make of it and  *)
(* what the LLM answers are nondeterministic.  A tool input is what is left*)
(* of it after normalizeToolInput: "plain" is empty.  Step ids are taken to*)
(* be distinct, and every tool of the plan to be registered.               *)
(***************************************************************************)
EXTENDS Integers, Sequences, FiniteSets, SequencesExt

CONSTANTS
    Scenes,         \* what a run may be about: see SceneType
    GapTools,       \* toolsForEvidenceGap of the open questions, in order
    LLMCalls,       \* <<tool, input>> pairs the LLM may ask for, in order
    MaxSteps, MaxReflectionSteps, MaxReflectionRounds,
    MaxToolCallsPerTool, MaxRunbookSearches

Tools  == {"pod", "runbook", "events", "logs", "config", "metrics"}
Inputs == {"plain", "app", "hint", "config"}

\* k8s.get_*: calls that carry a diagnostic context, and may trigger the
\* pre-analyzer (snapshotEvidenceTool, shouldRunPreAnalyzer).
SnapshotTools == {"pod", "events", "logs", "config"}
\* applyDefaultParallelGroups
Grouped == {"events", "logs", "metrics"}

SceneType == [planner: {"rule", "llm"}, \* LLMPlanner reflects, RulePlanner does not
              probe: BOOLEAN,           \* unknown fault, pod unready, probes set
              config: BOOLEAN,          \* the pod suffers from a missing config file
              needs: Seq(Tools),        \* evidenceRequestsForPodState
              targets: Seq(Tools),      \* targetedEvidenceRequests of its fault, <<>>: none
              plan: Seq(Tools \X Inputs)]   \* the initial plan

ASSUME SceneAssumption == \A s \in Scenes : s \in SceneType
ASSUME BudgetType ==
    /\ MaxSteps \in Nat \ {0} /\ MaxReflectionSteps \in Nat \ {0} /\ MaxReflectionRounds \in Nat \ {0}
    /\ MaxToolCallsPerTool \in Nat \ {0} /\ MaxRunbookSearches \in Nat \ {0}
ASSUME CallType == LLMCalls \in Seq(Tools \X Inputs) /\ GapTools \in Seq(Tools)

VARIABLES
    scene,
    pc,          \* the next part of the turn, or "stopped"
    plan,        \* plan.Steps
    batch,       \* the steps of this turn: indices of plan
    last,        \* the last of the calls made: its tool and its success
    verdict,     \* the convergence decision of this turn and its evidence gaps
    pinned,      \* preAnalysis is set
    reflected,   \* lastReflection: "none", "continue" or "stop"
    stop,        \* stopReason
    budget,      \* steps executed, reflection rounds and steps, calls per tool
    attempted,   \* tools with an observation
    completed,   \* CompletedToolInputs: successful calls
    have,        \* state.DiagnosticContext is set
    facts,       \* which of its lists are not empty
    signal,      \* some evidence record shows a configuration failure
    denied       \* history: origins of the steps a call budget refused

evidenceVars == <<attempted, completed, have, facts, signal>>
vars == <<scene, pc, plan, batch, last, verdict, pinned, reflected, stop, budget,
          evidenceVars, denied>>

Adaptive == {"reflection", "guard"}
Required == Adaptive \cup {"pre"}

\* by: AppendedBy, "plan" where nothing asks for it.
Step(call, by, group) ==
    [tool |-> call[1], input |-> call[2], by |-> by, group |-> group, done |-> FALSE, skip |-> FALSE]

StepType == [tool: Tools, input: Inputs, by: Required \cup {"plan"},
             group: {"", "snapshot", "followup", "pre"}, done: BOOLEAN, skip: BOOLEAN]

StopReasons == {"", "timeout", "max_steps", "plan_complete", "critical_tool_failed",
                "llm_reflection_complete", "confirmed_hypothesis", "no_effective_tool"}

\* top: how the leading hypothesis stands: below llmReflectionEvidenceFloor, below
\* the confirmation threshold, above it, above it but contested, or converged.
\* listed: its gaps are DistinguishingEvidence, not only defaults of the hypothesis.
VerdictType == [top: {"weak", "fair", "firm", "tied", "converged"},
                gaps: SUBSET ToSet(GapTools), listed: BOOLEAN]
Undecided == [top |-> "weak", gaps |-> {}, listed |-> FALSE]
Verdicts == {v \in VerdictType : /\ v.top \notin {"weak", "fair"} => v.listed
                                 /\ v.top = "weak" => (v.listed <=> v.gaps # {})}

AgentTypeOK ==
    /\ scene \in Scenes
    /\ pc \in {"select", "budget", "execute", "reflect", "decide", "stopped"}
    /\ plan \in Seq(StepType)
    /\ batch \subseteq DOMAIN plan
    /\ last \in [tool: Tools, success: BOOLEAN]
    /\ verdict \in VerdictType
    /\ pinned \in BOOLEAN /\ have \in BOOLEAN /\ signal \in BOOLEAN
    /\ reflected \in {"none", "continue", "stop"}
    /\ stop \in StopReasons
    /\ budget \in [steps: Nat, rounds: 0..MaxReflectionRounds, added: 0..MaxReflectionSteps,
                   calls: [Tools -> 0..MaxToolCallsPerTool]]
    /\ attempted \subseteq Tools /\ completed \subseteq Tools \X Inputs
    /\ facts \subseteq {"events", "logs"}
    /\ denied \subseteq Required \cup {"plan"}

InitialStep(call) == Step(call, "plan", IF call[1] \in Grouped THEN "snapshot" ELSE "")

Init ==
    /\ scene \in Scenes
    /\ plan = [i \in DOMAIN scene.plan |-> InitialStep(scene.plan[i])]
    /\ pc = "select" /\ batch = {} /\ last = [tool |-> "pod", success |-> TRUE]
    /\ verdict = Undecided
    /\ pinned = FALSE /\ reflected = "none" /\ stop = ""
    /\ budget = [steps |-> 0, rounds |-> 0, added |-> 0, calls |-> [t \in Tools |-> 0]]
    /\ attempted = {} /\ completed = {} /\ have = FALSE /\ facts = {} /\ signal = FALSE
    /\ denied = {}

-----------------------------------------------------------------------------
(* The plan.                                                               *)

\* The elements of a sequence at the given positions, and the positions where an
\* element that is wanted comes first.
At(s, is) == LET nth(k) == CHOOSE i \in is : Cardinality({j \in is : j < i}) = k - 1
             IN  [k \in 1..Cardinality(is) |-> s[nth(k)]]
Firsts(s, wanted) == {i \in DOMAIN s : s[i] \in wanted /\ \A j \in 1..(i - 1) : s[j] # s[i]}

\* Mutant: a skipped step comes up again.
PendingMutant(s) == ~s.done
Pending(s) == ~s.done /\ ~s.skip
PendingIn(p) == {i \in DOMAIN p : Pending(p[i])}
PendingTool(p, t) == \E i \in PendingIn(p) : p[i].tool = t
PendingCall(p, c) == \E i \in PendingIn(p) : <<p[i].tool, p[i].input>> = c
\* Mutant: targeted evidence may be outstanding.
PendingRequiredMutant(p) == \E i \in PendingIn(p) : p[i].by \in Adaptive
PendingRequired(p) == \E i \in PendingIn(p) : p[i].by \in Required
HasTool(p, t) == \E i \in DOMAIN p : p[i].tool = t

\* toolCompletedWithInput: any success of the tool answers an untargeted call.
Answered(c) == c \in completed \/ (c[2] = "plain" /\ \E d \in completed : d[1] = c[1])

\* nextPlanSteps: the first pending step, with the rest of its parallel group.
NextPlanSteps(p) ==
    LET first == CHOOSE i \in PendingIn(p) : \A j \in PendingIn(p) : i <= j
    IN  {first} \cup {i \in PendingIn(p) : p[first].group # "" /\ p[i].group = p[first].group}

\* appendIfMissing, one after the other
AppendMissing(p, tools, wanted) ==
    LET new == At(tools, Firsts(tools, {t \in wanted : t \notin attempted /\ ~HasTool(p, t)}))
    IN  p \o [k \in DOMAIN new |-> Step(<<new[k], "plain">>, "plan", "followup")]

AppendEvidence(p, wanted) == AppendMissing(p, GapTools, wanted)

\* Mutant: the budget lets one call too many through.
LimitMutant(t) == IF t = "runbook" THEN MaxRunbookSearches + 1 ELSE MaxToolCallsPerTool + 1

Limit(t) == IF t = "runbook" /\ MaxRunbookSearches < MaxToolCallsPerTool
            THEN MaxRunbookSearches ELSE MaxToolCallsPerTool
Spent(t) == budget.calls[t] >= Limit(t)

\* A step whose tool has spent its calls is skipped as soon as it comes up; a guard
\* may append it again at every turn, and the model keeps one such copy.
Schedule(p, s) ==
    LET copies == {[s EXCEPT !.skip = TRUE, !.by = b] : b \in {s.by, "plan"}}
    IN  Append(IF Spent(s.tool) THEN At(p, {i \in DOMAIN p : p[i] \notin copies}) ELSE p, s)

GuardCalls == << <<"config", "app">>, <<"runbook", "config">> >>

\* The rules never plan what the guard asks for: they do not plan the first tool,
\* and search the runbook for the alert.
ASSUME PlanAssumption ==
    \A s \in Scenes : s.planner = "rule" => ToSet(s.plan) \cap ToSet(GuardCalls) = {}

\* ensureConfigFailureEvidence
Guard(p, c) == IF Answered(c) \/ PendingCall(p, c) THEN p ELSE Schedule(p, Step(c, "guard", ""))
EnsureConfigEvidence(p) == IF signal THEN Guard(Guard(p, GuardCalls[1]), GuardCalls[2]) ELSE p

\* Mutant: steps appended after an observation are kept too.
KeptMutant(s) == s.by \in Adaptive \/ s.group = "followup"

\* adaptiveEvidenceStep
Kept(s) == s.by \in Adaptive

Wanted(tried) == ToSet(scene.targets) \ tried

\* applyTargetedEvidencePlan
Targeted(p, tried) ==
    LET wanted   == Wanted(tried)
        open(i)  == ~p[i].done /\ ~Kept(p[i])
        first(i) == open(i) /\ \A j \in 1..(i - 1) : open(j) => p[j].tool # p[i].tool
        chosen(i) == first(i) /\ p[i].tool \in wanted
        hint(i)  == first(i) /\ p[i].tool = "runbook" /\ "runbook" \notin tried
        revised(i) ==
            IF p[i].done THEN p[i]
            ELSE IF ~open(i) \/ hint(i) THEN [p[i] EXCEPT !.skip = FALSE]
            ELSE IF chosen(i) THEN [p[i] EXCEPT !.skip = FALSE, !.by = "pre", !.group = "pre"]
            ELSE [p[i] EXCEPT !.skip = TRUE]
        fresh == At(scene.targets, Firsts(scene.targets,
                    {t \in wanted : ~\E i \in DOMAIN p : chosen(i) /\ p[i].tool = t}))
        selected(i) == ~p[i].done /\ (~open(i) \/ chosen(i))
        part(is) == At([i \in DOMAIN p |-> revised(i)], is)
    IN  [plan |-> part({i \in DOMAIN p : ~selected(i) /\ ~hint(i)})
                      \o part({i \in DOMAIN p : selected(i)})
                      \o [k \in DOMAIN fresh |-> Step(<<fresh[k], "plain">>, "pre", "pre")]
                      \o part({i \in DOMAIN p : hint(i)}),
         changed |-> \/ fresh # <<>>
                     \/ \E i \in DOMAIN p : chosen(i) /\ p[i] # revised(i)
                     \/ \E i \in DOMAIN p : /\ open(i) /\ ~chosen(i) /\ ~hint(i)
                                            /\ ~p[i].skip]

ProbeTools == {"events", "logs"}

\* toolAlreadyCollected: a completed step counts even if its call failed.
Collected(p, t) == \/ \E c \in completed : c[1] = t
                   \/ \E i \in DOMAIN p : p[i].tool = t /\ p[i].done

ProbeMissing(p) == {t \in ProbeTools : ~Collected(p, t)}

\* ensureProbeEvidenceStep
Ensured(p, t, missing) == IF t \notin missing \/ PendingTool(p, t) THEN p
                          ELSE Schedule(p, Step(<<t, "plain">>, "plan", ""))

\* prioritizeProbeEvidenceSteps
ProbePlan(p) ==
    LET missing == ProbeMissing(p)
        all == Ensured(Ensured(p, "events", missing), "logs", missing)
        fallback(i) == Pending(all[i]) /\ all[i].tool \in missing
        first == At(all, {i \in DOMAIN all : fallback(i)})
    IN  At(all, DOMAIN all \ PendingIn(all))
            \o [k \in DOMAIN first |-> [first[k] EXCEPT !.group = ""]]
            \o At(all, {i \in PendingIn(all) : ~fallback(i)})

\* enforceRuntimeEvidencePlan: the revised plan, whether it counts as changed,
\* and whether the diagnostic context is thrown away to be collected afresh.
Enforce(p) ==
    IF pinned THEN LET t == Targeted(p, attempted)
                   IN  [plan |-> t.plan, changed |-> t.changed, refresh |-> FALSE]
    ELSE IF scene.probe /\ have /\ ProbeMissing(p) # {}
    THEN [plan |-> ProbePlan(p), changed |-> TRUE, refresh |-> facts # {"events", "logs"}]
    ELSE LET q == IF have THEN AppendMissing(p, scene.needs, Tools) ELSE p
         IN  [plan |-> q, changed |-> q # p, refresh |-> FALSE]

Refresh(e) ==
    /\ have' = (have /\ ~e.refresh)
    /\ facts' = IF e.refresh THEN {} ELSE facts
    /\ UNCHANGED <<attempted, completed, signal>>

-----------------------------------------------------------------------------
(* A turn of the loop.  An \E over one value names an intermediate plan.    *)

Stopped(reason) == pc' = "stopped" /\ stop' = reason /\ batch' = {} /\ verdict' = Undecided
NextTurn == /\ pc' = IF stop = "" THEN "select" ELSE "stopped"
            /\ batch' = {} /\ verdict' = Undecided /\ UNCHANGED stop

\* The top of a turn finds the context over (the deadline of the task, or its
\* cancellation): nothing else asks, and tools and LLM may fail at any time anyway.
Timeout ==
    /\ pc = "select" /\ Stopped("timeout")
    /\ UNCHANGED <<scene, plan, last, pinned, reflected, budget, evidenceVars, denied>>

\* The plan a turn starts from.
TurnPlan == EnsureConfigEvidence(IF pinned THEN Targeted(plan, attempted).plan ELSE plan)

ReachMaxSteps ==
    /\ pc = "select" /\ budget.steps >= MaxSteps
    /\ Stopped("max_steps")
    /\ UNCHANGED <<scene, plan, last, pinned, reflected, budget, evidenceVars, denied>>

Select ==
    /\ pc = "select" /\ budget.steps < MaxSteps
    /\ \E p \in {TurnPlan} :
         /\ PendingIn(p) # {}
         /\ plan' = p /\ batch' = NextPlanSteps(p) /\ pc' = "budget"
    /\ UNCHANGED <<scene, last, verdict, pinned, reflected, stop, budget, evidenceVars, denied>>

\* Nothing is pending: the runtime may ask for more evidence, or else the plan is over.
Exhaust ==
    /\ pc = "select" /\ budget.steps < MaxSteps
    /\ \E p \in {TurnPlan} : \E e \in {Enforce(p)} :
         /\ PendingIn(p) = {}
         /\ plan' = e.plan /\ Refresh(e)
         /\ IF e.changed THEN NextTurn ELSE Stopped("plan_complete")
    /\ UNCHANGED <<scene, last, pinned, reflected, budget, denied>>

\* enforceToolCallBudgets: a step over the budget of its tool is skipped.
Budget ==
    /\ pc = "budget"
    /\ LET earlier(i) == Cardinality({j \in batch : j < i /\ plan[j].tool = plan[i].tool})
           over == {i \in batch : budget.calls[plan[i].tool] + earlier(i) >= Limit(plan[i].tool)}
           made(t) == Cardinality({i \in batch \ over : plan[i].tool = t})
       IN  /\ plan' = [i \in DOMAIN plan |-> IF i \in over THEN [plan[i] EXCEPT !.skip = TRUE]
                                              ELSE plan[i]]
           /\ budget' = [budget EXCEPT !.calls = [t \in Tools |-> @[t] + made(t)]]
           /\ denied' = denied \cup {plan[i].by : i \in over}
           /\ batch' = batch \ over
           /\ pc' = IF batch = over THEN "select" ELSE "execute"
    /\ UNCHANGED <<scene, last, verdict, pinned, reflected, stop, evidenceVars>>

ToolsOf(is) == {plan[i].tool : i \in is}

\* executePlanSteps and the bookkeeping of its results, then the pre-analyzer,
\* then the hypotheses.  Good are the calls that succeed; they may fill the lists
\* of the context (a call for logs brings the events too, registry.go:325), show a
\* configuration failure, and let the structured state of the pod pin the fault.
Execute ==
    /\ pc = "execute"
    /\ \E good \in SUBSET batch,
          marked \in {[i \in DOMAIN plan |-> IF i \in batch THEN [plan[i] EXCEPT !.done = TRUE]
                                             ELSE plan[i]]} :
         LET tried == attempted \cup ToolsOf(batch)
             critical == \E i \in batch \ good : plan[i].tool = "pod"
             final == CHOOSE i \in batch : \A j \in batch : j <= i
             alarming == scene.config /\ ToolsOf(good) \cap {"events", "logs"} # {}
             lists == {l \in {"events", "logs"} : ToolsOf(good) \cap {l, "logs"} # {}}
             pinnable == /\ scene.targets # <<>> /\ ~critical
                         /\ ToolsOf(good) \cap SnapshotTools # {}
         IN  /\ attempted' = tried
             /\ completed' = completed \cup {<<plan[i].tool, plan[i].input>> : i \in good}
             /\ have' = (have \/ ToolsOf(good) \cap SnapshotTools # {})
             /\ facts' \in {facts \cup f : f \in SUBSET lists}
             /\ signal' \in {signal, signal \/ alarming}
             /\ stop' = IF critical THEN "critical_tool_failed" ELSE stop
             /\ pinned' \in {pinned, pinned \/ pinnable}
             /\ plan' = IF pinned' # pinned THEN Targeted(marked, tried).plan ELSE marked
             /\ budget' = [budget EXCEPT !.steps = @ + Cardinality(batch)]
             /\ last' = [tool |-> plan[final].tool, success |-> final \in good]
    /\ verdict' \in Verdicts
    /\ batch' = {}
    /\ pc' = IF scene.planner = "llm" THEN "reflect" ELSE "decide"
    /\ UNCHANGED <<scene, reflected, denied>>

\* hasRunnableDistinguishingEvidence
Runnable(p) == \E t \in verdict.gaps : PendingTool(p, t) \/ (t \notin attempted /\ ~HasTool(p, t))

\* appendDistinguishingEvidence
Distinguish(p) == IF verdict.top = "converged" \/ ~verdict.listed THEN p
                  ELSE AppendEvidence(p, verdict.gaps)

CanReflect == budget.rounds < MaxReflectionRounds /\ budget.added < MaxReflectionSteps

\* The steps of a reflection that the budget and redundantReflectionStep let in.
Reflection(asked) ==
    LET new  == At(LLMCalls, Firsts(LLMCalls, {c \in asked : ~Answered(c) /\ ~PendingCall(plan, c)}))
        room == MaxReflectionSteps - budget.added
    IN  plan \o [k \in 1..(IF Len(new) < room THEN Len(new) ELSE room) |-> Step(new[k], "reflection", "")]

SkipReflection ==
    /\ pc = "reflect" /\ ~CanReflect
    /\ pc' = "decide"
    /\ UNCHANGED <<scene, plan, batch, last, verdict, pinned, reflected, stop, budget,
                   evidenceVars, denied>>

\* Reflect never returns an error: without an answer it says continue, no steps.
Reflect ==
    /\ pc = "reflect" /\ CanReflect
    /\ \E go \in BOOLEAN, asked \in SUBSET ToSet(LLMCalls) :
       \E extended \in {Reflection(IF go THEN asked ELSE {})} : \E e \in {Enforce(extended)} :
         LET added == Len(extended) - Len(plan)
             collect == \/ e.changed \/ added > 0
                        \/ \E i \in PendingIn(e.plan) : e.plan[i].by = "reflection"
             converged == verdict.top = "converged"
             more == ~pinned /\ Runnable(e.plan)
         IN  /\ reflected' = IF go THEN "continue" ELSE "stop"
             /\ budget' = [budget EXCEPT !.rounds = @ + 1, !.added = @ + added]
             /\ Refresh(e)
             /\ \/ collect /\ plan' = e.plan /\ NextTurn
                \/ /\ ~collect /\ ~go /\ converged
                   /\ plan' = IF more /\ ~PendingRequired(e.plan)
                              THEN AppendEvidence(e.plan, verdict.gaps) ELSE e.plan
                   /\ IF more \/ PendingRequired(e.plan) THEN NextTurn
                      ELSE Stopped("llm_reflection_complete")
                \/ /\ ~collect /\ (go \/ ~converged)
                   /\ plan' = IF go THEN e.plan ELSE Distinguish(e.plan)
                   /\ pc' = "decide" /\ UNCHANGED <<batch, verdict, stop>>
    /\ UNCHANGED <<scene, last, pinned, denied>>

\* RulePlanner.AdjustPlan after the last call, for any open questions.
RuleAdjusted(p) ==
    IF last.success THEN {AppendEvidence(p, wanted) : wanted \in SUBSET ToSet(GapTools)}
    ELSE {[i \in DOMAIN p |-> IF p[i].tool = last.tool /\ ~p[i].done
                              THEN [p[i] EXCEPT !.skip = TRUE] ELSE p[i]]}

\* LLMPlanner.AdjustPlan: the answer drops a step or adds one, and echoes the
\* rest; without an answer the rules apply.  An answer carries no appended_by
\* (flexibleStep, llm/client.go:808), so nothing asks any more for a step that
\* it echoes.  What a goal of CrashLoopBackOff adds is left out.
LLMAdjusted(p) ==
    LET dropped == IF Len(p) < 2 THEN {} ELSE {RemoveAt(p, i) : i \in DOMAIN p}
        grown == {Append(p, Step(c, "plan", "")) : c \in ToSet(LLMCalls)}
        echo(q) == [i \in DOMAIN q |->
                       [q[i] EXCEPT !.by = "plan",
                                    !.group = IF q[i].tool \in Grouped THEN "snapshot" ELSE @]]
    IN  {echo(q) : q \in {p} \cup dropped \cup grown}

Adjusted(p) == RuleAdjusted(p) \cup IF scene.planner = "llm" THEN LLMAdjusted(p) ELSE {}

\* dropCompletedSnapshotSteps
DropCompleted(p) ==
    [i \in DOMAIN p |-> IF /\ p[i].tool \in SnapshotTools /\ ~p[i].done
                           /\ Answered(<<p[i].tool, p[i].input>>)
                        THEN [p[i] EXCEPT !.skip = TRUE] ELSE p[i]]

\* Why a run whose plan has nothing left stops.
ExhaustedReason(p) ==
    IF verdict.top = "tied" \/ (verdict.top = "firm" /\ ~Runnable(p)) THEN "confirmed_hypothesis"
    ELSE IF verdict.top = "fair" /\ reflected = "stop" /\ ~Runnable(p) THEN "llm_reflection_complete"
    ELSE "no_effective_tool"

\* The rest of the turn: a stop set by a critical tool holds, evidence the guards
\* ask for comes first, then a converged hypothesis ends the run.
Conclude ==
    /\ pc = "decide"
    /\ \E guarded \in {EnsureConfigEvidence(plan)}, e \in {Enforce(plan)} :
       \E wide \in {IF pinned THEN e.plan ELSE Distinguish(e.plan)} :
       LET more == ~pinned /\ Runnable(wide)
       IN  \/ /\ stop # "" /\ Stopped(stop) /\ UNCHANGED <<plan, evidenceVars>>
           \/ /\ stop = "" /\ guarded # plan /\ plan' = guarded
              /\ NextTurn /\ UNCHANGED evidenceVars
           \/ /\ stop = "" /\ guarded = plan /\ e.changed
              /\ plan' = e.plan /\ Refresh(e) /\ NextTurn
           \/ /\ stop = "" /\ guarded = plan /\ ~e.changed /\ verdict.top = "converged"
              /\ plan' = IF more /\ ~PendingRequired(wide)
                         THEN AppendEvidence(wide, verdict.gaps) ELSE wide
              /\ IF more \/ PendingRequired(wide) THEN NextTurn ELSE Stopped("confirmed_hypothesis")
              /\ UNCHANGED evidenceVars
    /\ UNCHANGED <<scene, last, pinned, reflected, budget, denied>>

\* No stop, no guard and no convergence: revise the plan and go on, if anything is left.
Adjust ==
    /\ pc = "decide" /\ stop = "" /\ verdict.top # "converged"
    /\ \E held \in {Enforce(plan)} :
       \E revised \in IF pinned THEN {held.plan} ELSE Adjusted(Distinguish(held.plan)) :
       \E p \in {DropCompleted(revised)} : \E e \in {Enforce(p)} :
         /\ EnsureConfigEvidence(plan) = plan /\ ~held.changed
         /\ \/ PendingIn(p) # {} /\ plan' = p /\ NextTurn /\ UNCHANGED evidenceVars
            \/ /\ PendingIn(p) = {} /\ plan' = e.plan /\ Refresh(e)
               /\ IF e.changed THEN NextTurn ELSE Stopped(ExhaustedReason(e.plan))
    /\ UNCHANGED <<scene, last, pinned, reflected, budget, denied>>

Turn == ReachMaxSteps \/ Select \/ Exhaust \/ Budget \/ Execute \/ SkipReflection \/ Reflect
        \/ Conclude \/ Adjust

Done == pc = "stopped" /\ UNCHANGED vars

Next == Turn \/ Timeout \/ Done

\* The loop never waits for anything but its tools and the LLM, which answer or
\* time out; nothing says that the deadline comes while it runs.
Spec == Init /\ [][Next]_vars /\ WF_vars(Turn)

-----------------------------------------------------------------------------
(* Properties.                                                             *)

\* Once the pre-analyzer has pinned the fault (applyTargetedEvidencePlan), a
\* tool is called only for that fault, for a reflection or for a guard, or to
\* search the runbook, whatever was appended to the plan meanwhile.
PinnedBatch ==
    pc = "execute" /\ pinned =>
        \A i \in batch : plan[i].by \in Required \/ plan[i].tool = "runbook"

FollowUps == \A i \in DOMAIN GuardCalls : Answered(GuardCalls[i]) \/ PendingCall(plan, GuardCalls[i])

\* A confirmed hypothesis is announced only once no required question is open,
\* events and logs of an unready pod with probes were asked for, and, with the rule
\* planner, the follow-ups of a configuration failure have answered or are still
\* planned.  A question is required until a revision of the LLM echoes it, for the
\* answer has no appended_by (client.go:879); and the LLM may drop a follow-up.
EvidenceFirst ==
    stop = "confirmed_hypothesis" =>
        /\ \A i \in PendingIn(plan) :
               plan[i].by \in Required => Answered(<<plan[i].tool, plan[i].input>>)
        /\ scene.probe /\ have /\ ~pinned => ProbeMissing(plan) = {}
        /\ signal /\ scene.planner = "rule" => FollowUps

ProbeSpent == scene.probe /\ have /\ ~pinned /\ \E t \in ProbeMissing(plan) : Spent(t)

\* The loop ends by its own bounds, before any deadline, but for two cases, in which
\* a step is asked for again at every turn and the loop turns without a call: a
\* guard's step was refused by a call budget (config_failure_guardrail.go:51; also
\* where it was a reflection's), or an unready pod with probes lacks events or logs
\* whose calls are spent (probe_evidence_fallback.go:284; its failed calls count as
\* collected only until the LLM drops their steps).
LoopEndsInBudget == <>(pc = "stopped" \/ denied \cap Adaptive # {} \/ ProbeSpent)
=============================================================================
