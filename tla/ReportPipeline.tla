--------------------------- MODULE ReportPipeline ---------------------------
(***************************************************************************)
(* From a pod to a stored diagnosis: the tools collect evidence, the rule  *)
(* engine writes a report, the integrity check looks for thin hypotheses,  *)
(* the confirmed hypotheses are reconciled with the report, remediation    *)
(* actions are generated and go through the policy, and the final scores   *)
(* and the snapshot are stored (internal/agent/runtime.go after its loop,  *)
(* report_alignment.go, remediation_policy.go, report.go).                 *)
(***************************************************************************)
EXTENDS RuleEngine, Hypotheses

CONSTANTS MaxTroubles,       \* bound: how many changes make the pod
          MaxScored,         \* bound: how many make one whose hypotheses are scored by a model
          Changing,          \* the fields of a pod that change
          FirstGroups,       \* the groups of tools a plan may begin with
          Opinions           \* what a language model may say of hypotheses: confidences by type
ASSUME BoundAssumption == /\ MaxTroubles \in Nat /\ MaxScored \in Nat
                          /\ Changing \subseteq DOMAIN Healthy
                          /\ FirstGroups # {} /\ {} \notin FirstGroups
                          /\ \A answer \in Opinions : \A type \in DOMAIN answer : answer[type] \in 0..1000

VARIABLES
    pod,          \* what there is to see in the cluster
    troubles,     \* bound: how many changes made it; the most of them once it is diagnosed
    scorer,       \* whether a language model scores the hypotheses too; no step changes it
    stage,        \* how far the run is
    context,      \* the diagnostic context: the pod with the sections that were collected
    seen,         \* allEvidence: the records of the tools that ran
    reason,       \* stopReason
    report,       \* the report, << >> before the engine ran
    scores,       \* the hypotheses: latestScores, the ones aligned with, the ones stored
    executions,   \* state.Executions, stored with the report: the types of their actions
    snapshot      \* AgentReportSnapshot, << >> before it is built

vars == <<pod, troubles, scorer, stage, context, seen, reason, report, scores, executions, snapshot>>

Stages == {"cluster", "observing", "analyzing", "analyzed", "aligned", "remediated", "stored",
           "legacy"}

(* What a scoring may be answered: every call may fail, and NewRuntime wires a scorer only  *)
(* when the planner is the one with a language model and has a client for it.               *)
Answers == {NoAnswer} \cup IF scorer THEN Opinions ELSE {}

Init ==
    /\ pod = Healthy /\ troubles = 0 /\ stage = "cluster" /\ scorer \in BOOLEAN
    /\ context = << >> /\ seen = {} /\ reason = ""
    /\ report = << >> /\ scores = << >> /\ executions = {} /\ snapshot = << >>

(* What happened to the pod before it is diagnosed.  A setting comes first, and counts as   *)
(* two changes.                                                                             *)
Most == IF scorer THEN MaxScored ELSE MaxTroubles
Become(pods, changes) ==
    /\ troubles + changes <= Most
    /\ \E q \in pods \ {pod} :
          /\ \A f \in DOMAIN pod \ Changing : q[f] = pod[f]
          /\ pod' = q
    /\ troubles' = troubles + changes

Change ==
    /\ stage = "cluster"
    /\ \/ Become(Worse(pod), 1)
       \/ troubles = 0 /\ Become(Settings(pod), 2)
    /\ UNCHANGED <<scorer, stage, context, seen, reason, report, scores, executions, snapshot>>

-----------------------------------------------------------------------------
(* diagnosticContextForTool: a snapshot reads the whole pod and each tool keeps its section *)
(* of it.  The goal of a tool never asks for metrics (snapshotGoalForTool).                 *)
Unread == [events |-> {}, logs |-> {}, topology |-> FALSE, pvc |-> "none",
           memory |-> "off", trend |-> "none"]
Section(tool) ==
    CASE tool = "k8s.get_events" -> {"events"} [] tool = "k8s.get_logs" -> {"events", "logs"}
      [] tool = "k8s.get_topology" -> {"topology"} [] tool = "k8s.get_pvc" -> {"pvc"}
      [] OTHER -> {}
Known(p, sections) ==
    [f \in DOMAIN p |-> IF f \in DOMAIN Unread \ sections THEN Unread[f] ELSE p[f]]
MergeContext(ctx, p, sections) ==                                \* mergeDiagnosticContext
    [f \in DOMAIN p |-> IF f \in DOMAIN Unread \ sections THEN ctx[f] ELSE p[f]]

(* shouldRefreshSnapshotForTool: once there is a context only events and logs are read      *)
(* again; the topology and the claims stay as the first group of tools left them.           *)
Refreshes == {"k8s.get_events", "k8s.get_logs"}

(* The evidence a tool returns; p is what it sees of the pod. *)
ToolRecords(tool, p) ==
    CASE tool = "k8s.get_pod" -> {Record("k8s_pod", "PodLoaded", {}, "info")}
      [] tool = "k8s.get_events" -> EventRecords(Events(p), "info")
      [] tool = "k8s.get_logs" ->
             IF p.logs = {} THEN {} ELSE {Record("k8s_log", "Logs", LogWords(p), "info")}
      [] tool = "k8s.get_pvc" -> PVCRecord(p, "warning")
      [] tool = "k8s.get_topology" -> {}
      [] tool = "k8s.get_config_refs" ->
             IF p.config = "none" THEN {}
             ELSE {Record("k8s_config_ref", "ConfigMapRef",
                          IF p.config = "present" THEN {} ELSE {"config", p.config},
                          IF p.config = "present" THEN "info" ELSE "warning")}
      [] tool = "prometheus.query_range" ->
             IF pod.memory \in {"off", "unset"} THEN {}
             ELSE {Record("prometheus", "QueryRange", {}, "info")}
      [] tool = "runbook.search" ->
             IF p.runbook = {} THEN {} ELSE {Record("runbook", "Runbook", p.runbook, "info")}

Tools == {"k8s.get_pod", "k8s.get_events", "k8s.get_logs", "k8s.get_topology", "k8s.get_pvc",
          "k8s.get_config_refs", "prometheus.query_range", "runbook.search"}
ASSUME ToolsAssumption == FirstGroups \subseteq SUBSET Tools

(* What a run that begins with these tools can come to know of the pod: the shape of its    *)
(* metrics never, its node and its claims only with the first group.                        *)
Readable(p, first) ==
    LET q == Known(p, UNION {Section(t) : t \in first \cup Refreshes})
    IN  [q EXCEPT !.node = IF q.topology THEN @ ELSE {},
                  !.memory = IF p.memory \in {"off", "unset"} THEN "off" ELSE "empty"]

(* The first tools of the plan run as one group and each finds no context, so each takes a  *)
(* snapshot and contributes its section.  The rule plan begins with k8s.get_pod alone.      *)
Snapshot ==
    /\ stage = "cluster"
    /\ stage' = "observing" /\ troubles' = Most
    /\ \E first \in FirstGroups :
          /\ pod' = Readable(pod, first)
          /\ context' = Known(pod', UNION {Section(t) : t \in first})
          /\ seen' = UNION {ToolRecords(t, Known(pod', Section(t))) : t \in first}
    /\ \E answer \in Answers : scores' = Update(context', seen', answer)
    /\ UNCHANGED <<scorer, reason, report, executions, snapshot>>

(* A later tool: what it does not read again it takes from the context.  A tool that would  *)
(* neither add a record nor fill a section is left out.                                     *)
Observe ==
    /\ stage = "observing"
    /\ \E tool \in Tools :
          /\ context' = MergeContext(context, pod, IF tool \in Refreshes THEN Section(tool) ELSE {})
          /\ seen' = seen \cup ToolRecords(tool, context')
    /\ seen' # seen \/ context' # context
    /\ \E answer \in Answers : scores' = Update(context', seen', answer)
    /\ UNCHANGED <<pod, troubles, scorer, stage, reason, report, executions, snapshot>>

(* The loop stops on a hypothesis, because a budget is spent, or because nothing is left to *)
(* do (which stands for the other reasons).  A run whose time is up stores nothing, its     *)
(* context is dead.                                                                         *)
StopObserving ==
    /\ stage = "observing"
    /\ stage' = "analyzing"
    /\ \/ reason' = "confirmed_hypothesis" /\ (Converged(scores) \/ LikelyEnough(scores))
       \/ reason' = "max_steps"
       \/ reason' = "no_effective_tool" /\ ~LikelyEnough(scores)
    /\ UNCHANGED <<pod, troubles, scorer, context, seen, report, scores, executions, snapshot>>

-----------------------------------------------------------------------------
(* appendUniqueEvidence: a record is known by its source and title; of two that are not in  *)
(* the report the first collected stays.                                                    *)
(* mutant: the report keeps the evidence of the analyzers only *)
MergedMutant(ev, extra) == {ev}
Merged(ev, extra) ==
    LET new == {Ref(r) : r \in extra} \ {Ref(r) : r \in ev}
        pick == {f \in [new -> extra] : \A ref \in new : Ref(f[ref]) = ref}
    IN  {ev \cup Range(f) : f \in pick}

(* runAnalyzer: the engine's report, with the evidence of the tools. *)
Analyze ==
    /\ stage = "analyzing"
    /\ \E r \in Reports(context) : \E ev \in Merged(r.ev, seen) : report' = [r EXCEPT !.ev = ev]
    /\ stage' = "analyzed"
    /\ UNCHANGED <<pod, troubles, scorer, context, seen, reason, scores, executions, snapshot>>

(* enhanceReportWithLLM, with grounding or without: the report of the rules stays as it is. *)
(* A summary that is kept stands beside it; one that was not made, that was rejected or     *)
(* that is of poor quality leaves a warning among the evidence.                             *)
Enhanced(r) == {r, [r EXCEPT !.ev = @ \cup {Record("llm", "Summary", {}, "warning")}]}

(* runLegacyDiagnosis: without the agent the engine's report on the whole snapshot is kept, *)
(* with what the runbooks and the language model have to say.  The runbooks may fail.       *)
Legacy ==
    /\ stage = "cluster"
    /\ stage' = "legacy" /\ troubles' = Most
    /\ context' = pod
    /\ \E r \in Reports(context'), hits \in {{}, ToolRecords("runbook.search", pod)} :
          report' \in Enhanced([r EXCEPT !.ev = @ \cup hits])
    /\ UNCHANGED <<pod, scorer, seen, reason, scores, executions, snapshot>>

-----------------------------------------------------------------------------
FaultOf(type) ==                                                \* hypothesisFaultType
    CASE type \in {"memory_limit_too_low", "application_memory_leak"} -> "OOMKilled"
      [] type \in {"bad_config", "missing_secret_or_configmap", "dependency_unavailable"}
             -> "CrashLoopBackOff"
      [] type = "probe_misconfigured" -> "ProbeFailed"
      [] type \in {"pvc_unbound", "scheduling_constraint"} -> "PodPending"
      [] type = "image_pull_failed" -> "ImagePullBackOff"
      [] type = "init_container_crash" -> "InitContainerError"
      [] type = "node_eviction" -> "Evicted"
      [] type = "node_not_ready" -> "NodeNotReady"
      [] OTHER -> ""

(* analyzerHasStructuralEvidence: what counts as structure for the fault of the primary *)
Structure(fault) ==
    CASE fault = "OOMKilled" -> <<{"k8s_pod_status"}, {"oom"}>>
      [] fault = "CrashLoopBackOff" -> <<{"k8s_pod_status", "k8s_event"}, {"back-off restarting"}>>
      [] fault = "ImagePullBackOff" -> <<{"k8s_pod_status", "k8s_event"}, {"imagepull"}>>
      [] fault \in {"InitContainerError", "InitError"} ->
             <<{"k8s_pod_status"}, {"exitcode", "waitingreason="}>>
      [] fault = "Evicted" -> <<{"k8s_pod_status"}, {"evict"}>>
      [] fault = "NodeNotReady" -> <<{"k8s_topology", "k8s_event"}, {"nodeready=false", "node notready"}>>
      [] fault = "PodPending" -> <<{"k8s_event", "k8s_pvc", "k8s_pod_status"},
                                   {"failedscheduling", "unbound", "phase=pending"}>>
      [] fault = "ProbeFailed" -> <<{"k8s_event", "k8s_pod_status"}, {"probe"}>>
      [] OTHER -> <<{}, {}>>
Structural(fault, ev) ==
    \E r \in ev : /\ r.src \in Structure(fault)[1]
                  /\ (TitleWords[r.title] \cup r.says) \cap Structure(fault)[2] # {}
(* mutant: only a named analyzer is an authority *)
AnalyzerPrimaryAuthoritativeMutant(r) ==
    r.faults # {"unknown"} /\ r.primary.by \notin {"", "agent_hypothesis"}
AnalyzerPrimaryAuthoritative(r) ==
    /\ r.faults # {"unknown"}
    /\ r.primary.by \notin {"", "agent_hypothesis"} \/ Structural(r.primary.fault, r.ev)

IsContributing(h) == h.status = "confirmed" \/ (h.status = "active" /\ h.conf >= 450)
HasFault(factors, fault) == \E i \in DOMAIN factors : factors[i].fault = fault
FactorOf(h, role) == Factor("agent_hypothesis", FaultOf(h.type), h.conf, role)

(* alignedContributingFactors: the first six, one for each fault *)
AlignedFactors(factors, hyps, primary) ==
    FoldLeft(LAMBDA fs, h :
                IF \/ h.type = primary.type \/ ~IsContributing(h) \/ FaultOf(h.type) = ""
                   \/ HasFault(fs, FaultOf(h.type)) \/ Len(fs) >= 6
                THEN fs ELSE Append(fs, FactorOf(h, "hypothesis_factor")),
            factors, hyps)

(* AlignReportWithHypotheses *)
Aligned(r, hyps) ==
    LET best == SelectPrimary(hyps) IN
    IF best = << >> THEN r
    ELSE LET h == best[1] IN
         IF h.status # "confirmed" \/ FaultOf(h.type) \in r.faults \cup {""} THEN r
         ELSE IF AnalyzerPrimaryAuthoritative(r)
              THEN IF HasFault(r.factors, FaultOf(h.type)) THEN r
                   ELSE [r EXCEPT !.factors = Append(@, FactorOf(h, "hypothesis_explanation"))]
              ELSE [r EXCEPT !.faults = {FaultOf(h.type)}, !.conf = 10 * h.conf,
                             !.primary = FactorOf(h, "primary"),
                             !.factors = AlignedFactors(@, hyps, h)]

(* The integrity check judges the scores of the loop by the evidence of the report; the     *)
(* hypotheses are then scored again, its record included, and the report reconciled.        *)
Reconcile ==
    /\ stage = "analyzed"
    /\ LET ev == report.ev \cup IntegrityRecords(scores, report.ev) IN
          /\ \E answer \in Answers : scores' = Update(context, ev, answer)
          /\ report' = Aligned([report EXCEPT !.ev = ev], scores')
    /\ stage' = "aligned"
    /\ UNCHANGED <<pod, troubles, scorer, context, seen, reason, executions, snapshot>>

-----------------------------------------------------------------------------
(* SanitizeActions: proposals of medium risk wait for an approval, the others do not. *)
NeedsApproval == {"extend_probe_delay", "fix_probe_path"}

(* remediation.generate_actions, or its failure *)
Remediate ==
    /\ stage = "aligned"
    /\ \/ executions' = RemediationActions(context, report.faults, report.ev)
          /\ UNCHANGED report
       \/ /\ report' = [report EXCEPT !.ev = @ \cup {Record("agent", "NoRemediation", {}, "warning")}]
          /\ UNCHANGED executions
    /\ stage' = "remediated"
    /\ UNCHANGED <<pod, troubles, scorer, context, seen, reason, scores, snapshot>>

-----------------------------------------------------------------------------
(* rootCauseFactors: the primary of the snapshot, a fault of the report or a hypothesis. *)
SnapshotPrimary(r, hyps) ==
    LET sorted == SortBy(BetterPrimary, hyps)
        left == {i \in DOMAIN sorted : sorted[i].status # "rejected"} IN
    IF AnalyzerPrimaryAuthoritative(r) THEN [kind |-> "analyzer", name |-> r.primary.fault]
    ELSE IF left = {} THEN [kind |-> "rule", name |-> "unknown"]
    ELSE [kind |-> "hypothesis", name |-> sorted[Min(left)].type]

SourceGroups ==
    [pod_status |-> {"k8s_pod", "k8s_pod_status"}, events |-> {"k8s_event"},
     logs |-> {"k8s_log", "k8s_key_log", "loki"}, metrics |-> {"prometheus", "prometheus_trend"},
     topology |-> {"k8s_topology", "k8s_pvc", "k8s_node", "correlation_evidence"},
     runbook |-> {"runbook"}]
MissingSources(ev) ==
    {g \in DOMAIN SourceGroups : \A r \in ev : r.src \notin SourceGroups[g]}

(* residualRisks; of the two reasons it speaks of, a timeout is never stored *)
ResidualRisks(hyps, execs, why) ==
    {<<"active", h.type>> : h \in {x \in Range(hyps) : x.status = "active"}}
    \cup {<<"approve", action>> : action \in execs \cap NeedsApproval}
    \cup (IF why = "max_steps" THEN {<<"stopped", "early">>} ELSE {})

(* mutant: the final scores use the evidence of the tools alone *)
FinalScoresMutant(answer) == Update(context, seen, answer)
FinalScores(answer) == Update(context, report.ev, answer)

Store ==
    /\ stage = "remediated"
    /\ \E answer \in Answers : scores' = FinalScores(answer)
    /\ snapshot' = [primary |-> SnapshotPrimary(report, scores'),
                    missing |-> MissingSources(report.ev),
                    risks   |-> ResidualRisks(scores', executions, reason)]
    /\ stage' = "stored"
    /\ UNCHANGED <<pod, troubles, scorer, context, seen, reason, report, executions>>

Next == \/ Change \/ Snapshot \/ Observe \/ StopObserving \/ Analyze \/ Legacy
        \/ Reconcile \/ Remediate \/ Store

Spec == Init /\ [][Next]_vars

-----------------------------------------------------------------------------
(* The analyzers own the fault: a hypothesis names the fault of a report only when no       *)
(* analyzer matched, and then only a confirmed one does (AlignReportWithHypotheses).  The   *)
(* node analyzer gives no name, its result is kept for its evidence alone.                  *)
AnalyzerOwnsFault ==
    [][stage = "analyzed" =>
          \/ report'.faults = report.faults /\ report'.primary = report.primary
          \/ /\ report.faults = {"unknown"}
             /\ \E h \in Range(scores') : /\ h.status = "confirmed"
                                          /\ report'.faults = {FaultOf(h.type)}]_vars

(* When no language model scores the hypotheses, analyzing the report loses no confirmed    *)
(* hypothesis: what the loop stopped on is still confirmed when the report is reconciled    *)
(* and when it is stored.  The one exception is the merge of the evidence: a record is      *)
(* known by its source and title, so a tool's record that says something else than the      *)
(* report's record of that name is dropped.  With a scorer nothing of the kind holds: each  *)
(* scoring asks it again.                                                                   *)
Collapsed == \E r \in seen \ report.ev, e \in report.ev :
                 Ref(r) = Ref(e) /\ Words(r) \ Words(e) # {}
Confirmed(hyps) == {hyps[i].type : i \in {j \in DOMAIN hyps : hyps[j].status = "confirmed"}}
ConfirmedStands ==
    [][(~scorer /\ stage \in {"analyzed", "remediated"}) =>
          Confirmed(scores) \subseteq Confirmed(scores') \/ Collapsed]_vars

(* When a hypothesis heads the snapshot, its fault is the report's. *)
HeadIsReported ==
    (stage = "stored" /\ snapshot.primary.kind = "hypothesis") =>
        \/ report.faults = {"unknown"}
        \/ FaultOf(snapshot.primary.name) \in report.faults

(* A fault that a hypothesis gave the report is backed by one that is stored as confirmed,  *)
(* and as likely as the report says: what is stored was scored again since.                 *)
FaultIsBacked ==
    (stage = "stored" /\ report.primary.by = "agent_hypothesis") =>
        \E h \in Range(scores) : /\ h.status = "confirmed" /\ 10 * h.conf >= report.conf
                                 /\ FaultOf(h.type) = report.primary.fault

(* When no language model scores the hypotheses, the snapshot and the report agree.  Their  *)
(* primaries are chosen by a sort and by a scan, over scores taken after and before         *)
(* remediation, with a comparison that is no order: within .03 the more specific wins.      *)
SnapshotAgrees == ~scorer => HeadIsReported /\ FaultIsBacked

(* A container that fails is never reported as "unknown", but for two kinds that fall       *)
(* between the analyzers: one killed with 137 and reason Error when nothing says OOM (the   *)
(* crash loop leaves what looks like an OOM kill to the OOM analyzer), and one whose        *)
(* termination is its current state and no OOM kill (nobody looks at it: a container that   *)
(* was not restarted, yet or ever).                                                         *)
Unclaimed(s) == s.place = "last" /\ s.code = 137 /\ s.why # "OOMKilled"
FailureIsNamed ==
    (stage \in {"stored", "legacy"} /\ report.faults = {"unknown"}) =>
        \A s \in Containers(pod) : \/ s = ContainerStates.up
                                   \/ Unclaimed(s) /\ ~OOMSignal(context)
                                   \/ s.place = "now" /\ ~IndicatesOOM(context, s)

(* A container that was OOM killed outranks scheduling events: with such a termination the  *)
(* primary cause is PodPending only when a third result lies between the two in the scan    *)
(* of selectBestResult, which forgets what it has beaten.                                   *)
StrongOOMOutranks ==
    (stage \in {"analyzed", "legacy"} /\ report.primary.fault = "PodPending" /\ OOMTerminations(pod) # {}) =>
        \A f \in Range(report.factors) :
            \/ f.fault # "OOMKilled"
            \/ \E g \in Range(report.factors) :
                   /\ g.fault \notin {"OOMKilled", "ProbeFailed", "NodeNotReady"}
                   /\ g.conf >= f.conf
=============================================================================
