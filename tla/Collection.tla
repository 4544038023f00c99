----------------------------- MODULE Collection -----------------------------
(***************************************************************************)
(* How the evidence is collected: groups of tool calls read the cluster in *)
(* parallel (internal/agent/registry.go, config_refs_tool.go), each call   *)
(* through SnapshotService.Collect, a sequence of reads with retries       *)
(* (internal/service/snapshot_service.go, internal/k8s,                    *)
(* internal/prometheus, internal/loki, internal/resilience), under a       *)
(* deadline; when all have ended their results are merged in plan order    *)
(* into the state of the run (runtime.go, state.go).  The cluster goes on  *)
(* meanwhile.  runLegacyDiagnosis collects everything in one call.         *)
(*                                                                         *)
(* Time is counted in moments, which lie further apart than the log window *)
(* is wide.  How a plan comes about and is revised is AgentLoop's.         *)
(***************************************************************************)
EXTENDS Integers, Sequences, FiniteSets, SequencesExt

CONSTANTS
    Containers,    \* the containers of the pod
    Runs,          \* what is asked for (see RequestType) and how: sequences of groups of calls,
                   \* each a sequence of <<tool, container>>
    Configured,    \* which of Prometheus and Loki have an address
    Samples,       \* what Prometheus may answer: sequences of values a minute apart
    MaxAttempts,   \* diagnosis.retry_max_attempts
    MaxMoments, MaxErrors, MaxHangs     \* bounds of the model

Tools == {"k8s.get_pod", "k8s.get_events", "k8s.get_logs", "k8s.get_topology", "k8s.get_pvc",
          "k8s.get_config_refs", "prometheus.query_range", "loki.query_logs", "runbook.search",
          "collect"}                          \* the last is the legacy diagnosis
All == "all"                                  \* no container_name is given
Targets == Containers \cup {All}
Moments == 1..MaxMoments                      \* 0 is no time
RequestType == [sections: SUBSET {"events", "logs", "metrics"}, target: Targets,
                alert: 0..MaxMoments,
                probed: BOOLEAN]              \* unknown fault, pod unready with a probe
AgentCalls == (Tools \ {"collect"}) \X Targets
LegacyPlan == << << <<"collect", All>> >> >>

ASSUME ContainerAssumption == IsFiniteSet(Containers) /\ Containers # {} /\ All \notin Containers
ASSUME RunAssumption == \A r \in Runs : /\ r.goal \in RequestType
                                        /\ r.plan \in Seq(Seq(AgentCalls)) \cup {LegacyPlan}
                                        /\ << >> \notin ToSet(r.plan)
ASSUME ServerAssumption == Configured \subseteq {"prometheus", "loki"}
ASSUME SampleAssumption == \A s \in Samples : s \in Seq(Nat)
ASSUME BoundAssumption == {MaxAttempts, MaxMoments} \subseteq Nat \ {0} /\ {MaxErrors, MaxHangs} \subseteq Nat

VARIABLES
    cluster,   \* the pod and what belongs to it, as it is now
    goal,      \* state.Goal
    context,   \* state.DiagnosticContext, Nothing while it is nil
    found,     \* state.EvidenceRecords: <<source, what it says>>
    called,    \* the tools whose step is completed
    plan,      \* the groups that are left to run
    calls,     \* the calls of the group that is running
    budget     \* what is left of the bounds of the model

vars == <<cluster, goal, context, found, called, plan, calls, budget>>

Profiles == {"oom_memory_growth", "traffic_or_cpu_spike", "restart_trend"}     \* metricProfiles
Phases == {"Bound", "Pending"}               \* of the claim the pod refers to
EventType == [at: Moments, fault: BOOLEAN]
\* logs: per container the instances whose lines are there, and the fault time of the window
Nothing == [pod |-> << >>, events |-> {}, logs |-> << >>, fault |-> 0, claim |-> "none",
            topology |-> "none", correlations |-> "none", nodes |-> FALSE, trends |-> << >>]
Known == context.pod # << >>

Init ==
    /\ cluster = [now |-> 1, deaths |-> [c \in Containers |-> << >>],
                  events |-> {[at |-> 1, fault |-> FALSE]}]
    /\ \E r \in Runs : goal = r.goal /\ plan = r.plan
    /\ context = Nothing /\ found = {} /\ called = {} /\ calls = << >>
    /\ budget = [errors |-> MaxErrors, hangs |-> MaxHangs]

-----------------------------------------------------------------------------
(* The cluster. *)

Restart(c) ==
    /\ cluster.now < MaxMoments
    /\ cluster' = [cluster EXCEPT !.now = @ + 1, !.deaths[c] = Append(@, cluster.now + 1),
                                  !.events = @ \cup {[at |-> cluster.now + 1, fault |-> TRUE]}]
    /\ UNCHANGED <<goal, context, found, called, plan, calls, budget>>

\* status.containerStatuses: when each container terminated last, 0 if it never did
LastDeath(c) == IF cluster.deaths[c] = << >> THEN 0 ELSE Last(cluster.deaths[c])

-----------------------------------------------------------------------------
(* The reads of one SnapshotService.Collect. *)

Latest(times) == IF times = {} THEN 0 ELSE CHOOSE t \in times : \A u \in times : u <= t

(* resolveFaultTime: the last termination, else the last event that tells of a fault, else  *)
(* the last event, else the alert; 0 when there is none of them.                            *)
FaultTime(d) ==
    LET died   == Latest({d.pod[c] : c \in Containers})
        failed == Latest({e.at : e \in {x \in d.events : x.fault}})
        latest == Latest({e.at : e \in d.events})
    IN  IF died # 0 THEN died ELSE IF failed # 0 THEN failed
        ELSE IF latest # 0 THEN latest ELSE goal.alert

(* CollectPodLogs: the kubelet has the log of the running instance of a container and of    *)
(* the one before; with a fault time only the lines of its window are kept.                 *)
\* mutant: only the running instance is asked for
LinesMutant(c, f) == {Len(cluster.deaths[c])}
Lines(c, f) ==
    LET ends == cluster.deaths[c]
        kept == {Len(ends), Len(ends) - 1} \cap Nat
    IN  IF f = 0 THEN kept
        ELSE {k \in kept : (k = 0 \/ ends[k] <= f) /\ (k = Len(ends) \/ f <= ends[k + 1])}

(* classifyTrend: the class of the samples of one query. *)
Classify(profile, s) ==
    LET total == FoldLeft(+, 0, s)   IN
    IF s = << >> THEN "no_data"
    ELSE IF Len(s) >= 4 /\ s[1] > 0 /\ 2 * (Last(s) - s[1]) >= s[1] THEN "progressive_growth"
    ELSE IF Len(s) >= 4 /\ total > 0 /\ 2 * Len(s) * Latest(ToSet(s)) >= 5 * total THEN "sudden_spike"
    ELSE IF profile = "restart_trend" /\ Last(s) > s[1] THEN "restart_increasing"
    ELSE "stable"

With(f, x, v) == [y \in DOMAIN f \cup {x} |-> IF y = x THEN v ELSE f[y]]

(* What the reads of Collect make of the context d that is being collected. *)
GetPod(d) == [d EXCEPT !.pod = [c \in Containers |-> LastDeath(c)]]
ListPodEvents(d) == [d EXCEPT !.events = cluster.events]
CollectPodLogs(d, c, shows) ==
    [d EXCEPT !.fault = FaultTime(d), !.logs = With(@, c, [shows |-> shows, fault |-> FaultTime(d), loki |-> FALSE])]
CollectLokiLogs(d) == [d EXCEPT !.logs = [c \in DOMAIN @ |-> [@[c] EXCEPT !.loki = TRUE]]]
ListPodPVCs(d, phase) == [d EXCEPT !.claim = phase]
CollectTopology(d, extent) == [d EXCEPT !.topology = extent]
\* the peers that fail too are found among the pods of the topology
CollectCorrelations(d) == [d EXCEPT !.correlations = d.topology]
ListNodeSnapshots(d) == [d EXCEPT !.nodes = TRUE]
\* QueryRange: one answer to every query, here
CollectTrends(d) == {[d EXCEPT !.trends = [p \in Profiles |-> Classify(p, s)]] : s \in Samples}

Learnt(d, read) ==
    CASE read[1] \in {"pod", "live"} -> {GetPod(d)}
      [] read[1] = "events" -> {ListPodEvents(d)}
      [] read[1] = "log" -> {CollectPodLogs(d, read[2], Lines(read[2], FaultTime(d)))}
      [] read[1] = "loki" -> {CollectLokiLogs(d)}
      [] read[1] = "claims" -> {ListPodPVCs(d, phase) : phase \in Phases}
      [] read[1] = "topology" -> {CollectTopology(d, "full")}
      [] read[1] = "correlations" -> {CollectCorrelations(d)}
      [] read[1] = "nodes" -> {ListNodeSnapshots(d)}
      [] read[1] = "trends" -> CollectTrends(d)
      [] OTHER -> {d}

(* What is left when a read fails for good.  Only the pod is indispensable.  A claim that   *)
(* could not be read is listed with phase "Unknown", a log stream as an empty log, and the  *)
(* topology and the correlations hold what could be found.                                  *)
Missed(d, read) ==
    CASE read[1] = "log" -> CollectPodLogs(d, read[2], {})
      [] read[1] = "claims" -> ListPodPVCs(d, "Unknown")
      [] read[1] = "topology" -> CollectTopology(d, "partial")
      [] read[1] = "correlations" -> [d EXCEPT !.correlations = "partial"]
      [] read[1] = "trends" -> [d EXCEPT !.trends = [p \in Profiles |-> "query_failed"]]
      [] OTHER -> d

(* What the containers refer to, by their environment and their volumes: a key of a         *)
(* ConfigMap or Secret or the whole of it, or a claim, which nobody inspects.               *)
PodConfigReferences == [of: {"object"}, key: {"key", ""}] \cup [of: {"claim"}, key: {""}]

(* What there is to find of a ConfigMap or Secret; of the values only the size is read.     *)
InspectConfigObject == {[exists |-> FALSE, sizes |-> << >>]}
    \cup [exists: {TRUE}, sizes: UNION {[keys -> 0..1] : keys \in SUBSET {"key"}}]
ContentStatus(ref, object) ==
    CASE ref.of = "claim" -> ""
      [] ref.of = "object" /\ ~object.exists -> "object_missing"
      [] ref.of = "object" /\ object.exists ->
             CASE ref.key = "" -> "object_present"
               [] ref.key # "" /\ object.sizes = << >> -> "key_missing"
               [] ref.key # "" /\ object.sizes # << >> -> IF object.sizes["key"] = 0 THEN "empty" ELSE "non_empty"

(* resilience.Do: the reads that are tried again.  The others swallow their errors, or are  *)
(* not wrapped in it.                                                                       *)
Retried == {"pod", "events", "loki", "nodes", "trends", "range"}
\* without its pod a call has nothing to return; the queries have no other read
Vital == {"pod", "range", "window", "runbook"}

(* The reads of Collect, in order.  Those that tell of the pod's surroundings are taken as  *)
(* one where nobody keeps what they return; they may still hang.                            *)
Each(what, cs) == LET s == SetToSeq(cs) IN [i \in DOMAIN s |-> <<what, s[i]>>]
Optional(wanted, reads) == IF wanted THEN reads ELSE << >>
CollectReads(sections, target, surroundings) ==
    LET cs == IF target = All THEN Containers ELSE {target} IN
    << <<"pod", All>> >>
        \o Optional(sections \cap {"events", "logs"} # {}, << <<"events", All>> >>)
        \o Optional("logs" \in sections, Each("log", cs))
        \o Optional("logs" \in sections /\ "loki" \in Configured, << <<"loki", All>> >>)
        \o (IF surroundings THEN << <<"claims", All>>, <<"topology", All>>, <<"correlations", All>>, <<"nodes", All>> >>
            ELSE << <<"rest", All>> >>)
        \o Optional("metrics" \in sections /\ "prometheus" \in Configured, << <<"trends", All>> >>)

-----------------------------------------------------------------------------
(* The calls of the tools. *)

(* shouldRefreshSnapshotForTool: once there is a context only events and logs are read      *)
(* again, and only when it has none.                                                        *)
Refreshes(tool, target) ==
    \/ ~Known
    \/ tool = "k8s.get_events" /\ context.events = {}
    \/ tool = "k8s.get_logs" /\ IF target = All THEN context.logs = << >>
                                ELSE target \notin DOMAIN context.logs

SnapshotTools == {"k8s.get_pod", "k8s.get_events", "k8s.get_logs", "k8s.get_topology", "k8s.get_pvc"}
Sections(tool) == CASE tool = "k8s.get_events" -> {"events"}           \* snapshotGoalForTool
                    [] tool = "k8s.get_logs" -> {"events", "logs"}
                    [] OTHER -> {}

(* rangeWindowInput: a known fault, or now.  The alert counts only before there is any      *)
(* context.                                                                                 *)
Window == IF Known THEN IF context.fault # 0 THEN "fault" ELSE "recent"
          ELSE IF goal.alert # 0 THEN "alert" ELSE "recent"

ReadSnapshot(tool, target) ==
    Optional(Refreshes(tool, target),
             CollectReads(Sections(tool), IF target = All THEN goal.target ELSE target,
                          tool \in {"k8s.get_pvc", "k8s.get_topology"}))
ReadConfigRefs == << <<"live", All>>, <<"object", All>> >>
QueryRange == << <<"range", All>> >>
QueryPodLogs == << <<"window", All>> >>
\* HybridRetriever: the vectors, and the files when they fail or have nothing
SearchRunbooks == << <<"vector", All>>, <<"runbook", All>> >>

Reads(tool, target) ==
    CASE tool \in SnapshotTools -> ReadSnapshot(tool, target)
      [] tool = "k8s.get_config_refs" -> ReadConfigRefs
      [] tool = "prometheus.query_range" -> QueryRange
      [] tool = "loki.query_logs" -> QueryPodLogs
      [] tool = "runbook.search" -> SearchRunbooks
      [] tool = "collect" -> CollectReads(goal.sections, goal.target, TRUE)

Server(tool) == CASE tool = "prometheus.query_range" -> {"prometheus"}
                  [] tool = "loki.query_logs" -> {"loki"} [] OTHER -> {}

Call(tool, target) ==
    LET todo == Reads(tool, target) IN
    [tool |-> tool, target |-> target, fresh |-> todo # << >> /\ tool \in SnapshotTools,
     todo |-> todo, tries |-> 0, draft |-> Nothing, says |-> Window,
     status |-> IF Server(tool) \ Configured # {} THEN "failed"
                ELSE IF todo = << >> THEN "done" ELSE "running"]

(* executePlanSteps: each call gets the state as it is now (SnapshotForTool). *)
Start ==
    /\ calls = << >> /\ plan # << >>
    /\ calls' = [i \in DOMAIN Head(plan) |-> Call(Head(plan)[i][1], Head(plan)[i][2])]
    /\ plan' = Tail(plan)
    /\ UNCHANGED <<cluster, goal, context, found, called, budget>>

NextRead(call) == Head(call.todo)

(* diagnosticContextForTool: of the whole snapshot a tool keeps the pod and its section.    *)
(* Nothing else of the snapshot is looked at, so it is dropped as soon as it is read.       *)
Section(tool) ==
    CASE tool = "k8s.get_events" -> {"pod", "events"}
      [] tool = "k8s.get_logs" -> {"pod", "events", "logs", "fault"}
      [] tool = "k8s.get_topology" -> {"pod", "topology", "correlations", "nodes"}
      [] tool = "k8s.get_pvc" -> {"pod", "claim"}
      [] tool = "collect" -> DOMAIN Nothing
      [] OTHER -> {"pod"}
\* mutant: a tool keeps its section alone
KeptMutant(tool, d) == [f \in DOMAIN d |-> IF f \in Section(tool) \ {"pod"} THEN d[f] ELSE Nothing[f]]
Kept(tool, d) == [f \in DOMAIN d |-> IF f \in Section(tool) THEN d[f] ELSE Nothing[f]]

\* The call after its read: with draft d, and what the object it inspected says.
Advance(call, d, says) ==
    LET left == IF says = "hit" THEN << >> ELSE Tail(call.todo) IN
    [call EXCEPT !.draft = Kept(call.tool, d), !.says = says, !.tries = 0, !.todo = left,
                 !.status = IF left = << >> THEN "done" ELSE "running"]

(* resilience.Do tries once more. *)
\* mutant: an attempt too few
MayRetryMutant(call) == NextRead(call)[1] \in Retried /\ call.tries + 2 < MaxAttempts
MayRetry(call) == NextRead(call)[1] \in Retried /\ call.tries + 1 < MaxAttempts

(* A read that fails: it is tried again, or given up. *)
Failed(call) ==
    LET read == NextRead(call) IN
    IF MayRetry(call) THEN [call EXCEPT !.tries = @ + 1]
    ELSE IF read[1] \in Vital THEN [call EXCEPT !.status = "failed"]
    ELSE IF read[1] = "live" /\ ~Known       \* newConfigRefsTool takes a snapshot instead
         THEN [call EXCEPT !.todo = CollectReads({}, goal.target, FALSE) \o Tail(@), !.tries = 0]
    ELSE Advance(call, Missed(call.draft, read), IF read[1] = "object" THEN "unread" ELSE call.says)

(* What the call reports of a read that succeeded, besides the context. *)
Told(call) ==
    CASE NextRead(call)[1] = "object" ->
             {ContentStatus(ref, object) : ref \in PodConfigReferences, object \in InspectConfigObject}
      [] NextRead(call)[1] \in {"vector", "runbook"} -> {"hit", "nothing"}
      [] OTHER -> {call.says}

Read(i) ==
    /\ i \in DOMAIN calls /\ calls[i].status = "running"
    /\ \/ /\ \E d \in Learnt(calls[i].draft, NextRead(calls[i])), says \in Told(calls[i]) :
                calls' = [calls EXCEPT ![i] = Advance(@, d, says)]
          /\ UNCHANGED budget
       \/ /\ budget.errors > 0
          /\ calls' = [calls EXCEPT ![i] = Failed(@)]
          /\ budget' = [budget EXCEPT !.errors = @ - 1]
    /\ UNCHANGED <<cluster, goal, context, found, called, plan>>

(* A server that does not answer, or reads that take too long together. *)
Hang(i) ==
    /\ i \in DOMAIN calls /\ calls[i].status = "running" /\ budget.hangs > 0
    /\ calls' = [calls EXCEPT ![i].status = "hung"]
    /\ budget' = [budget EXCEPT !.hangs = @ - 1]
    /\ UNCHANGED <<cluster, goal, context, found, called, plan>>

(* The deadline: what a call has left to read fails.  Collect still returns what it has.    *)
Cancelled(call) ==
    IF \/ \E i \in DOMAIN call.todo : call.todo[i][1] \in Vital
       \/ NextRead(call)[1] = "live" /\ ~Known
    THEN [call EXCEPT !.status = "failed"]
    ELSE [call EXCEPT !.draft = Kept(call.tool, FoldLeft(Missed, @, call.todo)), !.todo = << >>, !.status = "done",
                      !.says = IF call.tool = "k8s.get_config_refs" THEN "unread" ELSE @]

(* executeToolWithDeadline gives the call up, unless what it returns is there first.  The   *)
(* legacy collection has the deadline of its task and nobody gives it up.                   *)
\* mutant: the call is waited for
GivenUpMutant(call) == {}
GivenUp(call) == (IF call.tool = "collect" THEN {} ELSE {[call EXCEPT !.status = "failed"]})
                     \cup {Cancelled(call)}
Deadline(i) ==
    /\ i \in DOMAIN calls /\ calls[i].status = "hung"
    /\ \E call \in GivenUp(calls[i]) : calls' = [calls EXCEPT ![i] = call]
    /\ UNCHANGED <<cluster, goal, context, found, called, plan, budget>>

-----------------------------------------------------------------------------
(* The results. *)

(* mergeCollectedContainerLogs *)
\* mutant: the logs of the targeted container are taken to be all the logs
MergeLogsMutant(old, new) == new
MergeLogs(old, new) == [c \in DOMAIN old \cup DOMAIN new |-> IF c \in DOMAIN new THEN new[c] ELSE old[c]]

(* newSnapshotTool: the context a call brings; targeted logs join the ones there were. *)
Delta(call) ==
    IF call.tool = "k8s.get_logs" /\ call.target # All /\ Known
    THEN [call.draft EXCEPT !.logs = MergeLogs(context.logs, @)] ELSE call.draft

(* mergeDiagnosticContext: a list that is not nil replaces the one that was there. *)
Merge(ctx, d) ==
    IF d.pod = << >> THEN ctx
    ELSE [f \in DOMAIN ctx |-> IF d[f] # Nothing[f] THEN d[f] ELSE ctx[f]]

Done(group) == {i \in DOMAIN group : group[i].status = "done"}

(* The evidence records of a call: of the section it just read, or of the context.          *)
(* filterLogsByContainer leaves the container that was asked for.                           *)
RecordsOf(call) ==
    LET d == IF call.fresh THEN Delta(call) ELSE context
        spoken == {c \in DOMAIN d.logs : d.logs[c].shows # {} \/ d.logs[c].loki}
    IN
    CASE call.tool = "k8s.get_pod" -> {<<"k8s_pod", "loaded">>}
      [] call.tool = "k8s.get_events" -> {<<"k8s_event", IF e.fault THEN "fault" ELSE "info">> : e \in d.events}
      [] call.tool = "k8s.get_logs" ->
             {<<"k8s_log", c>> : c \in IF call.target = All THEN spoken ELSE spoken \cap {call.target}}
      [] call.tool = "k8s.get_pvc" -> IF d.claim = "none" THEN {} ELSE {<<"k8s_pvc", d.claim>>}
      [] call.tool = "k8s.get_config_refs" -> {<<"k8s_config_ref", call.says>>}
      [] call.tool = "prometheus.query_range" -> {<<"prometheus", call.says>>}
      [] call.tool = "loki.query_logs" -> {<<"loki", call.says>>}
      [] call.tool = "runbook.search" -> IF call.says = "hit" THEN {<<"runbook", "hit">>} ELSE {}
      [] OTHER -> {}

(* The delta of the last call that read a snapshot replaces the goal the others changed. *)
GoalAfter(group) ==
    LET asked == {i \in Done(group) : group[i].fresh} IN
    IF asked = {} THEN goal
    ELSE [goal EXCEPT !.sections = @ \cup Sections(group[Latest(asked)].tool)]

(* The loop of Run over what executePlanSteps returned: the results, in plan order. *)
Merged(group) == FoldLeft(LAMBDA ctx, call : IF call.status = "done" THEN Merge(ctx, Delta(call)) ELSE ctx,
                          context, group)
Record ==
    /\ calls # << >> /\ \A i \in DOMAIN calls : calls[i].status \in {"done", "failed"}
    /\ context' = Merged(calls)
    /\ goal' = GoalAfter(calls)
    /\ found' = found \cup UNION {RecordsOf(calls[i]) : i \in Done(calls)}
    /\ called' = called \cup {calls[i].tool : i \in DOMAIN calls}
    /\ calls' = << >>
    /\ UNCHANGED <<cluster, plan, budget>>

(* enforceProbeEvidenceFallback: a pod that fails its probe for no known reason must have   *)
(* its events and logs read.  When one of the two was never called its steps come first,    *)
(* one by one, and what was collected is thrown away, to be collected afresh.               *)
Within(s, set) == FoldLeft(LAMBDA some, x : IF x \in set THEN Append(some, x) ELSE some, << >>, s)
Flat(groups) == FoldLeft(LAMBDA steps, group : steps \o group, << >>, groups)
Wanting == Within(<<"k8s.get_events", "k8s.get_logs">>, Tools \ called)
Prioritized ==                          \* ensureProbeEvidenceStep, prioritizeProbeEvidenceSteps
    LET wanted == ToSet(Wanting)
        there == Within(Flat(plan), wanted \X Targets)
        added == Within(Wanting, wanted \ {there[i][1] : i \in DOMAIN there})
        rest == [i \in DOMAIN plan |-> Within(plan[i], (Tools \ wanted) \X Targets)]
    IN  [i \in DOMAIN there |-> <<there[i]>>] \o [i \in DOMAIN added |-> << <<added[i], All>> >>]
            \o Within(rest, ToSet(rest) \ {<< >>})
ProbeFallback ==
    /\ calls = << >> /\ Known /\ goal.probed /\ Wanting # << >> /\ "collect" \notin called
    /\ plan' = Prioritized
    /\ IF {"events", "logs"} \subseteq goal.sections /\ context.events # {} /\ context.logs # << >>
       THEN plan' # plan /\ UNCHANGED <<goal, context>>
       ELSE /\ goal' = [goal EXCEPT !.sections = @ \cup {"events", "logs"}]
            /\ context' = Nothing
    /\ UNCHANGED <<cluster, found, called, calls, budget>>

-----------------------------------------------------------------------------
Width == 1..Latest(UNION {{Len(g) : g \in ToSet(r.plan)} : r \in Runs})

Next == \/ (\E c \in Containers : Restart(c)) \/ Start \/ Record \/ ProbeFallback
        \/ \E i \in Width : Read(i) \/ Hang(i) \/ Deadline(i)

(* The goroutines of a group run, its deadlines pass, and the loop takes the results. *)
Fairness == /\ WF_vars(Record)
            /\ \A i \in Width : WF_vars(Read(i)) /\ WF_vars(Deadline(i))

Spec == Init /\ [][Next]_vars /\ Fairness

-----------------------------------------------------------------------------
ContextType ==
    [pod: {<< >>} \cup [Containers -> 0..MaxMoments], events: SUBSET EventType,
     logs: UNION {[cs -> [shows: SUBSET (0..MaxMoments), fault: 0..MaxMoments, loki: BOOLEAN]] :
                      cs \in SUBSET Containers},
     fault: 0..MaxMoments, claim: Phases \cup {"none", "Unknown"},
     topology: {"none", "partial", "full"}, correlations: {"none", "partial", "full"}, nodes: BOOLEAN,
     trends: UNION {[ps -> {"no_data", "progressive_growth", "sudden_spike", "restart_increasing",
                            "stable", "query_failed"}] : ps \in SUBSET Profiles}]

(* The variables stay in their types, and nothing is known of a pod that was not read:      *)
(* every context, the ones that are still being collected too, has its pod.                 *)
CollectionTypeOK ==
    /\ goal \in RequestType /\ called \subseteq Tools /\ budget \in [{"errors", "hangs"} -> Nat]
    /\ context \in ContextType /\ (~Known => context = Nothing)
    /\ \A i \in DOMAIN calls :
          /\ calls[i].draft \in ContextType
          /\ calls[i].draft.pod = << >> => calls[i].draft = Nothing
          /\ calls[i].status \in {"running", "hung", "done", "failed"}
          /\ (calls[i].status = "running") = (calls[i].todo # << >> /\ calls[i].status \notin {"hung", "failed"})

(* Parallel calls do not undo each other, nor what was collected before: after the results  *)
(* of a group are merged the context has what it had, no part of it older, and what each    *)
(* call that succeeded has read.  There is one exception: of two calls that read logs the   *)
(* later in the plan replaces the list of the other (mergeDiagnosticContext).               *)
ReadLogs(i) == calls[i].status = "done" /\ calls[i].draft.logs # << >>
EvidenceKept ==
    [][(calls # << >> /\ calls' = << >>) =>
          /\ Known => /\ \A c \in Containers : context.pod[c] <= context'.pod[c]
                      /\ context.events \subseteq context'.events
                      /\ DOMAIN context.logs \subseteq DOMAIN context'.logs
                      /\ \A f \in {"claim", "topology", "correlations"} : context[f] # "none" => context'[f] = context[f]
          /\ \A i \in DOMAIN calls : ReadLogs(i) /\ (\A j \in DOMAIN calls \ {i} : ~ReadLogs(j)) =>
                                        DOMAIN calls[i].draft.logs \subseteq DOMAIN context'.logs
          /\ \A i \in DOMAIN calls : calls[i].status = "done" /\ calls[i].fresh =>
                /\ Sections(calls[i].tool) # {} /\ calls[i].draft.events # {} => context'.events # {}
                /\ calls[i].tool = "k8s.get_pvc" => context'.claim # "none"]_vars

(* The pod, its events and its logs are read one after the other while the pod goes on: the *)
(* logs are still those of the failure.  If no read failed, they are in the window of the   *)
(* last termination that the pod showed, and they hold the lines of the instance that died  *)
(* then, unless the container died again before its log was read.                           *)
LogsShowFault ==
    budget.errors = MaxErrors /\ budget.hangs = MaxHangs =>
        \A i \in DOMAIN calls : LET d == calls[i].draft IN
            \A c \in DOMAIN d.logs :
                (d.pod[c] > 0 /\ \A k \in Containers : d.pod[k] <= d.pod[c]) =>
                    LET died == CHOOSE n \in DOMAIN cluster.deaths[c] : cluster.deaths[c][n] = d.pod[c]
                    IN  /\ d.logs[c].fault = d.pod[c]
                        /\ died - 1 \in d.logs[c].shows \/ Len(cluster.deaths[c]) > died

(* A call that met fewer errors than a read has attempts loses nothing a retry can save: it *)
(* succeeds, and unless the deadline came it has the events, if there were any to read.     *)
RetriesAbsorb ==
    MaxErrors - budget.errors < MaxAttempts =>
        \A i \in DOMAIN calls :
            (calls[i].tool \in SnapshotTools /\ calls[i].fresh /\ budget.hangs = MaxHangs) =>
                /\ calls[i].status # "failed"
                /\ (calls[i].status = "done" /\ Sections(calls[i].tool) # {}) => calls[i].draft.events # {}

(* Every group of calls ends, whatever hangs: a call is given up at its deadline, and the   *)
(* results of the others are recorded.                                                      *)
GroupEnds == (calls # << >>) ~> (calls = << >>)
=============================================================================
