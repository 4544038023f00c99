------------------------------ MODULE RuleEngine ------------------------------
(***************************************************************************)
(* The rule engine (internal/diagnostic/engine.go): it runs the analyzers  *)
(* that match, chooses the primary result, gives every other one a role,   *)
(* and adds topology, correlation and trend evidence.  Confidences that    *)
(* are equal in hundredths are sums of floats in different orders: either  *)
(* may be the larger, so the choice between them is nondeterministic.      *)
(***************************************************************************)
EXTENDS Analyzers

StrongOOM(r) ==
    /\ r.fault = "OOMKilled"
    /\ \E e \in r.ev : /\ e.src = "k8s_pod_status" /\ e.title = "OOMTermination"
                       /\ e.says \cap {"reason=oomkilled", "exitcode=137"} # {}

(* preferResult: the results that may be kept of a candidate and the current best.  Between *)
(* equal floats weightedResultScore decides; whether they are equal is not known here.      *)
(* mutant: without the exception for OOM kills *)
PreferredMutant(r, b) ==
    IF r.conf > b.conf THEN {r} ELSE IF r.conf < b.conf THEN {b} ELSE {r, b}
Preferred(r, b) ==
    IF StrongOOM(r) /\ b.fault = "PodPending" THEN {r}
    ELSE IF StrongOOM(b) /\ r.fault = "PodPending" THEN {b}
    ELSE IF r.conf > b.conf THEN {r}
    ELSE IF r.conf < b.conf THEN {b}
    ELSE {r, b}

(* selectBestResult: one scan in registry order. *)
Bests(results) ==
    FoldLeft(LAMBDA bests, r : UNION {Preferred(r, b) : b \in bests},
            {results[1]}, Tail(results))

(* classifyContributingRole; a margin of exactly .15 falls on either side, "edge" says which *)
Role(r, best, edge) ==
    IF r.conf < 50 THEN "supporting" ELSE IF r.conf < 70 THEN "secondary"
    ELSE IF best.conf - r.conf = 15 THEN edge
    ELSE IF best.conf - r.conf < 15 THEN "co-causal" ELSE "competing"

Factor(by, fault, conf, role) == [by |-> by, fault |-> fault, conf |-> conf, role |-> role]
Others(results, best) ==
    FoldLeft(LAMBDA others, r : IF r = best THEN others ELSE Append(others, r), << >>, results)
Contributing(results, best, edge) ==
    LET others == Others(results, best) IN
    [i \in DOMAIN others |-> Factor(others[i].name, others[i].fault, 10 * others[i].conf,
                                    Role(others[i], best, edge))]

(* adjustedConfidence: the first co-causal or competing factor decides the discount. In     *)
(* ten-thousandths.                                                                         *)
Discount(factors) ==
    LET tells == SelectSeq(factors, LAMBDA f : f.role \in {"co-causal", "competing"}) IN
    IF tells = << >> THEN 100 ELSE IF tells[1].role = "co-causal" THEN 90 ELSE 95

Escalate(risk) == CASE risk = "low" -> "medium" [] risk = "medium" -> "high" [] OTHER -> risk
AdjustedRisk(risk, factors) ==
    IF \/ \E i \in DOMAIN factors : factors[i].role = "co-causal"
       \/ Cardinality({i \in DOMAIN factors : factors[i].role = "competing"}) >= 2
    THEN Escalate(risk) ELSE risk

(* enrichReportWithTopology, ...WithCorrelation, ...WithMetricTrends *)
Enrichment(p) ==
    (IF p.topology
     THEN {Record("k8s_topology", "Topology",
                  IF ~HasNode(p) THEN {}
                  ELSE Conditions(p) \cup {"networkunavailable"}
                       \cup (IF "notready" \in p.node THEN {"nodeready=false"} ELSE {}),
                  IF p.node \cap {"memory", "disk", "pid", "network"} # {} THEN "warning" ELSE "info")}
     ELSE {})
    \cup {Record("correlation_evidence", "Correlation", {}, "info")}
    \cup (CASE p.trend = "none" -> {}
            [] p.trend = "memory spike" -> {Record("prometheus_trend", "Trend", {}, "warning")}
            [] OTHER -> {Record("prometheus_trend", "Trend", {"progressive_growth"}, "warning")})

(* Structured remediation: GenerateRemediationActions of a report with these faults. *)
RemediationActions(p, faults, ev) ==
    (IF faults \cap {"OOMKilled", "CrashLoopBackOff", "ProbeFailed"} # {}
     THEN {"view_previous_logs"} ELSE {})
    \cup (IF "OOMKilled" \in faults THEN {"adjust_memory_limit"} ELSE {})
    \cup (IF "CrashLoopBackOff" \in faults THEN {"check_configmap_secret"} ELSE {})
    \cup (IF "ProbeFailed" \in faults /\ p.probes # "none"
          THEN {"extend_probe_delay", "fix_probe_path"} ELSE {})
    \cup (IF \/ "PodPending" \in faults
             \/ \E r \in ev : (TitleWords[r.title] \cup r.says)
                                  \cap {"failedscheduling", "taint", "toleration"} # {}
             \/ HasNode(p) /\ p.node \cap {"memory", "disk", "pid"} # {}
          THEN {"check_taint_toleration"} ELSE {})

NoFactor == Factor("", "unknown", 300, "primary")
NoResultReport(p) ==
    [faults |-> {"unknown"}, conf |-> 3000, risk |-> "medium", primary |-> NoFactor,
     factors |-> << >>,
     ev |-> {Record("diagnostic_engine", "NoMatch", {}, "info")} \cup Enrichment(p)]

AggregateReport(p, results, best, edge) ==
    LET factors == Contributing(results, best, edge) IN
    [faults  |-> {results[i].fault : i \in DOMAIN results},
     conf    |-> best.conf * Discount(factors),
     risk    |-> AdjustedRisk(best.risk, factors),
     primary |-> Factor(best.name, best.fault, 10 * best.conf, "primary"),
     factors |-> factors,
     ev      |-> UNION {results[i].ev : i \in DOMAIN results} \cup Enrichment(p)]

(* Diagnose: the reports the engine may return for a pod. *)
Reports(p) ==
    LET results == Results(p) IN
    IF results = << >> THEN {NoResultReport(p)}
    ELSE {AggregateReport(p, results, best, edge) :
            best \in Bests(results), edge \in {"co-causal", "competing"}}
=============================================================================
