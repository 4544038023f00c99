------------------------------ MODULE Analyzers ------------------------------
(***************************************************************************)
(* The eight built-in analyzers (internal/diagnostic/analyzer).  Each one  *)
(* matches a pod or not, and when it does returns a fault, the evidence it *)
(* stands on and a confidence in hundredths: a base and bonuses for the    *)
(* evidence found, capped at 1.  Their order is that of registry.go.       *)
(***************************************************************************)
EXTENDS Pods

Result(name, fault, conf, risk, ev) ==
    [name |-> name, fault |-> fault, conf |-> conf, risk |-> risk, ev |-> ev]

(* The base and the weight of every bonus <<condition, weight>> that holds. *)
Confidence(base, bonuses) ==
    Min({100, FoldLeft(LAMBDA sum, b : IF b[1] THEN sum + b[2] ELSE sum, base, bonuses)})

From(ev, src) == \E r \in ev : r.src = src                       \* hasEvidence(src, "")
Titled(ev, src, w) == \E r \in ev : r.src = src /\ w \in TitleWords[r.title]
Says(ev, words) == \E r \in ev : r.says \cap words # {}          \* hasEvidenceContent

EventRecords(events, sev) == {Record("k8s_event", e.title, e.says, sev) : e \in events}
Failing(p) == {e \in Events(p) : Text(e) \cap {"backoff", "failed", "error"} # {}}

(* keyLogEvidences: the matching lines, printed after the whole list of keywords *)
KeyLog(p, title, keywords, printed, sev) ==
    IF p.logs \cap keywords = {} THEN {}
    ELSE {Record("k8s_key_log", title,
                 printed \cup UNION {LineWords[l] : l \in p.logs \cap keywords}, sev)}
HasKeyLog(ev) == From(ev, "k8s_key_log")

ExitWords(code) ==
    {"exitcode"} \cup CASE code = 137 -> {"exitcode=137", "exitcode=1"}
                        [] code = 143 -> {"exitcode=143", "exitcode=1"}
                        [] code = 1   -> {"exitcode=1"}
                        [] code = 2   -> {"exitcode=2"}
                        [] OTHER      -> {}
ProbeSpec(p) == {Record("k8s_pod_status", t, IF p.probes = "none" THEN {} ELSE {"timeout"}, "info")
                 : t \in {"readinessProbe", "livenessProbe"}}
                \cup {Record("k8s_pod_status", "startupProbe", {}, "info")}
PVCRecord(p, sev) ==
    IF p.pvc = "none" THEN {}
    ELSE {Record("k8s_pvc", "PVC", IF p.pvc = "Bound" THEN {"bound"} ELSE {"phase=pending"},
                 IF p.pvc = "Bound" THEN "info" ELSE sev)}
(* "memoryPressure=false diskPressure=false ...": every condition is named, whatever its value *)
Conditions(p) == {"memorypressure named", "diskpressure", "pidpressure"}
                 \cup (IF "memory" \in p.node THEN {"memorypressure"} ELSE {})

-----------------------------------------------------------------------------
OOMKeywords == {"oom"}
OOMSignal(p) == (\E e \in Events(p) : "oom" \in Text(e)) \/ p.logs \cap OOMKeywords # {}
IndicatesOOM(p, s) == s.place # "none" /\ (s.why = "OOMKilled" \/ (s.code = 137 /\ OOMSignal(p)))
OOMTerminations(p) == {s \in Containers(p) : s.place = "last" /\ (s.why = "OOMKilled" \/ s.code = 137)}

MatchOOM(p) == \/ \E s \in Containers(p) : IndicatesOOM(p, s)
               \/ \E e \in Events(p) : "oomkilled" \in e.says

PatternOf(p) == IF p.memory \in DOMAIN Curves /\ OOMTerminations(p) # {}
                THEN Pattern(Curves[p.memory]) ELSE "not measured"
MetricEvidence(p) ==
    IF p.memory = "off" THEN {}
    ELSE IF OOMTerminations(p) = {}
         THEN {Record("prometheus", "QuerySkipped", {"oom"}, "warning")}
    ELSE IF p.memory = "unset"
         THEN {Record("prometheus", "Unavailable", {"config"}, "warning")}
    ELSE IF p.memory = "empty"
         THEN {Record("prometheus", "NoSamples", {}, "warning")}
    ELSE {Record("prometheus", "WorkingSet", {"limit", PatternOf(p)},
                 IF PatternOf(p) = "no_shape" THEN "info" ELSE "critical")}

OOMEvidence(p) ==
    {Record("k8s_pod_status", "Memory", {"limit"}, "warning"),
     Record("k8s_pod_status", "QoS", IF p.guaranteed THEN {"guaranteed"} ELSE {}, "info")}
    \cup (IF \E s \in Containers(p) : s.restarts > 0
          THEN {Record("k8s_pod_status", "Restarts", {}, "warning")} ELSE {})
    \cup {Record("k8s_pod_status", "OOMTermination",
                 ExitWords(s.code) \cup (IF s.why = "OOMKilled" THEN {"reason=oomkilled"} ELSE {}),
                 "critical") : s \in OOMTerminations(p)}
    \cup EventRecords({e \in Events(p) : "oom" \in Text(e)}, "warning")
    \cup (IF p.logs # {} /\ Restarted(p)
          THEN {Record("k8s_log", "LogsBeforeOOM", LogWords(p), "info")} ELSE {})
    \cup KeyLog(p, "KeyOOM", OOMKeywords, {"oom", "limit"}, "critical")
    \cup MetricEvidence(p)

RestartTotal(p) == FoldSet(LAMBDA s, n : n + s.restarts, 0, Containers(p))
AnalyzeOOM(p) ==
    LET ev == OOMEvidence(p) IN
    Result("OOMKilledAnalyzer", "OOMKilled",
           Confidence(72, << <<OOMTerminations(p) # {}, 10>>, <<HasKeyLog(ev), 3>>,
                             <<Titled(ev, "prometheus", "limit"), 5>>,
                             <<PatternOf(p) # "not measured" /\ SustainedNear(
                                   Curves[p.memory].pre \o Curves[p.memory].post), 3>>,
                             <<PatternOf(p) \in {"memory_leak", "limit_too_low"}, 6>>,
                             <<p.trend = "memory growth", 8>>, <<p.trend = "memory spike", 4>>,
                             <<p.guaranteed, 3>>, <<RestartTotal(p) > 3, 3>> >>),
           "high", ev)

-----------------------------------------------------------------------------
CrashKeywords == {"panic", "badconfig", "refused"}
OOMLike(s) == s.place = "last" /\ (s.code = 137 \/ s.why = "OOMKilled")
(* mutant: only a container that waits counts, not one that keeps restarting *)
MatchCrashLoopMutant(p) ==
    \E s \in Containers(p) : ~OOMLike(s) /\ s.wait = "CrashLoopBackOff"
MatchCrashLoop(p) ==
    \E s \in Containers(p) : /\ ~OOMLike(s)
                             /\ s.wait = "CrashLoopBackOff" \/ (s.restarts > 0 /\ s.place = "last")

CrashEvidence(p) ==
    {Record("k8s_pod_status", "RestartEvidence",
            ExitWords(IF s.place = "last" THEN s.code ELSE 0), "warning")
        : s \in {c \in Containers(p) : c.restarts # 0 \/ c.place = "last"}}
    \cup {Record("k8s_pod_status", "Environment", p.env, "info")}
    \cup EventRecords(Failing(p), "warning")
    \cup (IF p.logs \cap CrashKeywords # {}
          THEN {Record("k8s_log", "Suspicious", LogWords(p), "warning")} ELSE {})
    \cup KeyLog(p, "KeyCrash", CrashKeywords, {"config", "refused", "auth"}, "warning")

AnalyzeCrashLoop(p) ==
    LET ev == CrashEvidence(p)
        exit == IF Says(ev, {"exitcode=137"}) THEN 5
                ELSE IF Says(ev, {"exitcode=143"}) THEN 3
                ELSE IF Says(ev, {"exitcode=1", "exitcode=2"}) THEN 4 ELSE 0
    IN  Result("CrashLoopBackOffAnalyzer", "CrashLoopBackOff",
               Confidence(IF \E s \in Containers(p) : OOMLike(s) THEN 90 ELSE 75,
                          << <<Titled(ev, "k8s_pod_status", "restart"), 4>>, <<HasKeyLog(ev), 3>>,
                             <<\E s \in Containers(p) : s.place = "last", 2>>,
                             <<p.trend = "restart growth", 5>>, <<TRUE, exit>>,
                             <<\E s \in Containers(p) : s.restarts > 5, 3>> >>),
               "medium", ev)

-----------------------------------------------------------------------------
Pulling(s) == s.wait \in {"ImagePullBackOff", "ErrImagePull"}
PullFailure(e) == Text(e) \cap {"imagepull", "failed to pull image", "manifest", "auth"} # {}
MatchImagePull(p) == \/ \E s \in Containers(p) \cup InitStatuses(p) : Pulling(s)
                     \/ \E e \in Events(p) : PullFailure(e)
AnalyzeImagePull(p) ==
    LET ev == {Record("k8s_pod_status", "Image", {"imagepull"}, "warning")}
              \cup (IF p.secret
                    THEN {Record("image_pull_secret", "PullSecret", {"imagepull"}, "info")} ELSE {})
              \cup EventRecords({e \in Events(p) : PullFailure(e)}, "critical")
    IN  Result("ImagePullBackOffAnalyzer", "ImagePullBackOff",
               Confidence(70, << <<From(ev, "k8s_event"), 10>>, <<p.secret, 3>>,
                                 <<Says(ev, {"manifest", "not found"}), 6>>,
                                 <<Says(ev, {"auth"}), 5>>, <<Says(ev, {"timeout", "dial tcp"}), 3>> >>),
               "medium", ev)

-----------------------------------------------------------------------------
InitKeywords == {"panic", "badconfig", "refused"}       \* their lines say "error" or "refused"
MatchInit(p) == \E s \in InitStatuses(p) : \/ s.wait \notin {"", "PodInitializing"}
                                           \/ s.place # "none" /\ s.code # 0
AnalyzeInit(p) ==
    LET ev == {Record("k8s_pod_status", "InitStatus",
                      (IF s.wait # "" THEN {"waitingreason="} ELSE {})
                      \cup (IF Pulling(s) THEN {"imagepull"} ELSE {})
                      \cup (IF s.place # "none" THEN ExitWords(s.code) ELSE {}), "critical")
                  : s \in InitStatuses(p)}
              \cup {Record("k8s_pod_status", "InitSpec", {}, "info")}
              \cup EventRecords(Failing(p), "warning")
              \cup KeyLog(p, "KeyInit", InitKeywords, {"timeout", "auth", "refused"}, "warning")
    IN  Result("InitErrorAnalyzer", "InitError",
               Confidence(72, << <<InitStatuses(p) # {}, 10>>, <<HasKeyLog(ev), 5>>,
                                 <<From(ev, "k8s_event"), 4>>, <<Says(ev, {"exitcode=1"}), 3>>,
                                 <<Says(ev, {"exitcode=137"}), 4>>, <<Says(ev, {"imagepull"}), 3>> >>),
               "medium", ev)

-----------------------------------------------------------------------------
MatchEvicted(p) == p.app = "evicted" \/ \E e \in Events(p) : "evict" \in Text(e)
AnalyzeEvicted(p) ==
    LET ev == {Record("k8s_pod_status", "EvictionStatus",
                      IF p.app = "evicted" THEN {"evict"} ELSE {}, "critical"),
               Record("k8s_pod_status", "Limits", {"limit"}, "info"),
               Record("k8s_pod_status", "EvictionQoS",
                      IF p.guaranteed THEN {"guaranteed"} ELSE {}, "info")}
              \cup EventRecords({e \in Events(p) : "evict" \in Text(e)}, "critical")
              \cup (IF HasNode(p)
                    THEN {Record("k8s_topology", "EvictionNode", Conditions(p), "warning")} ELSE {})
    IN  Result("EvictedAnalyzer", "Evicted",
               Confidence(74, << <<From(ev, "k8s_event"), 8>>, <<HasNode(p), 6>>,
                                 <<Says(ev, {"diskpressure"}), 4>>,
                                 <<Says(ev, {"memorypressure named"}), 3>>,
                                 <<Says(ev, {"pidpressure"}), 3>>, <<p.guaranteed, 3>>,
                                 <<Says(ev, {"ephemeral"}), 3>> >>),
               "medium", ev)

-----------------------------------------------------------------------------
(* The condition PodScheduled is false only while the phase is Pending. *)
MatchPending(p) ==
    /\ ~\E s \in Containers(p) \cup InitStatuses(p) : Pulling(s)
    /\ Phase(p) = "Pending" \/ \E e \in Events(p) : e.title = "FailedScheduling"
AnalyzePending(p) ==
    LET ev == EventRecords({e \in Events(p) : e.title = "FailedScheduling"}, "critical")
              \cup {Record("k8s_pod_status", "Requests", {}, "info"),
                    Record("k8s_pod_status", "Constraints", {"selector", "toleration"}, "info"),
                    Record("k8s_node", "NodeSnapshot", {}, "info")}
              \cup PVCRecord(p, "critical")
    IN  Result("PendingAnalyzer", "PodPending",
               Confidence(70, << <<From(ev, "k8s_event"), 8>>, <<From(ev, "k8s_pvc"), 5>>,
                                 <<From(ev, "k8s_node"), 3>>, <<Says(ev, {"insufficient"}), 4>>,
                                 <<Says(ev, {"taint"}), 3>>, <<Says(ev, {"unbound"}), 4>> >>),
               "medium", ev)

-----------------------------------------------------------------------------
ProbeKeywords == {"refused"}
MatchProbe(p) == \E e \in Events(p) : e.title = "Unhealthy" /\ {"probe", "failed"} \subseteq e.says
AnalyzeProbe(p) ==
    LET ev == EventRecords({e \in Events(p) : e.title = "Unhealthy"}, "warning")
              \cup ProbeSpec(p)
              \cup (IF p.logs \cap ProbeKeywords # {}
                    THEN {Record("k8s_log", "HealthLogs", LogWords(p), "info")} ELSE {})
              \cup KeyLog(p, "KeyProbe", ProbeKeywords,
                          {"timeout", "refused", "404", "dial tcp"}, "warning")
    IN  Result("ProbeFailedAnalyzer", "ProbeFailed",
               Confidence(72, << <<From(ev, "k8s_event"), 7>>,
                                 <<Titled(ev, "k8s_pod_status", "probe"), 3>>, <<HasKeyLog(ev), 3>>,
                                 <<p.probes # "none", 2>>, <<Says(ev, {"liveness"}), 5>>,
                                 <<Says(ev, {"readiness"}), 2>>, <<Says(ev, {"timeout"}), 3>>,
                                 <<Says(ev, {"refused", "dial tcp"}), 4>>, <<Says(ev, {"404"}), 2>>,
                                 <<p.probes = "quick", 3>> >>),
               "medium", ev)

-----------------------------------------------------------------------------
MatchNodeNotReady(p) == HasNode(p) /\ "notready" \in p.node
AnalyzeNodeNotReady(p) ==
    LET pressure == p.node \cap {"memory", "disk", "pid"}
        condition(c, title, sev) ==
            IF c \in p.node THEN {Record("k8s_topology", title, TitleWords[title], sev)} ELSE {}
        ev == condition("notready", "NotReady", "critical")
              \cup condition("memory", "MemoryPressure", "warning")
              \cup condition("disk", "DiskPressure", "warning")
              \cup condition("pid", "PIDPressure", "warning")
              \cup condition("network", "NetworkUnavailable", "critical")
              \cup EventRecords({e \in Events(p) : "node" \in Text(e)}, "warning")
    IN  Result("", "NodeNotReady",                                  \* it sets no AnalyzerName
               Confidence(85, << <<p.node \cap {"memory", "disk"} # {}, 5>>,
                                 <<"pid" \in p.node, 3>>, <<Cardinality(pressure) >= 2, 3>> >>),
               "high", ev)

-----------------------------------------------------------------------------
(* The results of the analyzers that match, in registry order. *)
Results(p) ==
    (IF MatchOOM(p) THEN <<AnalyzeOOM(p)>> ELSE << >>)
    \o (IF MatchCrashLoop(p) THEN <<AnalyzeCrashLoop(p)>> ELSE << >>)
    \o (IF MatchImagePull(p) THEN <<AnalyzeImagePull(p)>> ELSE << >>)
    \o (IF MatchInit(p) THEN <<AnalyzeInit(p)>> ELSE << >>)
    \o (IF MatchEvicted(p) THEN <<AnalyzeEvicted(p)>> ELSE << >>)
    \o (IF MatchPending(p) THEN <<AnalyzePending(p)>> ELSE << >>)
    \o (IF MatchProbe(p) THEN <<AnalyzeProbe(p)>> ELSE << >>)
    \o (IF MatchNodeNotReady(p) THEN <<AnalyzeNodeNotReady(p)>> ELSE << >>)
=============================================================================
