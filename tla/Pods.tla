-------------------------------- MODULE Pods --------------------------------
(***************************************************************************)
(* What a diagnosis is given: a pod as the snapshot collector stores it,   *)
(* in the shapes a kubelet and a scheduler leave behind.  Text is a set of *)
(* words, the lower-case phrases the analyzers and the hypotheses search   *)
(* for: one word per phrase the code tells apart.                          *)
(***************************************************************************)
EXTENDS MemoryCurve

-----------------------------------------------------------------------------
(* Container states: waiting reason, exit code and reason of a termination, restarts, and   *)
(* whether the termination is the current state or lastState.  A container that has both is *)
(* left out.  The containers of an evicted pod ended like those of one lost with its node:  *)
(* the status of the pod tells the two apart.                                               *)
Status(wait, code, why, restarts, place) ==
    [wait |-> wait, code |-> code, why |-> why, restarts |-> restarts, place |-> place]

ContainerStates ==
    [up           |-> Status("", 0, "", 0, "none"),
     panicked     |-> Status("CrashLoopBackOff", 2, "Error", 6, "last"),
     exited       |-> Status("CrashLoopBackOff", 1, "Error", 2, "last"),
     oom          |-> Status("CrashLoopBackOff", 137, "OOMKilled", 4, "last"),
     oomNow       |-> Status("", 137, "OOMKilled", 0, "now"),
     killed       |-> Status("CrashLoopBackOff", 137, "Error", 2, "last"),
     stopped      |-> Status("", 143, "Error", 1, "last"),
     pulling      |-> Status("ImagePullBackOff", 0, "", 0, "none"),
     noconfig     |-> Status("CreateContainerConfigError", 0, "", 0, "none"),
     initializing |-> Status("PodInitializing", 0, "", 0, "none"),
     failed       |-> Status("", 1, "Error", 0, "now"),     \* for the first time, or never restarted
     evicted      |-> Status("", 137, "ContainerStatusUnknown", 0, "now"),
     lost         |-> Status("", 137, "ContainerStatusUnknown", 0, "now"),
     initFailed   |-> Status("CrashLoopBackOff", 1, "Error", 3, "last"),
     initPulling  |-> Status("ErrImagePull", 0, "", 0, "none"),
     initRetried  |-> Status("", 1, "Error", 1, "last")]     \* failed once, then succeeded

(* Kubernetes events: the reason is the title, the message is what it says. *)
Message(title, says) == [title |-> title, says |-> says]
EventOf ==
    [NoCpu       |-> Message("FailedScheduling", {"node", "insufficient"}),
     NoVolume    |-> Message("FailedScheduling", {"node", "unbound", "bound"}),
     Tainted     |-> Message("FailedScheduling", {"node", "taint"}),
     BackOff     |-> Message("BackOff", {"back-off restarting", "failed"}),
     PullBackOff |-> Message("Failed", {"error", "imagepull", "backoff"}),
     NoManifest  |-> Message("Failed", {"failed", "failed to pull image", "manifest", "not found"}),
     PullDenied  |-> Message("Failed", {"failed", "failed to pull image", "auth"}),
     NoConfigMap |-> Message("Failed", {"error", "config", "configmap", "not found"}),
     Liveness    |-> Message("Unhealthy", {"probe", "failed", "liveness", "refused", "dial tcp"}),
     Readiness   |-> Message("Unhealthy", {"probe", "failed", "readiness", "404"}),
     OOMKilling  |-> Message("OOMKilling", {}),
     OOMReported |-> Message("Killing", {"oom", "oomkilled"}),
     Evicting    |-> Message("Evicted", {"node", "ephemeral"}),
     NodeGone    |-> Message("NodeNotReady", {})]

(* Lines of a container's log. *)
LineWords == [panic |-> {"panic", "error"}, oom |-> {"oom"},
              badconfig |-> {"config", "error"}, refused |-> {"refused", "error"}]

(* Words of the titles the code gives to evidence, and of the source types. *)
TitleWords ==
    [FailedScheduling |-> {"failedscheduling", "failed"}, BackOff |-> {"backoff"},
     Failed |-> {"failed"}, Unhealthy |-> {"unhealthy"}, OOMKilling |-> {"oom"},
     Killing |-> {}, Evicted |-> {"evict"}, NodeNotReady |-> {"notready", "node"},
     Memory |-> {"limit"}, QoS |-> {}, Restarts |-> {"restart"}, OOMTermination |-> {"oom"},
     QuerySkipped |-> {}, Unavailable |-> {}, NoSamples |-> {}, WorkingSet |-> {"limit", "oom"},
     LogsBeforeOOM |-> {"oom"}, KeyOOM |-> {"oom"}, RestartEvidence |-> {"restart"},
     Environment |-> {}, Suspicious |-> {}, KeyCrash |-> {"backoff"}, Image |-> {},
     PullSecret |-> {"secret"}, InitStatus |-> {"init"}, InitSpec |-> {"init"},
     KeyInit |-> {"init"}, EvictionStatus |-> {"evict"}, EvictionNode |-> {"evict"},
     Limits |-> {"limit"}, EvictionQoS |-> {"evict"}, Requests |-> {}, Constraints |-> {},
     NodeSnapshot |-> {}, PVC |-> {"pvc"}, readinessProbe |-> {"probe"},
     livenessProbe |-> {"probe"}, startupProbe |-> {"probe"}, HealthLogs |-> {},
     KeyProbe |-> {"probe"}, NotReady |-> {"notready", "node notready"},
     MemoryPressure |-> {"memorypressure"}, DiskPressure |-> {"diskpressure"},
     PIDPressure |-> {"pidpressure"}, NetworkUnavailable |-> {"networkunavailable"},
     NoMatch |-> {}, Topology |-> {}, Correlation |-> {}, Trend |-> {}, PodLoaded |-> {},
     Logs |-> {}, ConfigMapRef |-> {"configmap"}, QueryRange |-> {}, Runbook |-> {}, Summary |-> {},
     Integrity |-> {}, NoRemediation |-> {}]
SourceWords(src) == CASE src = "k8s_pvc" -> {"pvc"}
                      [] src = "image_pull_secret" -> {"secret"}
                      [] OTHER -> {}

(* One EvidenceRecord. *)
Record(src, title, says, sev) == [src |-> src, title |-> title, says |-> says, sev |-> sev]
Words(r) == SourceWords(r.src) \cup TitleWords[r.title] \cup r.says
Ref(r) == <<r.src, r.title>>

-----------------------------------------------------------------------------
Healthy == [app |-> "up", side |-> "none", init |-> "none", events |-> {}, logs |-> {},
            node |-> {}, topology |-> TRUE, pvc |-> "none", memory |-> "off", trend |-> "none",
            guaranteed |-> FALSE, env |-> {}, secret |-> FALSE, probes |-> "none",
            config |-> "none", runbook |-> {}]

Containers(p) == {ContainerStates[k] : k \in {p.app, p.side} \ {"none", "absent"}}
InitStatuses(p) == {ContainerStates[k] : k \in {p.init} \ {"none"}}
Events(p) == {EventOf[k] : k \in p.events}
Text(e) == TitleWords[e.title] \cup e.says
Phase(p) == IF p.app \in {"evicted", "lost"} THEN "Failed"
            ELSE IF p.app \in {"absent", "initializing", "pulling", "noconfig"} THEN "Pending"
            ELSE "Running"
LogWords(p) == UNION {LineWords[l] : l \in p.logs}
HasNode(p) == p.topology /\ p.app # "absent"
Restarted(p) == \E s \in Containers(p) \cup InitStatuses(p) : s.restarts > 0

(* Combinations the cluster can be in: an unscheduled pod has no containers, no node and no *)
(* log; an unbound claim keeps a pod unscheduled; a failing init container keeps the app    *)
(* container in PodInitializing; memory is sampled around a termination.                    *)
Possible(p) ==
    /\ p.app = "absent" => /\ p.side = "none" /\ p.init = "none" /\ p.logs = {} /\ p.node = {}
                           /\ \A e \in Events(p) : e.title = "FailedScheduling"
    /\ p.pvc = "Pending" => p.app = "absent"
    /\ p.init \in {"initFailed", "initPulling"} <=> p.app = "initializing"
    /\ p.app \in {"initializing", "evicted", "lost"} => p.side = "none"
    /\ p.app \in {"pulling", "noconfig"} /\ p.side = "none" => p.logs = {}

(* The same pod with one trouble more. *)
Worse(p) ==
    { q \in
        {[p EXCEPT !.app = k] : k \in {"panicked", "exited", "oom", "oomNow", "killed", "stopped",
                                       "pulling", "noconfig", "failed", "evicted", "lost",
                                       "absent"}}
        \cup {[p EXCEPT !.init = k, !.app = "initializing"] : k \in {"initFailed", "initPulling"}}
        \cup {[p EXCEPT !.init = "initRetried"]}
        \cup {[p EXCEPT !.side = k] : k \in {"exited", "oom"}}
        \cup {[p EXCEPT !.events = @ \cup {e}] : e \in DOMAIN EventOf}
        \cup {[p EXCEPT !.logs = @ \cup {l}] : l \in DOMAIN LineWords}
        \cup {[p EXCEPT !.node = @ \cup {c}] : c \in {"notready", "memory", "disk", "pid", "network"}}
        \cup {[p EXCEPT !.pvc = "Bound"], [p EXCEPT !.pvc = "Pending", !.app = "absent"]}
        \cup {[p EXCEPT !.config = k] : k \in {"present", "object_missing", "key_missing",
                                               "content_empty"}}
      : Possible(q) }

(* The same trouble seen with other settings: metrics, probes, names of environment         *)
(* variables, a pull secret, no topology, a runbook in the index.                           *)
Settings(p) ==
    {p}
    \cup {[p EXCEPT !.memory = m] : m \in {"unset", "empty"} \cup DOMAIN Curves}
    \cup {[p EXCEPT !.trend = t] : t \in {"memory growth", "memory spike", "restart growth"}}
    \cup {[p EXCEPT !.env = {w}] : w \in {"config", "timeout", "secret"}}
    \cup {[p EXCEPT !.probes = b] : b \in {"quick", "slow"}}
    \cup {[p EXCEPT !.runbook = {w}] : w \in {"init", "pvc", "evict"}}
    \cup {[p EXCEPT !.topology = FALSE], [p EXCEPT !.guaranteed = TRUE], [p EXCEPT !.secret = TRUE]}
=============================================================================
