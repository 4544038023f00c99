------------------------------ MODULE Hypotheses ------------------------------
(***************************************************************************)
(* The hypotheses of the agent (internal/agent/hypothesis.go): evidence is *)
(* turned into facts, words with the records that mention them, and each   *)
(* of thirteen root causes gets a confidence from the facts, in            *)
(* thousandths.  Then the two ways the code chooses among them: the ranked *)
(* list (hypothesis_priority.go, convergence.go) and the integrity check.  *)
(***************************************************************************)
EXTENDS Pods, Functions

(* evidenceFacts: the records that mention one of the words, and what the topology and the  *)
(* claims of the snapshot add.                                                              *)
Live(ev) == {r \in ev : r.title # "NoMatch"}                     \* negativeDiagnosticEvidence
ContextRefs(p, words) ==
    {<<"topology", c[2]>> : c \in {c \in {<<"memorypressure", "memory">>, <<"diskpressure", "disk">>,
                                           <<"pidpressure", "pid">>, <<"notready", "notready">>} :
                                    HasNode(p) /\ c[1] \in words /\ c[2] \in p.node}}
    \cup (IF p.pvc = "Pending" /\ words \cap {"pvc", "bound"} # {} THEN {<<"claim", "pvc">>} ELSE {})
Mentions(p, ev, words) ==
    {Ref(r) : r \in {e \in Live(ev) : Words(e) \cap words # {}}} \cup ContextRefs(p, words)

(* A hypothesis is built from parts <<refs, weight>>; missing is the evidence it says it    *)
(* still lacks, "" when none.                                                               *)
StatusOf(conf) == IF conf >= 750 THEN "confirmed" ELSE IF conf <= 200 THEN "rejected" ELSE "active"
Weight(parts) ==
    FoldLeft(LAMBDA sum, a : IF a[1] = {} THEN sum ELSE sum + 10 * a[2], 300, parts)
Hypothesis(type, parts, missing) ==
    LET found == UNION {parts[i][1] : i \in DOMAIN parts}
        conf  == IF found = {} THEN 150 ELSE Min({Weight(parts), 1000})
    IN  [type |-> type, conf |-> conf, status |-> StatusOf(conf), refs |-> found, missing |-> missing]
Unless(found, missing) == IF found = {} THEN missing ELSE ""

Pressures == {"memorypressure", "diskpressure", "pidpressure"}

(* The thirteen candidates in the order of the code, scored by the words of the evidence. *)
KeywordScores(p, ev) ==
    LET m(words) == Mentions(p, ev, words)
        prometheus == {Ref(r) : r \in {e \in Live(ev) : e.src = "prometheus"}}
        plain(type, parts) ==
            Hypothesis(type, parts, Unless(UNION {parts[i][1] : i \in DOMAIN parts}, "all of it"))
        tooLow == m({"limit_too_low"})
        leak   == m({"memory_leak", "progressive_growth"})
        object == m({"object_missing"})
        key    == m({"key_missing"})
        init   == m({"init"})
    IN << Hypothesis("memory_limit_too_low",
                     << <<m({"oom"}), 25>>, <<tooLow, 20>>, <<prometheus, 10>>, <<m({"limit"}), 5>> >>,
                     IF \A r \in Live(ev) : r.src \notin {"prometheus", "prometheus_trend"}
                     THEN "metrics" ELSE Unless(tooLow, "shape")),
          Hypothesis("application_memory_leak", << <<m({"oom"}), 20>>, <<leak, 30>> >>,
                     Unless(leak, "growth")),
          plain("node_memory_pressure", << <<m({"memorypressure"}), 35>> >>),
          plain("bad_config", << <<m({"config", "configmap"}), 30>>, <<m({"backoff"}), 20>>,
                                 <<m({"content_empty"}), 30>> >>),
          Hypothesis("missing_secret_or_configmap",
                     << <<m({"secret", "configmap"}), 15>>, <<object, 45>>, <<key, 40>> >>,
                     Unless(object \cup key, "inspection")),
          plain("dependency_unavailable",
                << <<m({"refused", "timeout"}), 25>>, <<m({"backoff", "probe"}), 10>> >>),
          plain("probe_misconfigured", << <<m({"probe", "unhealthy"}), 45>> >>),
          plain("pvc_unbound", << <<m({"pvc", "bound"}), 45>> >>),
          plain("scheduling_constraint", << <<m({"failedscheduling", "taint", "selector"}), 45>>,
                                            <<m({"insufficient"}), 10>> >>),
          plain("image_pull_failed", << <<m({"imagepull"}), 45>>, <<m({"auth", "manifest"}), 15>> >>),
          plain("init_container_crash",
                << <<init, 35>>, <<IF init = {} THEN {} ELSE m({"exitcode"}), 20>> >>),
          plain("node_eviction", << <<m({"evict"}), 45>>, <<m(Pressures), 15>>,
                                    <<m({"ephemeral"}), 8>> >>),
          plain("node_not_ready", << <<m({"notready"}), 45>>, <<m(Pressures), 10>>,
                                     <<m({"networkunavailable"}), 5>> >>) >>

(* blendScores: the answer of the language model, a confidence for some of the types, is    *)
(* weighed in with four tenths; a type nothing supports keeps its own.  The status is set   *)
(* afterwards.  NoAnswer: there is no scorer, or the call failed.                           *)
NoAnswer == << >>
Blended(h, answer) ==
    IF h.type \notin DOMAIN answer \/ h.refs = {} THEN h
    ELSE LET conf == (6 * h.conf + 4 * answer[h.type]) \div 10
         IN  [h EXCEPT !.conf = conf, !.status = StatusOf(conf)]

(* HypothesisEngine.UpdateContext, with what the language model answers to this call. *)
Update(p, ev, answer) ==
    LET scores == KeywordScores(p, ev) IN [i \in DOMAIN scores |-> Blended(scores[i], answer)]

-----------------------------------------------------------------------------
Specificity(type) ==
    CASE type = "pvc_unbound" -> 100 [] type = "missing_secret_or_configmap" -> 98
      [] type = "memory_limit_too_low" -> 96 [] type = "node_not_ready" -> 95
      [] type = "image_pull_failed" -> 93 [] type = "init_container_crash" -> 92
      [] type = "node_eviction" -> 91 [] type = "probe_misconfigured" -> 90
      [] type = "scheduling_constraint" -> 88 [] type = "dependency_unavailable" -> 82
      [] type = "application_memory_leak" -> 80 [] type = "bad_config" -> 72 [] OTHER -> 50

(* Confidences within primaryConfidenceTieEpsilon.  Of the pairs of scores that are exactly *)
(* .03 apart, the floats of these two are no further apart than the constant .03.           *)
Tied(a, b) == \/ a - b < 30 /\ b - a < 30
              \/ {a, b} \in {{800, 830}, {400, 430}}

(* The tie-break both comparators share: specificity, then the number of references (the    *)
(* specificities differ, so the name is never compared).                                    *)
MoreSpecific(a, b) == Specificity(a.type) > Specificity(b.type)

(* rankedHypotheses: less, and the insertion sort SliceStable does for thirteen elements *)
RankedBefore(a, b) == IF Tied(a.conf, b.conf) THEN MoreSpecific(a, b) ELSE a.conf > b.conf
SortBy(Before(_, _), scores) ==
    FoldLeft(LAMBDA sorted, h :
                LET k == Max({0} \cup {i \in DOMAIN sorted : ~Before(h, sorted[i])})
                IN  SubSeq(sorted, 1, k) \o <<h>> \o SubSeq(sorted, k + 1, Len(sorted)),
            << >>, scores)

(* betterPrimaryHypothesis *)
Rank(status) == CASE status = "confirmed" -> 3 [] status = "active" -> 2 [] OTHER -> 0
BetterPrimary(a, b) ==
    IF Rank(a.status) # Rank(b.status) THEN Rank(a.status) > Rank(b.status)
    ELSE RankedBefore(a, b)

(* selectPrimaryHypothesis: one scan of those not rejected; << >> when all are *)
SelectPrimary(hyps) ==
    FoldLeft(LAMBDA best, h : IF h.status = "rejected" THEN best
                             ELSE IF best = << >> THEN <<h>>
                             ELSE IF BetterPrimary(h, best[1]) THEN <<h>> ELSE best,
            << >>, hyps)

(* assessHypothesisConvergence *)
KeyEvidenceComplete(h) == h.refs # {} /\ h.missing = ""
Converged(scores) ==
    LET ranked == SortBy(RankedBefore, scores) IN
    /\ ranked[1].conf >= 750 /\ KeyEvidenceComplete(ranked[1])
    /\ ranked[2].conf < 650 \/ ranked[1].conf - ranked[2].conf >= 150

(* shouldConfirmWithExhaustedEvidence: the first of the ranking is likely enough, and       *)
(* nothing is left to run that would tell it from the others.                               *)
LikelyEnough(scores) ==
    LET top == SortBy(RankedBefore, scores)[1] IN top.conf >= 750 /\ top.refs # {}

-----------------------------------------------------------------------------
(* CheckHypothesisCoverage: a hypothesis over .5 with fewer than two references among the   *)
(* evidence is a gap; what an active one misses is mentioned too, but does not count.       *)
Supported(h, ev) == h.refs \cap {Ref(r) : r \in ev}
Checked(scores) == {h \in Range(scores) : h.conf >= 300 /\ h.status # "rejected"}
Gaps(scores, ev) == {h \in Checked(scores) : h.conf > 500 /\ Cardinality(Supported(h, ev)) < 2}
Mentioned(scores) == {h \in Checked(scores) : h.missing # "" /\ h.status = "active"}

(* IntegrityReportToEvidence: its text names hypotheses and what they miss, and these names *)
(* are words the next scoring finds.  A text that says "image pull" hides "config".         *)
GapWords(h) ==
    CASE h.type = "memory_limit_too_low" ->
             {"limit"} \cup (IF h.status = "active" /\ h.missing = "shape" THEN {"oom"} ELSE {})
      [] h.type = "node_memory_pressure" -> {"memorypressure"}
      [] h.type = "bad_config" -> {"config"}
      [] h.type = "missing_secret_or_configmap" -> {"secret", "configmap", "config"}
      [] h.type = "probe_misconfigured" -> {"probe", "config"}
      [] h.type = "pvc_unbound" -> {"pvc", "bound"}
      [] h.type = "node_eviction" -> {"evict"}
      [] OTHER -> {}
IntegrityRecords(scores, ev) ==
    LET named == Gaps(scores, ev) \cup Mentioned(scores)
        words == UNION {GapWords(h) : h \in named}
    IN  IF Gaps(scores, ev) = {} THEN {}
        ELSE {Record("agent", "Integrity",
                     IF \E h \in named : h.type = "image_pull_failed" THEN words \ {"config"} ELSE words,
                     "warning")}
=============================================================================
