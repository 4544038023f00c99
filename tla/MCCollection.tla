----------------------------- MODULE MCCollection -----------------------------
(* A pod of two containers, and plans of the rule planner's and the language model's kind. *)
EXTENDS Collection

Pair == {"app", "side"}
Only(tool) == << <<tool, All>> >>
Both(first, second) == << <<first, All>>, <<second, All>> >>

Unready == [sections |-> {"logs"}, target |-> All, alert |-> 0, probed |-> TRUE]
OfApp == [sections |-> {"events", "logs", "metrics"}, target |-> "app", alert |-> 1, probed |-> FALSE]
Logs(c) == <<"k8s.get_logs", c>>

SomeRuns ==
    {[goal |-> Unready, plan |-> <<Only("k8s.get_pod")>>],
     [goal |-> OfApp, plan |-> <<Both("k8s.get_events", "k8s.get_logs")>>],
     [goal |-> OfApp, plan |-> <<Both("k8s.get_pvc", "k8s.get_topology")>>],
     [goal |-> OfApp, plan |-> << <<Logs("app"), Logs("side")>>, Only("k8s.get_pvc")>>],
     [goal |-> Unready, plan |-> << <<Logs("side")>>, <<Logs("app")>> >>],
     [goal |-> OfApp, plan |-> <<Both("prometheus.query_range", "k8s.get_config_refs"), Only("k8s.get_logs")>>],
     [goal |-> OfApp, plan |-> <<Only("k8s.get_logs"), Both("loki.query_logs", "runbook.search")>>],
     [goal |-> OfApp, plan |-> <<Only("collect")>>]}

Answers == {<< >>, <<2, 2, 3, 3>>, <<1, 1, 9, 1>>, <<3, 4>>}
=============================================================================
