------------------------------ MODULE MCAnalysis ------------------------------
(* The whole pipeline over every pod made of at most MaxTroubles changes. *)
EXTENDS ReportPipeline

Everything == DOMAIN Healthy

(* The rule plan, and a plan of the language model that begins with the whole group. *)
Beginnings == {{"k8s.get_pod"},
               {"k8s.get_events", "k8s.get_logs", "k8s.get_topology", "k8s.get_pvc"}}

(* A language model that is sure of one hypothesis and one that rules another out.  The     *)
(* values keep the blended confidences clear of the thresholds and of exact ties.           *)
SureAndDoubtful == {[bad_config |-> 980], [image_pull_failed |-> 20]}

=============================================================================
