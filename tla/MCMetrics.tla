------------------------------- MODULE MCMetrics -------------------------------
(* Two pods in two racks, with a third address for a pod that restarts. *)
EXTENDS Metrics

TwoRacks == [p \in Pods |-> IF p = "a-0" THEN "a" ELSE "b"]
FirstNodes == [p \in Pods |-> IF p = "a-0" THEN "n1" ELSE "n2"]
=============================================================================
