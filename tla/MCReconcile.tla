---- MODULE MCReconcile ----
(* Three specs of an instance: a plain deployment that asks for routes, and two *)
(* stateful sets with a target allocator that differ in labels and claims.      *)
EXTENDS Reconcile

Plain == [mode |-> "deployment", ta |-> FALSE, ports |-> TRUE, autoscaler |-> FALSE,
          serviceAccount |-> TRUE, taServiceAccount |-> TRUE, ingress |-> "route",
          claims |-> 1, config |-> 1, labels |-> 1]

Stateful == [Plain EXCEPT !.mode = "statefulset", !.ta = TRUE, !.ports = FALSE, !.ingress = ""]

Relabelled == [Stateful EXCEPT !.labels = 2, !.claims = 2]

MCSpecs == {Plain, Stateful, Relabelled}
====
