---------------------------- MODULE MCConnection -----------------------------
(* TLC instance of Connection.  "node" is watched and also asked for once; *)
(* "list" is watched; "drain" changes a node; in the run of liveness "any" *)
(* stands for keys of every kind, and "stats" for the cluster statistics.  *)
EXTENDS Connection, TLC

CONSTANTS node, list, any, stats, drain, internal, ka

MCModes ==
    [k \in Keys |-> CASE k = node -> {"watch", "once"}
                      [] k = list -> {"watch"}
                      [] k = any -> {"watch", "once", "stream"}
                      [] k = stats -> {"stream"}
                      [] k = drain -> {"once"}
                      [] OTHER -> {}]
MCBackend == [k \in Keys |-> "nomad"]

(* What the browser asks for with calls a and b, to bound the runs of      *)
(* liveness: a takes the subscription up, b comes across it.               *)
CONSTANTS a, b, PlanA, PlanB

Plan ==
    [c \in Calls |-> CASE c = a -> PlanA [] c = b -> PlanB [] OTHER -> {}]

PlannedNext ==
    ConnectionNext /\ \A c \in Calls : mode'[c] \in {mode[c]} \cup Plan[c]
PlannedSpec == ConnectionInit /\ [][PlannedNext]_connectionVars /\ Fairness

Symmetry == Permutations(Calls \ {KeepAlive})
=============================================================================
