---------------------------- MODULE MCEnvoyService ----------------------------
(* Small instances of EnvoyService for TLC. *)
EXTENDS EnvoyService

\* The specs are variations of one that leaves everything to its default.
Default ==
  [ type |-> "LoadBalancer", order |-> << "http", "https" >>,
    target |-> [n \in PortNames |-> IF n = "http" THEN 1 ELSE 2],
    nodePort |-> [n \in PortNames |-> Unassigned],
    provider |-> "AWS", scope |-> "External", nlb |-> FALSE, extras |-> {},
    given |-> {}, parses |-> TRUE, misnamed |-> {} ]

Azure == [Default EXCEPT !.provider = "Azure", !.extras = Extras, !.given = {"Azure"}]

\* Of each provider one; GCP's is internal, so that the scope changes with it.
LoadBalancers ==
  { Default,
    [Default EXCEPT !.target["http"] = 2, !.target["https"] = 1],
    [Default EXCEPT !.order = << "https", "http" >>, !.nlb = TRUE, !.extras = Extras,
                    !.given = {"AWS"}],
    Azure,
    [Azure EXCEPT !.provider = "GCP", !.scope = "Internal", !.given = {"GCP"}] }

WithNumbers(http, https) ==
  [Default EXCEPT !.type = "NodePort", !.nodePort["http"] = http, !.nodePort["https"] = https]

\* The same number twice, other names, another provider's parameters, no address.
Unsound ==
  { [Default EXCEPT !.target["http"] = 2],
    [Default EXCEPT !.misnamed = {"containerPorts"}],
    [WithNumbers(1, 2) EXCEPT !.misnamed = {"nodePorts"}],
    [Azure EXCEPT !.given = {"Azure", "AWS"}],
    [Azure EXCEPT !.parses = FALSE] }

ClusterIP == [Default EXCEPT !.type = "ClusterIP"]

NumbersChosen == { WithNumbers(1, 2), WithNumbers(3, 1) }
NumbersLeft == { WithNumbers(2, Unassigned) }
Duplicates == { WithNumbers(1, 1) }

AllPublishings == LoadBalancers \cup Unsound \cup NumbersChosen \cup NumbersLeft \cup {ClusterIP}
===============================================================================
