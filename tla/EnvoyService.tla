----------------------------- MODULE EnvoyService -----------------------------
(***************************************************************************)
(* The Envoy Service of one Contour: what the operator asks for by the     *)
(* Contour's spec.networkPublishing.envoy, how it compares that with the   *)
(* Service it finds, and what the API server makes of the result.  It      *)
(* refines one resource of ContourController ("envoyService"), whose whole *)
(* content is a single value there; here the passes are atomic.            *)
(***************************************************************************)
EXTENDS Naturals, Sequences

CONSTANTS
  Publishings,     \* the network publishing specs users write
  TargetNumbers,   \* container ports
  NodeNumbers,     \* the cluster's node port range
  DropsPolicy,     \* whether the API server drops an externalTrafficPolicy that the
                   \* type of an updated Service has no use for, or rejects the update
  MaxDisturbances  \* how often somebody else changes the Service

PortNames == {"http", "https"}
Unassigned == 0
Providers == {"AWS", "Azure", "GCP"}
Extras == {"allocationIDs", "resourceGroup", "subnet", "address"}

\* `order` is the order of the container ports; `nlb` tells an AWS network load
\* balancer from a classic one; `extras` are the optional provider parameters given;
\* `given` are the providers whose parameters are given, and `parses` says whether
\* the address is one. The two lists of ports have two items each by the API's schema;
\* `misnamed` are those whose items do not go by http and https, one each.
PublishingSpecs ==
  [ type     : {"LoadBalancer", "NodePort", "ClusterIP"},
    order    : { << "http", "https" >>, << "https", "http" >> },
    target   : [PortNames -> TargetNumbers],
    nodePort : [PortNames -> NodeNumbers \cup {Unassigned}],
    provider : Providers,
    scope    : {"External", "Internal"},
    nlb      : BOOLEAN,
    extras   : SUBSET Extras,
    given    : SUBSET Providers,
    parses   : BOOLEAN,
    misnamed : SUBSET {"containerPorts", "nodePorts"} ]

ASSUME PublishingAssumption ==
  /\ Publishings \subseteq PublishingSpecs
  /\ TargetNumbers \subseteq Nat \ {0}
  /\ NodeNumbers \subseteq Nat \ {Unassigned}
  /\ DropsPolicy \in BOOLEAN
  /\ MaxDisturbances \in Nat

VARIABLES
  publishing,   \* the current spec
  svc,          \* the stored Service: a sequence that is empty, or holds it
  outcome,      \* how the last pass since the last change ended
  disturbances  \* how often somebody else has changed the Service

vars == << publishing, svc, outcome, disturbances >>

Current == svc[1]

----------------------------------------------------------------------------
(* What the operator asks for. *)

ExtraNeeded(p, e) ==
  \/ e = "allocationIDs" /\ p.scope = "External" /\ p.provider = "AWS" /\ p.nlb
  \/ e = "resourceGroup" /\ p.scope = "External" /\ p.provider = "Azure"
  \/ e = "subnet" /\ p.scope = "Internal" /\ p.provider \in {"Azure", "GCP"}

\* Each annotation is named for its purpose and its provider.
Annotations(p) ==
  LET mode == IF p.nlb THEN {"nlb"} ELSE {"tcpBackend", "proxyProtocol"}
      keys == { e \in p.extras : ExtraNeeded(p, e) }
                \cup (IF p.provider = "AWS" THEN mode ELSE {})
                \cup (IF p.scope = "Internal" THEN {"internal"} ELSE {})
  IN  IF p.type = "LoadBalancer" THEN keys \X {p.provider} ELSE {}

LoadBalancerAddressNeeded(p) ==
  p.type = "LoadBalancer" /\ p.provider \in {"Azure", "GCP"} /\ "address" \in p.extras

\* The Service port (80 or 443) goes by the name. `policy` says whether the
\* external traffic policy is set, `address` whether loadBalancerIP is.
DesiredEnvoyService(p) ==
  [ type        |-> p.type,
    ports       |-> [ i \in 1..2 |->
                      [ name   |-> p.order[i],
                        target |-> p.target[p.order[i]],
                        node   |-> IF p.type = "NodePort" THEN p.nodePort[p.order[i]]
                                   ELSE Unassigned ] ],
    annotations |-> Annotations(p),
    address     |-> LoadBalancerAddressNeeded(p),
    policy      |-> p.type # "ClusterIP" ]

----------------------------------------------------------------------------
(* The comparisons. Each returns the Service to write; if it equals the current *)
(* one, nothing has changed. *)

\* A bug: with the number of ports right the ports are taken to be right.
LoadBalancerPortsCounted(current, expected) ==
  IF Len(current.ports) = Len(expected.ports)
  THEN [expected EXCEPT !.ports = current.ports] ELSE expected

\* A bug: the ports are replaced, as NodePortServiceChanged does.
LoadBalancerPortsReplaced(current, expected) == expected

\* A bug: the node port is kept as the target port.
LoadBalancerPortsMixed(current, expected) ==
  IF Len(current.ports) # Len(expected.ports) THEN expected
  ELSE [expected EXCEPT !.ports =
          [ i \in 1..Len(expected.ports) |->
              [expected.ports[i] EXCEPT !.target = current.ports[i].node] ]]

\* Ports are compared one by one, apart from the node port, which stays.
LoadBalancerServiceChanged(current, expected) ==
  IF Len(current.ports) # Len(expected.ports) THEN expected
  ELSE [expected EXCEPT !.ports =
          [ i \in 1..Len(expected.ports) |->
              [expected.ports[i] EXCEPT !.node = current.ports[i].node] ]]

\* The loadBalancerIP is not looked at.
NodePortServiceChanged(current, expected) ==
  [expected EXCEPT !.address = current.address]

\* Nor are the annotations and the external traffic policy, here.
ClusterIPServiceChanged(current, expected) ==
  [current EXCEPT !.ports = expected.ports, !.type = expected.type]

Updated(p, current) ==
  LET expected == DesiredEnvoyService(p)
  IN  CASE p.type = "NodePort"     -> NodePortServiceChanged(current, expected)
        [] p.type = "ClusterIP"    -> ClusterIPServiceChanged(current, expected)
        [] p.type = "LoadBalancer" -> LoadBalancerServiceChanged(current, expected)

\* NodePortServiceChanged walks the current ports and indexes the expected ones.
OutOfRange(p, current) ==
  p.type = "NodePort" /\ Len(current.ports) > Len(DesiredEnvoyService(p).ports)

----------------------------------------------------------------------------
(* The API server. *)

\* The node ports it may assign to s: those asked for, and any free ones.
Assignments(s) ==
  LET numbers == 1..Len(s.ports)
  IN  IF s.type = "ClusterIP" THEN { [i \in numbers |-> Unassigned] }
      ELSE { f \in [numbers -> NodeNumbers] :
               /\ \A i \in numbers : s.ports[i].node \in {Unassigned, f[i]}
               /\ \A i, j \in numbers : f[i] = f[j] => i = j }

Acceptable(s) ==
  /\ Assignments(s) # {}
  /\ s.type = "ClusterIP" => DropsPolicy \/ ~s.policy

Stored(s, f) ==
  [s EXCEPT !.ports = [i \in DOMAIN f |-> [s.ports[i] EXCEPT !.node = f[i]]],
            !.policy = s.policy /\ s.type # "ClusterIP"]

Store(s) == \E f \in Assignments(s) : svc' = << Stored(s, f) >>

Write(s) ==
  IF Acceptable(s)
  THEN outcome' = "ensured" /\ Store(s)
  ELSE outcome' = "rejected" /\ UNCHANGED svc

----------------------------------------------------------------------------
(* What happens. *)

\* No two container ports have one number, and one goes by each of the names.
ContainerPorts(p) ==
  /\ \A m, n \in PortNames : p.target[m] = p.target[n] => m = n
  /\ "containerPorts" \notin p.misnamed

\* validation.NodePorts compares the addresses of the two numbers, and two items
\* of a decoded list never share one.
SamePointer(p) == FALSE

NodePorts(p) ==
  /\ "nodePorts" \notin p.misnamed
  /\ Unassigned \notin { p.nodePort[n] : n \in PortNames } => ~SamePointer(p)

LoadBalancerAddress(p) == LoadBalancerAddressNeeded(p) => p.parses

LoadBalancerProvider(p) == p.given \subseteq {p.provider}

Valid(p) ==
  /\ ContainerPorts(p)
  /\ p.type = "NodePort" => NodePorts(p)
  /\ p.type = "LoadBalancer" => LoadBalancerAddress(p) /\ LoadBalancerProvider(p)

Init ==
  /\ publishing \in Publishings
  /\ svc = << >>
  /\ outcome = "pending"
  /\ disturbances = 0

Publish(p) ==
  /\ p # publishing
  /\ publishing' = p
  /\ outcome' = "pending"
  /\ UNCHANGED << svc, disturbances >>

\* Validation turns the spec away before anything is ensured.
TurnAway ==
  /\ ~Valid(publishing)
  /\ outcome' = "invalid"
  /\ UNCHANGED << publishing, svc, disturbances >>

CreateService ==
  /\ Valid(publishing) /\ svc = << >>
  /\ \E desired \in {DesiredEnvoyService(publishing)} : Write(desired)
  /\ UNCHANGED << publishing, disturbances >>

UpdateEnvoyServiceIfNeeded ==
  /\ Valid(publishing) /\ svc # << >> /\ ~OutOfRange(publishing, Current)
  /\ \E updated \in {Updated(publishing, Current)} :
       IF updated = Current
       THEN outcome' = "ensured" /\ UNCHANGED svc
       ELSE Write(updated)
  /\ UNCHANGED << publishing, disturbances >>

\* The process dies in the comparison.
Panic ==
  /\ Valid(publishing) /\ svc # << >> /\ OutOfRange(publishing, Current)
  /\ outcome' = "panicked"
  /\ UNCHANGED << publishing, svc, disturbances >>

\* Somebody else deletes the Service, adds a port to it, points its ports
\* elsewhere, or removes its annotations.
Disturb ==
  /\ svc # << >> /\ disturbances < MaxDisturbances
  /\ \/ svc' = << >>
     \/ \E n \in NodeNumbers \ { Current.ports[i].node : i \in DOMAIN Current.ports } :
          svc' = << [Current EXCEPT !.ports =
                      Append(@, [ name   |-> "other",
                                  target |-> CHOOSE t \in TargetNumbers : TRUE,
                                  node   |-> IF Current.type = "ClusterIP" THEN Unassigned
                                             ELSE n ])] >>
     \/ \E t \in TargetNumbers :
          svc' = << [Current EXCEPT !.ports =
                      [ i \in DOMAIN @ |-> [@[i] EXCEPT !.target = t] ]] >>
     \/ svc' = << [Current EXCEPT !.annotations = {}] >>
  /\ svc' # svc
  /\ disturbances' = disturbances + 1
  /\ outcome' = "pending"
  /\ UNCHANGED publishing

Next ==
  \/ \E p \in Publishings : Publish(p)
  \/ TurnAway \/ CreateService \/ UpdateEnvoyServiceIfNeeded \/ Panic \/ Disturb

Spec == Init /\ [][Next]_vars

----------------------------------------------------------------------------
(* Properties. *)

Services ==
  [ type        : {"LoadBalancer", "NodePort", "ClusterIP"},
    ports       : Seq([ name : PortNames \cup {"other"}, target : TargetNumbers,
                        node : NodeNumbers \cup {Unassigned} ]),
    annotations : SUBSET ((Extras \cup {"nlb", "tcpBackend", "proxyProtocol", "internal"})
                          \X Providers),
    address     : BOOLEAN,
    policy      : BOOLEAN ]

EnvoyTypeOK ==
  /\ publishing \in Publishings
  /\ svc = << >> \/ (Len(svc) = 1 /\ Current \in Services)
  /\ outcome \in {"pending", "ensured", "rejected", "invalid", "panicked"}
  /\ disturbances \in 0..MaxDisturbances

Wanted == DesiredEnvoyService(publishing)
Ensured == outcome = "ensured"

\* A pass that reports success leaves a Service of the wanted type that sends each
\* wanted port to the container port wanted now, whatever Service was there before
\* and whoever had changed it; and where the type calls for them the annotations,
\* the policy, the address and the specified node ports are in force
\* (updateEnvoyServiceIfNeeded, service.go:392).
Honoured ==
  Ensured =>
    /\ Current.type = Wanted.type
    /\ Len(Current.ports) = 2
    /\ \A i \in 1..2 :
         /\ Current.ports[i].name = Wanted.ports[i].name
         /\ Current.ports[i].target = Wanted.ports[i].target
         /\ Wanted.ports[i].node \in {Unassigned, Current.ports[i].node}
    /\ Wanted.type # "ClusterIP" =>
         Current.annotations = Wanted.annotations /\ Current.policy = Wanted.policy
    /\ Wanted.type = "LoadBalancer" => Current.address = Wanted.address

\* The numbers of a NodePort Service are all chosen by the user.
Chosen(p) == p.type = "NodePort" => Unassigned \notin { p.nodePort[n] : n \in PortNames }

\* What the API server made of the last write gives the next pass nothing to do:
\* the fields it fills in do not count as changes. Where node ports of a NodePort
\* Service are left to it this does not hold: 0 never equals the number chosen.
AtRest == Ensured /\ Chosen(publishing) => Updated(publishing, Current) = Current

\* A pass does not change the node ports of a load balancer: they are "not
\* compared since they are dynamically assigned" (equality.go:168), and clients
\* beyond the balancer rely on them.
NodePortsKept ==
  [][ /\ svc # << >> /\ svc' # << >> /\ disturbances' = disturbances
      /\ Current.type = "LoadBalancer" /\ Current'.type = "LoadBalancer"
      /\ Len(Current.ports) = Len(Current'.ports)
      => \A i \in DOMAIN Current.ports : Current'.ports[i].node = Current.ports[i].node ]_vars

\* Node port numbers are unique in a spec that passes validation, as the test
\* "duplicate nodeport numbers" of validation_test.go has it: the API server is never
\* asked for the same number twice.
DuplicatesTurnedAway ==
  outcome \in {"ensured", "rejected"} /\ publishing.type = "NodePort" /\ Chosen(publishing)
    => publishing.nodePort["http"] # publishing.nodePort["https"]

\* The comparison answers for every Service it may find (equality.go:236: "checks if
\* current and expected match and if not, returns true").
NeverPanics == outcome # "panicked"
===============================================================================
