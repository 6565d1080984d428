--------------------------- MODULE DataPlane_proofs ---------------------------
(***************************************************************************)
(* Proofs about EnvoyService and DataPlane, for every set of publishing    *)
(* specs and port numbers, either kind of API server, and any bounds: what *)
(* a pass wants of the Envoy Service, what the comparisons let pass, and   *)
(* what the API server makes of it.                                        *)
(***************************************************************************)
EXTENDS DataPlane, TLAPS

----------------------------------------------------------------------------
(* Ports and specs. *)

\* The ports of a Service.
Port == [name : PortNames \cup {"other"}, target : TargetNumbers, node : NodeNumbers \cup {Unassigned}]

\* A function on 1..n is a sequence.
LEMMA PortsOf ==
  ASSUME NEW n \in Nat, NEW f \in [1..n -> Port]
  PROVE  f \in Seq(Port) /\ Len(f) = n
OBVIOUS

\* And a sequence is a function.
LEMMA PortsAre ==
  ASSUME NEW q \in Seq(Port)
  PROVE  Len(q) \in Nat /\ q \in [1..Len(q) -> Port] /\ DOMAIN q = 1..Len(q)
OBVIOUS

\* The fields of a spec; its two ports go by the two names, in either order.
LEMMA SpecTypes ==
  ASSUME NEW p \in PublishingSpecs
  PROVE  /\ p.type \in {"LoadBalancer", "NodePort", "ClusterIP"}
         /\ p.order \in { << "http", "https" >>, << "https", "http" >> }
         /\ \A i \in 1..2 : p.order[i] \in PortNames
         /\ \A n \in PortNames : \E i \in 1..2 : p.order[i] = n
         /\ p.target \in [PortNames -> TargetNumbers]
         /\ p.nodePort \in [PortNames -> NodeNumbers \cup {Unassigned}]
         /\ p.provider \in Providers
<1>1. p.order \in { << "http", "https" >>, << "https", "http" >> }
  BY DEF PublishingSpecs
<1>. QED BY <1>1 DEF PublishingSpecs, PortNames

\* The port that is wanted in the i-th place.
DesiredPort(p, i) ==
  [ name   |-> p.order[i],
    target |-> p.target[p.order[i]],
    node   |-> IF p.type = "NodePort" THEN p.nodePort[p.order[i]] ELSE Unassigned ]

\* The fields of the Service that is wanted.
LEMMA DesiredFields ==
  ASSUME NEW p \in PublishingSpecs
  PROVE  /\ DesiredEnvoyService(p) \in Services
         /\ DesiredEnvoyService(p).type = p.type
         /\ DesiredEnvoyService(p).ports \in [1..2 -> Port]
         /\ Len(DesiredEnvoyService(p).ports) = 2
         /\ \A i \in 1..2 : DesiredEnvoyService(p).ports[i] = DesiredPort(p, i)
         /\ DesiredEnvoyService(p).policy = (p.type # "ClusterIP")
<1>. DEFINE D == DesiredEnvoyService(p)
<1>1. D = [type |-> D.type, ports |-> D.ports, annotations |-> D.annotations, address |-> D.address,
           policy |-> D.policy]
  BY DEF DesiredEnvoyService
<1>2. /\ D.type = p.type /\ D.policy = (p.type # "ClusterIP")
      /\ D.ports = [i \in 1..2 |-> DesiredPort(p, i)]
      /\ D.annotations = Annotations(p) /\ D.address = LoadBalancerAddressNeeded(p)
  BY DEF DesiredEnvoyService, DesiredPort
<1>3. \A i \in 1..2 : DesiredPort(p, i) \in Port
  BY SpecTypes DEF DesiredPort, Port
<1>4. D.ports \in [1..2 -> Port]
  BY <1>2, <1>3
<1>5. D.ports \in Seq(Port) /\ Len(D.ports) = 2
  BY <1>4, PortsOf
<1>6. Annotations(p) \in SUBSET ((Extras \cup {"nlb", "tcpBackend", "proxyProtocol", "internal"}) \X Providers)
  <2>. DEFINE mode == IF p.nlb THEN {"nlb"} ELSE {"tcpBackend", "proxyProtocol"}
              keys == { e \in p.extras : ExtraNeeded(p, e) }
                        \cup (IF p.provider = "AWS" THEN mode ELSE {})
                        \cup (IF p.scope = "Internal" THEN {"internal"} ELSE {})
  <2>1. p.extras \subseteq Extras
    BY DEF PublishingSpecs
  <2>2. keys \subseteq Extras \cup {"nlb", "tcpBackend", "proxyProtocol", "internal"}
    BY <2>1
  <2>3. Annotations(p) = IF p.type = "LoadBalancer" THEN keys \X {p.provider} ELSE {}
    BY DEF Annotations
  <2>. HIDE DEF keys
  <2>. QED BY <2>2, <2>3, SpecTypes
<1>7. D.address \in BOOLEAN /\ D.policy \in BOOLEAN
  BY <1>2 DEF LoadBalancerAddressNeeded
<1>8. D.type \in {"LoadBalancer", "NodePort", "ClusterIP"}
  BY <1>2, SpecTypes
<1>. HIDE DEF D
<1>9. D \in Services
  BY <1>1, <1>2, <1>5, <1>6, <1>7, <1>8 DEF Services, Port
<1>. QED BY <1>2, <1>4, <1>5, <1>9 DEF D

----------------------------------------------------------------------------
(* Services and the comparisons. *)

\* The fields of a Service.
LEMMA ServiceFields ==
  ASSUME NEW s \in Services
  PROVE  /\ s.type \in {"LoadBalancer", "NodePort", "ClusterIP"} /\ s.ports \in Seq(Port)
         /\ s.annotations \subseteq
              (Extras \cup {"nlb", "tcpBackend", "proxyProtocol", "internal"}) \X Providers
         /\ s.address \in BOOLEAN /\ s.policy \in BOOLEAN
BY DEF Services, Port

\* Services with the same fields are the same.
LEMMA SameService ==
  ASSUME NEW s \in Services, NEW t \in Services, s.type = t.type, s.ports = t.ports,
         s.annotations = t.annotations, s.address = t.address, s.policy = t.policy
  PROVE  s = t
BY DEF Services

\* The service s is as p wants it, but for what Updated lets differ.
Follows(p, s) ==
  LET d == DesiredEnvoyService(p)
  IN  /\ s \in Services /\ s.type = p.type
      /\ s.ports \in [1..2 -> Port] /\ Len(s.ports) = 2
      /\ \A i \in 1..2 :
           /\ s.ports[i].name = DesiredPort(p, i).name
           /\ s.ports[i].target = DesiredPort(p, i).target
           /\ p.type # "LoadBalancer" => s.ports[i].node = DesiredPort(p, i).node
      /\ p.type # "ClusterIP" => s.annotations = d.annotations /\ s.policy = TRUE
      /\ p.type = "LoadBalancer" => s.address = d.address

\* What is created follows the spec.
LEMMA DesiredFollows ==
  ASSUME NEW p \in PublishingSpecs
  PROVE  Follows(p, DesiredEnvoyService(p))
<1>1. \A i \in 1..2 : DesiredEnvoyService(p).ports[i] = DesiredPort(p, i)
  BY DesiredFields
<1>. QED BY <1>1, DesiredFields DEF Follows

\* What an update writes follows the spec, whatever Service was there, of whatever type
\* and with whatever ports; and a load balancer with two ports keeps their node ports.
LEMMA UpdatedFollows ==
  ASSUME NEW p \in PublishingSpecs, NEW c \in Services
  PROVE  /\ Follows(p, Updated(p, c))
         /\ p.type = "LoadBalancer" /\ Len(c.ports) = 2 =>
              \A i \in 1..2 : Updated(p, c).ports[i].node = c.ports[i].node
<1>. DEFINE d == DesiredEnvoyService(p)
            u == Updated(p, c)
<1>0. /\ d \in Services /\ d.type = p.type /\ d.ports \in [1..2 -> Port] /\ Len(d.ports) = 2
      /\ d.ports \in Seq(Port)
      /\ \A i \in 1..2 : d.ports[i] = DesiredPort(p, i)
      /\ d.policy = (p.type # "ClusterIP")
      /\ p.type \in {"LoadBalancer", "NodePort", "ClusterIP"}
  BY DesiredFields, SpecTypes, ServiceFields
<1>1. CASE p.type = "NodePort"
  <2>1. u = [d EXCEPT !.address = c.address]
    BY <1>1 DEF Updated, NodePortServiceChanged
  <2>2. /\ u \in Services /\ u.type = d.type /\ u.ports = d.ports /\ u.annotations = d.annotations
        /\ u.policy = d.policy
    <3>. HIDE DEF u, d
    <3>. QED BY <1>0, <2>1, ServiceFields DEF Services, Port
  <2>. HIDE DEF u
  <2>3. \A i \in 1..2 : u.ports[i] = DesiredPort(p, i)
    BY <1>0, <2>2
  <2>4. Follows(p, u)
    BY <1>0, <1>1, <2>2, <2>3 DEF Follows
  <2>. QED BY <1>1, <2>4 DEF u
<1>2. CASE p.type = "ClusterIP"
  <2>1. u = [c EXCEPT !.ports = d.ports, !.type = d.type]
    BY <1>2 DEF Updated, ClusterIPServiceChanged
  <2>2. u \in Services /\ u.type = d.type /\ u.ports = d.ports
    <3>. HIDE DEF u, d
    <3>. QED BY <1>0, <2>1, ServiceFields DEF Services, Port
  <2>. HIDE DEF u
  <2>3. \A i \in 1..2 : u.ports[i] = DesiredPort(p, i)
    BY <1>0, <2>2
  <2>4. Follows(p, u)
    BY <1>0, <1>2, <2>2, <2>3 DEF Follows
  <2>. QED BY <1>2, <2>4 DEF u
<1>3. CASE p.type = "LoadBalancer" /\ Len(c.ports) # 2
  <2>1. u = d
    BY <1>0, <1>3 DEF Updated, LoadBalancerServiceChanged
  <2>. QED BY <1>3, <2>1, DesiredFollows
<1>4. CASE p.type = "LoadBalancer" /\ Len(c.ports) = 2
  <2>. DEFINE ports == [i \in 1..2 |-> [d.ports[i] EXCEPT !.node = c.ports[i].node]]
  <2>1. u = [d EXCEPT !.ports = ports]
    BY <1>0, <1>4 DEF Updated, LoadBalancerServiceChanged
  <2>2. \A i \in 1..2 : c.ports[i] \in Port
    BY <1>4, ServiceFields, PortsAre
  <2>3. \A i \in 1..2 :
          /\ ports[i] \in Port
          /\ ports[i].name = DesiredPort(p, i).name /\ ports[i].target = DesiredPort(p, i).target
          /\ ports[i].node = c.ports[i].node
    <3>. HIDE DEF d
    <3>. QED BY <1>0, <2>2 DEF Port
  <2>4. ports \in [1..2 -> Port]
    BY <2>3
  <2>. HIDE DEF ports
  <2>5. ports \in Seq(Port) /\ Len(ports) = 2
    BY <2>4, PortsOf
  <2>6. /\ u \in Services /\ u.type = d.type /\ u.ports = ports /\ u.annotations = d.annotations
        /\ u.address = d.address /\ u.policy = d.policy
    <3>. HIDE DEF u, d
    <3>. QED BY <1>0, <2>1, <2>5, ServiceFields DEF Services, Port
  <2>. HIDE DEF u
  <2>7. Follows(p, u)
    BY <1>0, <1>4, <2>3, <2>4, <2>5, <2>6 DEF Follows
  <2>. QED BY <2>3, <2>6, <2>7 DEF u
<1>. QED BY <1>0, <1>1, <1>2, <1>3, <1>4

----------------------------------------------------------------------------
(* What the API server makes of a Service. *)

\* What the API server stores: the numbers it assigns, all others kept, and no policy on a
\* ClusterIP Service.
LEMMA StoredFields ==
  ASSUME PublishingAssumption, NEW s \in Services, s.ports \in [1..2 -> Port], Len(s.ports) = 2, NEW f \in Assignments(s)
  PROVE  /\ Stored(s, f) \in Services
         /\ Stored(s, f).ports \in [1..2 -> Port] /\ Len(Stored(s, f).ports) = 2
         /\ \A i \in 1..2 :
              /\ Stored(s, f).ports[i].name = s.ports[i].name
              /\ Stored(s, f).ports[i].target = s.ports[i].target
              /\ Stored(s, f).ports[i].node = f[i]
              /\ s.type = "ClusterIP" => f[i] = Unassigned
              /\ s.type # "ClusterIP" => f[i] \in NodeNumbers /\ s.ports[i].node \in {Unassigned, f[i]}
         /\ Stored(s, f).type = s.type /\ Stored(s, f).annotations = s.annotations
         /\ Stored(s, f).address = s.address
         /\ Stored(s, f).policy = (s.policy /\ s.type # "ClusterIP")
<1>. DEFINE ports == [i \in 1..2 |-> [s.ports[i] EXCEPT !.node = f[i]]]
            policy == s.policy /\ s.type # "ClusterIP"
            t == Stored(s, f)
<1>1. /\ f \in [1..2 -> NodeNumbers \cup {Unassigned}]
      /\ \A i \in 1..2 :
           /\ s.type = "ClusterIP" => f[i] = Unassigned
           /\ s.type # "ClusterIP" => f[i] \in NodeNumbers /\ s.ports[i].node \in {Unassigned, f[i]}
  <2>1. CASE s.type = "ClusterIP"
    BY <2>1 DEF Assignments
  <2>2. CASE s.type # "ClusterIP"
    BY <2>2 DEF Assignments
  <2>. QED BY <2>1, <2>2
<1>2. t = [s EXCEPT !.ports = ports, !.policy = policy]
  <2>1. DOMAIN f = 1..2
    BY <1>1
  <2>. QED BY <2>1 DEF Stored
<1>3. \A i \in 1..2 :
        /\ ports[i] \in Port
        /\ ports[i].name = s.ports[i].name /\ ports[i].target = s.ports[i].target /\ ports[i].node = f[i]
  BY <1>1 DEF Port
<1>4. ports \in [1..2 -> Port]
  BY <1>3
<1>5. policy \in BOOLEAN
  BY ServiceFields
<1>. HIDE DEF ports, policy
<1>6. ports \in Seq(Port) /\ Len(ports) = 2
  BY <1>4, PortsOf
<1>7. /\ t \in Services /\ t.type = s.type /\ t.ports = ports /\ t.annotations = s.annotations
      /\ t.address = s.address /\ t.policy = policy
  <2>. HIDE DEF t
  <2>. QED BY <1>2, <1>5, <1>6, ServiceFields DEF Services, Port
<1>. QED BY <1>1, <1>3, <1>4, <1>6, <1>7 DEF policy

\* Honoured, for the spec p and the Service s.
HonouredBy(p, s) ==
  LET d == DesiredEnvoyService(p)
  IN  /\ s.type = d.type
      /\ Len(s.ports) = 2
      /\ \A i \in 1..2 :
           /\ s.ports[i].name = d.ports[i].name
           /\ s.ports[i].target = d.ports[i].target
           /\ d.ports[i].node \in {Unassigned, s.ports[i].node}
      /\ d.type # "ClusterIP" => s.annotations = d.annotations /\ s.policy = d.policy
      /\ d.type = "LoadBalancer" => s.address = d.address

\* A Service that follows the spec honours it.
LEMMA FollowedHonoured ==
  ASSUME NEW p \in PublishingSpecs, NEW s, Follows(p, s)
  PROVE  HonouredBy(p, s)
<1>. DEFINE d == DesiredEnvoyService(p)
<1>0. d.type = p.type /\ d.policy = (p.type # "ClusterIP") /\ \A i \in 1..2 : d.ports[i] = DesiredPort(p, i)
  BY DesiredFields
<1>1. \A i \in 1..2 : d.ports[i].node \in {Unassigned, s.ports[i].node}
  BY <1>0 DEF Follows, DesiredPort
<1>. HIDE DEF d
<1>2. (p.type # "ClusterIP") => d.policy = TRUE
  BY <1>0
<1>. QED BY <1>0, <1>1, <1>2 DEF Follows, HonouredBy, d

\* And so does what is stored of it.
LEMMA StoredHonoured ==
  ASSUME PublishingAssumption, NEW p \in PublishingSpecs, NEW s, Follows(p, s), NEW f \in Assignments(s)
  PROVE  HonouredBy(p, Stored(s, f))
<1>. DEFINE d == DesiredEnvoyService(p)
            t == Stored(s, f)
<1>0. d.type = p.type /\ d.policy = (p.type # "ClusterIP") /\ \A i \in 1..2 : d.ports[i] = DesiredPort(p, i)
  BY DesiredFields
<1>1. s \in Services /\ s.ports \in [1..2 -> Port] /\ Len(s.ports) = 2
  BY DEF Follows
<1>2. /\ t.type = s.type /\ Len(t.ports) = 2 /\ t.annotations = s.annotations /\ t.address = s.address
      /\ t.policy = (s.policy /\ s.type # "ClusterIP")
      /\ \A i \in 1..2 : /\ t.ports[i].name = s.ports[i].name /\ t.ports[i].target = s.ports[i].target
                         /\ t.ports[i].node = f[i]
                         /\ s.type = "ClusterIP" => f[i] = Unassigned
                         /\ s.type # "ClusterIP" => s.ports[i].node \in {Unassigned, f[i]}
  BY <1>1, StoredFields
<1>. HIDE DEF d, t
<1>3. \A i \in 1..2 : d.ports[i].node \in {Unassigned, t.ports[i].node}
  BY <1>0, <1>2 DEF Follows, DesiredPort
<1>4. p.type # "ClusterIP" => t.policy = d.policy
  BY <1>0, <1>2 DEF Follows
<1>. QED BY <1>0, <1>2, <1>3, <1>4 DEF Follows, HonouredBy, d, t

\* Ports are their names, targets and numbers.
LEMMA SamePorts ==
  ASSUME NEW f \in [1..2 -> Port], NEW g \in [1..2 -> Port],
         \A i \in 1..2 : f[i].name = g[i].name /\ f[i].target = g[i].target /\ f[i].node = g[i].node
  PROVE  f = g
<1>1. \A i \in 1..2 : f[i] = g[i]
  BY DEF Port
<1>. QED BY <1>1

\* The comparison finds nothing to change in what was stored of a Service that follows the
\* spec: the numbers it compares were chosen by the user, and the policy the API server
\* drops is not compared.
LEMMA StoredRests ==
  ASSUME PublishingAssumption, NEW p \in PublishingSpecs, Chosen(p), NEW s, Follows(p, s), NEW f \in Assignments(s)
  PROVE  Updated(p, Stored(s, f)) = Stored(s, f)
<1>. DEFINE d == DesiredEnvoyService(p)
            t == Stored(s, f)
            u == Updated(p, t)
<1>0. /\ d \in Services /\ d.type = p.type /\ d.policy = (p.type # "ClusterIP") /\ Len(d.ports) = 2
      /\ d.ports \in [1..2 -> Port] /\ \A i \in 1..2 : d.ports[i] = DesiredPort(p, i)
      /\ p.type \in {"LoadBalancer", "NodePort", "ClusterIP"}
  BY DesiredFields, SpecTypes
<1>1. s \in Services /\ s.ports \in [1..2 -> Port] /\ Len(s.ports) = 2 /\ s.type = p.type
  BY DEF Follows
<1>2. /\ t \in Services /\ t.ports \in [1..2 -> Port] /\ Len(t.ports) = 2
      /\ t.type = p.type /\ t.annotations = s.annotations /\ t.address = s.address
      /\ t.policy = (s.policy /\ s.type # "ClusterIP")
      /\ \A i \in 1..2 : /\ t.ports[i].name = s.ports[i].name /\ t.ports[i].target = s.ports[i].target
                         /\ t.ports[i].node = f[i]
                         /\ s.type = "ClusterIP" => f[i] = Unassigned
                         /\ s.type # "ClusterIP" => s.ports[i].node \in {Unassigned, f[i]}
  BY <1>1, StoredFields
<1>3. /\ Follows(p, u)
      /\ p.type = "LoadBalancer" => \A i \in 1..2 : u.ports[i].node = t.ports[i].node
  BY <1>2, UpdatedFollows
<1>4. p.type # "LoadBalancer" => \A i \in 1..2 : t.ports[i].node = DesiredPort(p, i).node
  <2>1. CASE p.type = "NodePort"
    <3>1. \A i \in 1..2 : DesiredPort(p, i).node # Unassigned
      BY <2>1, SpecTypes DEF Chosen, DesiredPort
    <3>. HIDE DEF t
    <3>. QED BY <1>1, <1>2, <2>1, <3>1 DEF Follows
  <2>2. CASE p.type = "ClusterIP"
    <3>. HIDE DEF t
    <3>. QED BY <1>1, <1>2, <2>2 DEF DesiredPort
  <2>. QED BY <1>0, <2>1, <2>2
<1>. HIDE DEF t
<1>5. u.ports = t.ports
  <2>. HIDE DEF u
  <2>1. \A i \in 1..2 : u.ports[i].name = t.ports[i].name /\ u.ports[i].target = t.ports[i].target
                        /\ u.ports[i].node = t.ports[i].node
    BY <1>2, <1>3, <1>4 DEF Follows
  <2>. QED BY <1>2, <1>3, <2>1, SamePorts DEF Follows
<1>6. u.annotations = t.annotations /\ u.address = t.address /\ u.policy = t.policy
  <2>1. CASE p.type = "ClusterIP"
    <3>1. u = [t EXCEPT !.ports = d.ports, !.type = d.type]
      BY <2>1 DEF Updated, ClusterIPServiceChanged
    <3>. HIDE DEF u, d
    <3>. QED BY <1>2, <3>1 DEF Services
  <2>2. CASE p.type = "NodePort"
    <3>1. u = [d EXCEPT !.address = t.address]
      BY <2>2 DEF Updated, NodePortServiceChanged
    <3>2. u.address = t.address
      <4>. HIDE DEF u, d
      <4>. QED BY <1>0, <3>1 DEF Services
    <3>. HIDE DEF u
    <3>. QED BY <1>1, <1>2, <1>3, <2>2, <3>2 DEF Follows
  <2>3. CASE p.type = "LoadBalancer"
    <3>. HIDE DEF u
    <3>. QED BY <1>1, <1>2, <1>3, <2>3 DEF Follows
  <2>. QED BY <1>0, <2>1, <2>2, <2>3
<1>. HIDE DEF u
<1>7. u \in Services /\ u.type = t.type
  BY <1>2, <1>3 DEF Follows
<1>8. u = t
  BY <1>2, <1>5, <1>6, <1>7, SameService
<1>. QED BY <1>8 DEF u, t

----------------------------------------------------------------------------
(* The types. *)

\* There is a Service or none.
SvcOK == svc = << >> \/ \E s \in Services : svc = << s >>

\* The types, with SvcOK for Len(svc) = 1.
PlaneInv ==
  /\ publishing \in Publishings
  /\ SvcOK
  /\ outcome \in {"pending", "ensured", "rejected", "invalid", "panicked"}
  /\ disturbances \in 0..MaxDisturbances
  /\ deployment \in Templates(Flags) /\ daemonSet \in Templates(Flags) /\ running \in Templates(Flags)
  /\ partial \in BOOLEAN
  /\ left \in [{"edits", "faults"} -> Nat]

\* PlaneInv is PlaneTypeOK.
LEMMA InvTypes ==
  ASSUME PlaneInv
  PROVE  PlaneTypeOK
BY DEF PlaneInv, SvcOK, PlaneTypeOK, EnvoyTypeOK, Current

\* The types hold at first.
LEMMA InitPlaneInv == PlaneInit => PlaneInv
<1>. SUFFICES ASSUME PlaneInit PROVE PlaneInv
  OBVIOUS
<1>1. << >> \in Templates(Flags)
  BY DEF Templates
<1>2. left \in [{"edits", "faults"} -> Nat]
  BY DataPlaneAssumption DEF PlaneInit
<1>3. 0 \in 0..MaxDisturbances
  BY PublishingAssumption
<1>. QED BY <1>1, <1>2, <1>3 DEF PlaneInit, Init, PlaneInv, SvcOK

\* Every port of s has a number, if its type has numbers.
Assigned(s) == s.type # "ClusterIP" => \A i \in DOMAIN s.ports : s.ports[i].node # Unassigned

----------------------------------------------------------------------------
(* What a pass does to the Service. *)

\* What is stored of a Service that follows the spec honours it, is at rest and has
\* numbers.
LEMMA StoreEffect ==
  ASSUME PublishingAssumption, publishing \in Publishings, NEW s, Follows(publishing, s), Store(s)
  PROVE  \E t \in Services :
           /\ svc' = << t >> /\ HonouredBy(publishing, t) /\ Assigned(t)
           /\ Chosen(publishing) => Updated(publishing, t) = t
           /\ t.type # "ClusterIP" => \A i \in 1..2 : s.ports[i].node \in {Unassigned, t.ports[i].node}
<1>. PICK f \in Assignments(s) : svc' = << Stored(s, f) >>
  BY DEF Store
<1>. DEFINE t == Stored(s, f)
<1>0. publishing \in PublishingSpecs
  BY DEF PublishingAssumption
<1>1. s \in Services /\ s.ports \in [1..2 -> Port] /\ Len(s.ports) = 2
  BY DEF Follows
<1>2. /\ t \in Services /\ t.ports \in [1..2 -> Port] /\ t.type = s.type
      /\ \A i \in 1..2 :
           /\ t.ports[i].node = f[i]
           /\ s.type # "ClusterIP" => f[i] \in NodeNumbers /\ s.ports[i].node \in {Unassigned, f[i]}
  BY <1>1, StoredFields
<1>3. HonouredBy(publishing, t) /\ (Chosen(publishing) => Updated(publishing, t) = t)
  BY <1>0, StoredHonoured, StoredRests
<1>. HIDE DEF t
<1>4. Assigned(t)
  <2>1. DOMAIN t.ports = 1..2
    BY <1>2
  <2>2. Unassigned \notin NodeNumbers
    BY DEF PublishingAssumption
  <2>. QED BY <1>2, <2>1, <2>2 DEF Assigned
<1>5. svc' = << t >>
  BY DEF t
<1>. QED BY <1>2, <1>3, <1>4, <1>5

\* The Service that is there is as the pass wants it: the pass found it so, or had it
\* stored, and then a load balancer keeps its numbers.
ServiceWritten ==
  /\ Valid(publishing) /\ UNCHANGED << publishing, disturbances >>
  /\ \E t \in Services :
       /\ svc' = << t >> /\ HonouredBy(publishing, t)
       /\ Chosen(publishing) => Updated(publishing, t) = t
       /\ \/ /\ Assigned(t)
             /\ svc # << >> /\ Len(Current.ports) = 2 /\ publishing.type = "LoadBalancer" =>
                  \A i \in 1..2 : Current.ports[i].node \in {Unassigned, t.ports[i].node}
          \/ UNCHANGED svc

\* A Service that is created where there was none is of that kind.
LEMMA CreatedWritten ==
  ASSUME PublishingAssumption, publishing \in Publishings, Valid(publishing), svc = << >>,
         UNCHANGED << publishing, disturbances >>, Store(DesiredEnvoyService(publishing))
  PROVE  ServiceWritten
<1>1. Follows(publishing, DesiredEnvoyService(publishing))
  BY DesiredFollows DEF PublishingAssumption
<1>. QED BY <1>1, StoreEffect DEF ServiceWritten

\* And so is one that is written over.
LEMMA UpdatedWritten ==
  ASSUME PublishingAssumption, publishing \in Publishings, Valid(publishing), SvcOK, svc # << >>,
         UNCHANGED << publishing, disturbances >>, Store(Updated(publishing, Current))
  PROVE  ServiceWritten
<1>. DEFINE u == Updated(publishing, Current)
<1>0. publishing \in PublishingSpecs
  BY DEF PublishingAssumption
<1>1. PICK c \in Services : svc = << c >>
  BY DEF SvcOK
<1>2. Current = c
  BY <1>1 DEF Current
<1>3. /\ Follows(publishing, u)
      /\ publishing.type = "LoadBalancer" /\ Len(c.ports) = 2 =>
           \A i \in 1..2 : u.ports[i].node = c.ports[i].node
  BY <1>0, <1>2, UpdatedFollows
<1>. HIDE DEF u
<1>4. PICK t \in Services :
        /\ svc' = << t >> /\ HonouredBy(publishing, t) /\ Assigned(t)
        /\ Chosen(publishing) => Updated(publishing, t) = t
        /\ t.type # "ClusterIP" => \A i \in 1..2 : u.ports[i].node \in {Unassigned, t.ports[i].node}
  BY <1>3, StoreEffect DEF u
<1>5. t.type = publishing.type
  BY <1>0, <1>4, DesiredFields DEF HonouredBy
<1>6. Len(Current.ports) = 2 /\ publishing.type = "LoadBalancer" =>
        \A i \in 1..2 : Current.ports[i].node \in {Unassigned, t.ports[i].node}
  BY <1>2, <1>3, <1>4, <1>5
<1>. QED BY <1>4, <1>6 DEF ServiceWritten

\* A pass ensures the Service, or leaves it as it was.
LEMMA EnsureServiceEffect ==
  ASSUME PublishingAssumption, publishing \in Publishings, SvcOK, EnsureService
  PROVE  \/ ServiceWritten /\ outcome' = "ensured"
         \/ outcome' \in {"rejected", "panicked"} /\ UNCHANGED << publishing, svc, disturbances >>
<1>1. CASE CreateService
  <2>1. /\ Write(DesiredEnvoyService(publishing)) /\ Valid(publishing) /\ svc = << >>
        /\ UNCHANGED << publishing, disturbances >>
    BY <1>1 DEF CreateService
  <2>. QED BY <2>1, CreatedWritten DEF Write
<1>2. CASE UpdateEnvoyServiceIfNeeded
  <2>. DEFINE u == Updated(publishing, Current)
  <2>1. /\ Valid(publishing) /\ svc # << >> /\ UNCHANGED << publishing, disturbances >>
        /\ IF u = Current THEN outcome' = "ensured" /\ UNCHANGED svc ELSE Write(u)
    BY <1>2 DEF UpdateEnvoyServiceIfNeeded
  <2>2. CASE u = Current
    <3>1. PICK c \in Services : svc = << c >> /\ Current = c
      BY <2>1 DEF SvcOK, Current
    <3>2. Follows(publishing, u) /\ publishing \in PublishingSpecs
      BY <3>1, UpdatedFollows DEF PublishingAssumption
    <3>3. HonouredBy(publishing, c) /\ Updated(publishing, c) = c
      BY <2>2, <3>1, <3>2, FollowedHonoured
    <3>. HIDE DEF u
    <3>. QED BY <2>1, <2>2, <3>1, <3>3 DEF ServiceWritten
  <2>3. CASE u # Current
    BY <2>1, <2>3, UpdatedWritten DEF Write
  <2>. QED BY <2>2, <2>3
<1>3. CASE Panic
  BY <1>3 DEF Panic
<1>. QED BY <1>1, <1>2, <1>3 DEF EnsureService

\* A pass whose request for the Service fails has had it stored, or leaves it as it was.
LEMMA FailServiceEffect ==
  ASSUME PublishingAssumption, publishing \in Publishings, Valid(publishing), SvcOK, FailService
  PROVE  outcome' = "rejected" /\ UNCHANGED << publishing, disturbances >>
         /\ (ServiceWritten \/ UNCHANGED svc)
<1>1. outcome' = "rejected" /\ UNCHANGED << publishing, disturbances >>
  BY DEF FailService
<1>2. \/ UNCHANGED svc
      \/ svc = << >> /\ Store(DesiredEnvoyService(publishing))
      \/ svc # << >> /\ Store(Updated(publishing, Current))
  BY DEF FailService
<1>. QED BY <1>1, <1>2, CreatedWritten, UpdatedWritten

----------------------------------------------------------------------------
(* What the other steps do. *)

\* The pod templates.
LEMMA TemplateTypes ==
  ASSUME NEW p \in PublishingSpecs
  PROVE  /\ DesiredFlags(p) \in SUBSET Flags /\ DesiredPorts(p) \in SUBSET Flags
         /\ \A s \in SUBSET Flags, x \in Templates(Flags) : Ensure(x, s) = << s >>
         /\ \A s \in SUBSET Flags : << s >> \in Templates(Flags)
<1>1. p.target \in [PortNames -> TargetNumbers]
  BY SpecTypes
<1>2. DesiredFlags(p) \in SUBSET Flags /\ DesiredPorts(p) \in SUBSET Flags
  BY <1>1 DEF DesiredFlags, DesiredPorts, Flags
<1>3. ASSUME NEW s \in SUBSET Flags, NEW x \in Templates(Flags)
      PROVE  Ensure(x, s) = << s >>
  <2>1. x # << >> => \E y \in SUBSET Flags : x = << y >>
    BY DEF Templates
  <2>. QED BY <2>1 DEF Ensure, Differs
<1>. QED BY <1>2, <1>3 DEF Templates

\* Somebody else leaves a Service, with numbers, or none.
LEMMA DisturbTypes ==
  ASSUME PublishingAssumption, PlaneInv, Disturb
  PROVE  /\ SvcOK' /\ disturbances' \in 0..MaxDisturbances /\ disturbances' # disturbances
         /\ publishing' = publishing /\ outcome' = "pending"
         /\ (svc # << >> => Assigned(Current)) => (svc' # << >> => Assigned(Current'))
<1>1. PICK c \in Services : svc = << c >>
  BY DEF Disturb, PlaneInv, SvcOK
<1>2. /\ Current = c
      /\ c.ports \in Seq(Port) /\ Len(c.ports) \in Nat /\ c.ports \in [1..Len(c.ports) -> Port]
      /\ DOMAIN c.ports = 1..Len(c.ports)
  <2>1. c.ports \in Seq(Port)
    BY ServiceFields
  <2>. QED BY <1>1, <2>1, PortsAre DEF Current
<1>3. TargetNumbers # {}
  BY SpecTypes DEF PlaneInv, PublishingAssumption, PortNames
<1>4. ASSUME NEW ports \in Seq(Port)
      PROVE  [c EXCEPT !.ports = ports] \in Services /\ [c EXCEPT !.ports = ports].ports = ports
             /\ [c EXCEPT !.ports = ports].type = c.type
  BY ServiceFields DEF Services, Port
<1>5. ASSUME NEW d \in Services, svc' = << d >>, Assigned(c) => Assigned(d)
      PROVE  SvcOK' /\ ((svc # << >> => Assigned(Current)) => (svc' # << >> => Assigned(Current')))
  BY <1>1, <1>2, <1>5 DEF SvcOK, Current
<1>6. CASE svc' = << >>
  BY <1>6 DEF SvcOK, Disturb, PlaneInv
<1>7. ASSUME NEW n \in NodeNumbers \ { c.ports[i].node : i \in DOMAIN c.ports },
             svc' = << [c EXCEPT !.ports =
                      Append(@, [ name   |-> "other",
                                  target |-> CHOOSE t \in TargetNumbers : TRUE,
                                  node   |-> IF c.type = "ClusterIP" THEN Unassigned ELSE n ])] >>
      PROVE  \E d \in Services : svc' = << d >> /\ (Assigned(c) => Assigned(d))
  <2>. DEFINE port == [ name   |-> "other",
                        target |-> CHOOSE t \in TargetNumbers : TRUE,
                        node   |-> IF c.type = "ClusterIP" THEN Unassigned ELSE n ]
              ports == Append(c.ports, port)
              d == [c EXCEPT !.ports = ports]
  <2>1. port \in Port
    BY <1>3 DEF Port
  <2>2. port.node = IF c.type = "ClusterIP" THEN Unassigned ELSE n
    OBVIOUS
  <2>. HIDE DEF port
  <2>3. /\ ports \in Seq(Port) /\ Len(ports) = Len(c.ports) + 1 /\ DOMAIN ports = 1..(Len(c.ports) + 1)
        /\ \A i \in 1..Len(c.ports) : ports[i] = c.ports[i]
        /\ ports[Len(c.ports) + 1] = port
    BY <1>2, <2>1
  <2>. HIDE DEF ports
  <2>4. d \in Services /\ d.ports = ports /\ d.type = c.type
    BY <1>4, <2>3
  <2>5. svc' = << d >>
    BY <1>7 DEF ports, port
  <2>. HIDE DEF d
  <2>6. ASSUME Assigned(c), c.type # "ClusterIP", NEW i \in 1..(Len(c.ports) + 1)
        PROVE  ports[i].node # Unassigned
    <3>1. CASE i = Len(c.ports) + 1
      BY <2>2, <2>3, <2>6, <3>1 DEF PublishingAssumption
    <3>2. CASE i # Len(c.ports) + 1
      <4>1. i \in 1..Len(c.ports)
        BY <1>2, <3>2
      <4>. QED BY <1>2, <2>3, <2>6, <4>1 DEF Assigned
    <3>. QED BY <3>1, <3>2
  <2>7. Assigned(c) => Assigned(d)
    BY <2>3, <2>4, <2>6 DEF Assigned
  <2>. QED BY <2>4, <2>5, <2>7
<1>8. ASSUME NEW t \in TargetNumbers,
             svc' = << [c EXCEPT !.ports = [ i \in DOMAIN @ |-> [@[i] EXCEPT !.target = t] ]] >>
      PROVE  \E d \in Services : svc' = << d >> /\ (Assigned(c) => Assigned(d))
  <2>. DEFINE ports == [ i \in 1..Len(c.ports) |-> [c.ports[i] EXCEPT !.target = t] ]
              d == [c EXCEPT !.ports = ports]
  <2>1. \A i \in 1..Len(c.ports) : ports[i] \in Port /\ ports[i].node = c.ports[i].node
    BY <1>2 DEF Port
  <2>2. ports \in [1..Len(c.ports) -> Port] /\ DOMAIN ports = 1..Len(c.ports)
    BY <2>1
  <2>3. svc' = << d >>
    BY <1>2, <1>8
  <2>. HIDE DEF ports
  <2>4. ports \in Seq(Port)
    BY <1>2, <2>2, PortsOf
  <2>5. d \in Services /\ d.ports = ports /\ d.type = c.type
    BY <1>4, <2>4
  <2>. HIDE DEF d
  <2>6. Assigned(c) => Assigned(d)
    BY <1>2, <2>1, <2>2, <2>5 DEF Assigned
  <2>. QED BY <2>3, <2>5, <2>6
<1>9. ASSUME svc' = << [c EXCEPT !.annotations = {}] >>
      PROVE  \E d \in Services : svc' = << d >> /\ (Assigned(c) => Assigned(d))
  <2>. DEFINE d == [c EXCEPT !.annotations = {}]
  <2>1. d \in Services /\ d.ports = c.ports /\ d.type = c.type
    BY ServiceFields DEF Services, Port
  <2>2. svc' = << d >>
    BY <1>9
  <2>. HIDE DEF d
  <2>. QED BY <2>1, <2>2 DEF Assigned
<1>10. SvcOK' /\ ((svc # << >> => Assigned(Current)) => (svc' # << >> => Assigned(Current')))
  <2>1. \/ svc' = << >>
        \/ \E d \in Services : svc' = << d >> /\ (Assigned(c) => Assigned(d))
    BY <1>2, <1>7, <1>8, <1>9 DEF Disturb
  <2>. QED BY <1>5, <1>6, <2>1
<1>. QED BY <1>10 DEF Disturb, PlaneInv, PublishingAssumption

\* The Service has numbers.
AssignedOK == svc # << >> => Assigned(Current)

\* The templates are as the spec wants them after a pass that did not fail over them.
TemplatesOK ==
  outcome = "ensured" /\ ~partial =>
    /\ Valid(publishing)
    /\ deployment = << DesiredFlags(publishing) >> /\ daemonSet = << DesiredPorts(publishing) >>

\* What a pass does to the three objects.
LEMMA PassEffect ==
  ASSUME PublishingAssumption, PlaneInv,
         NEW failing \in SUBSET {"deployment", "daemonSet", "envoyService"}, EnsureWorkloads(failing)
  PROVE  /\ deployment' \in Templates(Flags) /\ daemonSet' \in Templates(Flags)
         /\ UNCHANGED << publishing, disturbances, running >> /\ Valid(publishing)
         /\ partial' \in BOOLEAN /\ left' \in [{"edits", "faults"} -> Nat]
         /\ outcome' \in {"ensured", "rejected", "panicked"} /\ (outcome' = "ensured" => ServiceWritten)
         /\ ServiceWritten \/ UNCHANGED svc
         /\ ~partial' => /\ deployment' = << DesiredFlags(publishing) >>
                         /\ daemonSet' = << DesiredPorts(publishing) >>
<1>0. publishing \in PublishingSpecs
  BY DEF PlaneInv, PublishingAssumption
<1>. DEFINE flags == Ensure(deployment, DesiredFlags(publishing))
            ports == Ensure(daemonSet, DesiredPorts(publishing))
<1>1. /\ flags = << DesiredFlags(publishing) >> /\ ports = << DesiredPorts(publishing) >>
      /\ flags \in Templates(Flags) /\ ports \in Templates(Flags)
  BY <1>0, TemplateTypes DEF PlaneInv
<1>. HIDE DEF flags, ports
<1>2. /\ deployment' \in {flags} \cup (IF "deployment" \in failing THEN {deployment} ELSE {})
      /\ daemonSet' \in {ports} \cup (IF "daemonSet" \in failing THEN {daemonSet} ELSE {})
      /\ partial' = (failing \cap {"deployment", "daemonSet"} # {})
      /\ UNCHANGED running /\ Valid(publishing)
  BY DEF EnsureWorkloads, flags, ports
<1>3. left' \in [{"edits", "faults"} -> Nat]
  BY DEF EnsureWorkloads, Spend, PlaneInv
<1>4. /\ UNCHANGED << publishing, disturbances >>
      /\ outcome' \in {"ensured", "rejected", "panicked"} /\ (outcome' = "ensured" => ServiceWritten)
      /\ ServiceWritten \/ UNCHANGED svc
  <2>1. CASE "envoyService" \in failing
    BY <1>2, <2>1, FailServiceEffect DEF EnsureWorkloads, PlaneInv
  <2>2. CASE "envoyService" \notin failing
    <3>1. EnsureService
      BY <2>2 DEF EnsureWorkloads
    <3>. QED BY <3>1, EnsureServiceEffect DEF PlaneInv, ServiceWritten
  <2>. QED BY <2>1, <2>2
<1>. QED BY <1>1, <1>2, <1>3, <1>4 DEF PlaneInv

\* A step is none of a pass and touches nothing a pass is about, is a pass, or ends the
\* time for which the outcome of the last pass counts.
LEMMA PlaneKinds ==
  ASSUME PublishingAssumption, PlaneInv, [PlaneNext]_allVars
  PROVE  \/ UNCHANGED << publishing, svc, outcome, disturbances, deployment, daemonSet, partial >>
         \/ \E failing \in SUBSET {"deployment", "daemonSet", "envoyService"} : EnsureWorkloads(failing)
         \/ outcome' # "ensured" /\ UNCHANGED svc
         \/ outcome' # "ensured" /\ Disturb
<1>1. TurnSpecAway => outcome' # "ensured" /\ UNCHANGED svc
  BY DEF TurnSpecAway, TurnAway
<1>2. EditSpec => outcome' # "ensured" /\ UNCHANGED svc
  BY DEF EditSpec, Publish
<1>3. RollContour => UNCHANGED << publishing, svc, outcome, disturbances, deployment, daemonSet, partial >>
  BY DEF RollContour, vars
<1>4. DisturbPlane => outcome' # "ensured" /\ (UNCHANGED svc \/ Disturb)
  BY DEF DisturbPlane, Disturb
<1>. QED BY <1>1, <1>2, <1>3, <1>4 DEF PlaneNext, allVars, vars, planeVars

----------------------------------------------------------------------------
(* The inductive invariant of the types. *)

\* Every step keeps the types.
LEMMA NextPlaneInv ==
  ASSUME PublishingAssumption, PlaneInv, [PlaneNext]_allVars
  PROVE  PlaneInv'
<1>1. ASSUME NEW failing \in SUBSET {"deployment", "daemonSet", "envoyService"}, EnsureWorkloads(failing)
      PROVE  PlaneInv'
  <2>1. ServiceWritten => SvcOK'
    BY DEF ServiceWritten, SvcOK
  <2>. QED BY <1>1, <2>1, PassEffect DEF PlaneInv, SvcOK
<1>2. CASE TurnSpecAway
  BY <1>2 DEF TurnSpecAway, TurnAway, planeVars, PlaneInv, SvcOK
<1>3. CASE EditSpec
  BY <1>3 DEF EditSpec, Publish, Spend, PlaneInv, SvcOK
<1>4. CASE RollContour
  BY <1>4 DEF RollContour, vars, PlaneInv, SvcOK
<1>5. CASE DisturbPlane
  <2>1. CASE Disturb /\ UNCHANGED planeVars
    BY <2>1, DisturbTypes DEF planeVars, PlaneInv
  <2>2. CASE ~(Disturb /\ UNCHANGED planeVars)
    <3>1. << >> \in Templates(Flags) /\ << {} >> \in Templates(Flags)
      BY DEF Templates
    <3>2. /\ deployment' \in Templates(Flags) /\ daemonSet' \in Templates(Flags)
          /\ running' \in Templates(Flags)
      BY <1>5, <2>2, <3>1 DEF DisturbPlane, PlaneInv
    <3>3. disturbances' \in 0..MaxDisturbances
      BY <1>5, <2>2 DEF DisturbPlane, PlaneInv, PublishingAssumption
    <3>. QED BY <1>5, <2>2, <3>2, <3>3 DEF DisturbPlane, PlaneInv, SvcOK
  <2>. QED BY <2>1, <2>2
<1>6. CASE UNCHANGED allVars
  BY <1>6 DEF allVars, vars, planeVars, PlaneInv, SvcOK
<1>. QED BY <1>1, <1>2, <1>3, <1>4, <1>5, <1>6 DEF PlaneNext

\* PlaneInv is an invariant.
LEMMA PlaneInvariance == PlaneSpec => []PlaneInv
BY PublishingAssumption, InitPlaneInv, NextPlaneInv, PTL DEF PlaneSpec

\* The Service, the two templates and the flags of the running Contour keep their types,
\* whatever users, failing requests and others do to them.
THEOREM PlaneTypeCorrectness == PlaneSpec => []PlaneTypeOK
BY PlaneInvariance, InvTypes, PTL

----------------------------------------------------------------------------
(* The Service. *)

\* Since a pass without an error the Service is there, honours the spec and is at rest.
Serves == outcome = "ensured" =>
  /\ svc # << >> /\ HonouredBy(publishing, Current)
  /\ Chosen(publishing) => Updated(publishing, Current) = Current

\* Every step keeps that.
LEMMA NextServes ==
  ASSUME PublishingAssumption, PlaneInv, Serves, [PlaneNext]_allVars
  PROVE  Serves'
<1>1. ASSUME ServiceWritten
      PROVE  Serves'
  BY <1>1 DEF ServiceWritten, Serves, Current, HonouredBy, Chosen
<1>2. CASE UNCHANGED << publishing, svc, outcome >>
  BY <1>2 DEF Serves, Current, HonouredBy, Chosen
<1>. QED BY <1>1, <1>2, PassEffect, PlaneKinds DEF Serves

\* Serves is an invariant.
LEMMA ServesInvariance == PlaneSpec => []Serves
<1>1. PlaneInit => Serves
  BY DEF PlaneInit, Init, Serves
<1>. QED BY <1>1, PublishingAssumption, PlaneInvariance, NextServes, PTL DEF PlaneSpec

\* A pass that reports success leaves a Service of the wanted type with the wanted targets,
\* and, where the type calls for them, annotations, policy, address and specified node
\* ports, from whatever Service was there before and whoever had changed it
\* (updateEnvoyServiceIfNeeded, service.go:392), although each of the three comparisons
\* looks at other fields.
THEOREM HonouredCorrectness == PlaneSpec => []Honoured
<1>1. Serves => Honoured
  BY DEF Serves, HonouredBy, Honoured, Ensured, Wanted
<1>. QED BY <1>1, ServesInvariance, PTL

\* What the API server made of the last write gives the next pass nothing to do
\* (LoadBalancerServiceChanged, NodePortServiceChanged and ClusterIPServiceChanged are
\* blind to what it fills in), so the operator does not write the Service for ever.
THEOREM RestCorrectness == PlaneSpec => []AtRest
<1>1. Serves => AtRest
  BY DEF Serves, AtRest, Ensured
<1>. QED BY <1>1, ServesInvariance, PTL

----------------------------------------------------------------------------
(* The way of a request. *)

\* The templates are as wanted until somebody changes them or the spec, which ends the
\* pass's claim; a rollout only reads them.
LEMMA NextTemplatesOK ==
  ASSUME PublishingAssumption, PlaneInv, TemplatesOK, [PlaneNext]_allVars
  PROVE  TemplatesOK'
<1>1. ASSUME NEW failing \in SUBSET {"deployment", "daemonSet", "envoyService"}, EnsureWorkloads(failing)
      PROVE  TemplatesOK'
  <2>1. UNCHANGED publishing /\ Valid(publishing)
        /\ (~partial' => /\ deployment' = << DesiredFlags(publishing) >>
                         /\ daemonSet' = << DesiredPorts(publishing) >>)
    BY <1>1, PassEffect
  <2>2. Valid(publishing)' /\ DesiredFlags(publishing)' = DesiredFlags(publishing)
        /\ DesiredPorts(publishing)' = DesiredPorts(publishing)
    BY <2>1 DEF Valid, ContainerPorts, NodePorts, SamePointer, LoadBalancerAddress,
                LoadBalancerAddressNeeded, LoadBalancerProvider, DesiredFlags, DesiredPorts
  <2>. QED BY <2>1, <2>2 DEF TemplatesOK
<1>2. CASE UNCHANGED << publishing, outcome, deployment, daemonSet, partial >>
  <2>1. Valid(publishing)' = Valid(publishing) /\ DesiredFlags(publishing)' = DesiredFlags(publishing)
        /\ DesiredPorts(publishing)' = DesiredPorts(publishing)
    BY <1>2 DEF Valid, ContainerPorts, NodePorts, SamePointer, LoadBalancerAddress,
                LoadBalancerAddressNeeded, LoadBalancerProvider, DesiredFlags, DesiredPorts
  <2>. QED BY <1>2, <2>1 DEF TemplatesOK
<1>. QED BY <1>1, <1>2, PlaneKinds DEF TemplatesOK

\* With the flags that are wanted Contour makes Envoy listen on the port the spec gives: a
\* flag where it is not the default, and none where it is.
LEMMA FlagsServe ==
  ASSUME DataPlaneAssumption, NEW p \in PublishingSpecs, NEW n \in PortNames
  PROVE  ListenerPort(DesiredFlags(p), n) = p.target[n]
<1>1. \A t : << n, t >> \in DesiredFlags(p) <=> t = p.target[n] /\ p.target[n] # DefaultPorts[n]
  BY DEF DesiredFlags
<1>2. p.target[n] \in TargetNumbers
  BY SpecTypes
<1>3. CASE p.target[n] = DefaultPorts[n]
  BY <1>1, <1>3 DEF ListenerPort
<1>4. CASE p.target[n] # DefaultPorts[n]
  BY <1>1, <1>2, <1>4 DEF ListenerPort
<1>. QED BY <1>3, <1>4

\* So the three objects agree.
LEMMA PathsMeet ==
  ASSUME PublishingAssumption, DataPlaneAssumption, PlaneInv, Serves, TemplatesOK
  PROVE  PathsAgree
<1>. SUFFICES ASSUME outcome = "ensured", ~partial
              PROVE  /\ \A n \in PortNames :
                          /\ Served(deployment[1], n)
                          /\ << n, ListenerPort(deployment[1], n) >> \in daemonSet[1]
                     /\ ListenerPort(deployment[1], "http") # ListenerPort(deployment[1], "https")
  BY DEF PathsAgree, Ensured
<1>0. publishing \in PublishingSpecs
  BY DEF PlaneInv, PublishingAssumption
<1>1. /\ Valid(publishing)
      /\ deployment[1] = DesiredFlags(publishing) /\ daemonSet[1] = DesiredPorts(publishing)
  BY DEF TemplatesOK
<1>2. ASSUME NEW n \in PortNames
      PROVE  ListenerPort(deployment[1], n) = publishing.target[n]
  BY <1>0, <1>1, FlagsServe
<1>3. ASSUME NEW n \in PortNames
      PROVE  Served(deployment[1], n)
  <2>1. PICK i \in 1..2 : publishing.order[i] = n
    BY <1>0, SpecTypes
  <2>2. DesiredEnvoyService(publishing).ports[i] = DesiredPort(publishing, i)
    BY <1>0, DesiredFields
  <2>3. /\ Current.ports[i].name = DesiredPort(publishing, i).name
        /\ Current.ports[i].target = DesiredPort(publishing, i).target
        /\ Len(Current.ports) = 2
    BY <2>2 DEF Serves, HonouredBy
  <2>4. i \in DOMAIN Current.ports
    <3>1. svc # << >> => Current \in Services
      BY DEF PlaneInv, SvcOK, Current
    <3>2. svc # << >>
      BY DEF Serves
    <3>. QED BY <2>3, <3>1, <3>2, ServiceFields, PortsAre
  <2>. QED BY <1>2, <2>1, <2>3, <2>4 DEF Served, DesiredPort
<1>4. ASSUME NEW n \in PortNames
      PROVE  << n, ListenerPort(deployment[1], n) >> \in daemonSet[1]
  BY <1>1, <1>2 DEF DesiredPorts
<1>5. ListenerPort(deployment[1], "http") # ListenerPort(deployment[1], "https")
  BY <1>1, <1>2 DEF Valid, ContainerPorts, PortNames
<1>. QED BY <1>3, <1>4, <1>5

\* A pass without errors leaves a Service, a DaemonSet and a Deployment that agree on each
\* port, and no two listeners on one (deployment.go:127), for every order of the ports and
\* every default, and whichever of the objects an earlier pass failed over.
THEOREM PathsCorrectness == PlaneSpec => []PathsAgree
<1>1. PlaneInit => TemplatesOK
  BY DEF PlaneInit, Init, TemplatesOK
<1>. QED BY <1>1, PublishingAssumption, DataPlaneAssumption, PlaneInvariance, ServesInvariance,
            NextTemplatesOK, PathsMeet, PTL DEF PlaneSpec

----------------------------------------------------------------------------
(* Node ports. *)

\* Once stored a Service has numbers: nobody but the API server gives and takes them.
LEMMA NextAssignedOK ==
  ASSUME PublishingAssumption, PlaneInv, AssignedOK, [PlaneNext]_allVars
  PROVE  AssignedOK'
<1>1. ASSUME ServiceWritten
      PROVE  AssignedOK'
  BY <1>1 DEF ServiceWritten, AssignedOK, Current
<1>2. CASE UNCHANGED svc
  BY <1>2 DEF AssignedOK, Current
<1>3. CASE Disturb
  BY <1>3, DisturbTypes DEF AssignedOK
<1>. QED BY <1>1, <1>2, <1>3, PassEffect, PlaneKinds

\* A pass does not change the node ports of a load balancer, which are "not compared since
\* they are dynamically assigned" (equality.go:168): an update sends them back as they
\* are, and the API server keeps what it is sent.
THEOREM NodePortsCorrectness == PlaneSpec => NodePortsKept
<1>1. PlaneInit => AssignedOK
  BY DEF PlaneInit, Init, AssignedOK
<1>2. PlaneSpec => []AssignedOK
  BY <1>1, PublishingAssumption, PlaneInvariance, NextAssignedOK, PTL DEF PlaneSpec
<1>3. PlaneInv /\ AssignedOK /\ [PlaneNext]_allVars =>
        [ /\ svc # << >> /\ svc' # << >> /\ disturbances' = disturbances
          /\ Current.type = "LoadBalancer" /\ Current'.type = "LoadBalancer"
          /\ Len(Current.ports) = Len(Current'.ports)
          => \A i \in DOMAIN Current.ports : Current'.ports[i].node = Current.ports[i].node ]_vars
  <2>. SUFFICES ASSUME PlaneInv, AssignedOK, [PlaneNext]_allVars, svc # << >>, ~UNCHANGED svc,
                       disturbances' = disturbances,
                       Current.type = "LoadBalancer", Current'.type = "LoadBalancer",
                       Len(Current.ports) = Len(Current'.ports), NEW i \in DOMAIN Current.ports
                PROVE  Current'.ports[i].node = Current.ports[i].node
    BY DEF Current
  <2>1. ~Disturb
    BY DisturbTypes, PublishingAssumption
  <2>2. ServiceWritten
    BY <2>1, PublishingAssumption, PassEffect, PlaneKinds
  <2>3. PICK t \in Services :
          /\ svc' = << t >> /\ HonouredBy(publishing, t)
          /\ Len(Current.ports) = 2 /\ publishing.type = "LoadBalancer" =>
                \A j \in 1..2 : Current.ports[j].node \in {Unassigned, t.ports[j].node}
    BY <2>2 DEF ServiceWritten
  <2>4. Current' = t
    BY <2>3 DEF Current
  <2>5. Len(t.ports) = 2 /\ publishing.type = "LoadBalancer"
    BY <2>3, <2>4, DesiredFields, PublishingAssumption DEF HonouredBy, PlaneInv
  <2>6. i \in 1..2
    <3>1. Current \in Services
      BY DEF PlaneInv, SvcOK, Current
    <3>2. DOMAIN Current.ports = 1..Len(Current.ports)
      BY <3>1, ServiceFields, PortsAre
    <3>. QED BY <2>4, <2>5, <3>2
  <2>7. Current.ports[i].node # Unassigned
    BY DEF AssignedOK, Assigned
  <2>. QED BY <2>3, <2>4, <2>5, <2>6, <2>7
<1>. QED BY <1>2, <1>3, PlaneInvariance, PTL DEF PlaneSpec, NodePortsKept
===============================================================================
