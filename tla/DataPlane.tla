------------------------------- MODULE DataPlane -------------------------------
(***************************************************************************)
(* The way of a request through what the operator deploys.  One spec goes  *)
(* into three objects: the Envoy Service gets the container ports as its   *)
(* targets, the DaemonSet declares them, and Contour, which tells Envoy    *)
(* where to listen, gets a flag for each port that is not Contour's own    *)
(* default.  A pass writes the objects one after the other and goes on     *)
(* when one of them fails, and Contour's pods follow their Deployment      *)
(* later.  This module adds the Deployment, the DaemonSet and the running  *)
(* Contour to EnvoyService.                                                *)
(***************************************************************************)
EXTENDS EnvoyService

CONSTANTS
  DefaultPorts,  \* the ports Contour makes Envoy listen on without a flag
  MaxEdits,      \* how often users change the spec
  MaxFaults      \* how many passes have failing requests

ASSUME DataPlaneAssumption ==
  /\ DefaultPorts \in [PortNames -> TargetNumbers]
  /\ MaxEdits \in Nat /\ MaxFaults \in Nat

VARIABLES
  deployment,  \* the flags in the pod template: empty, or a sequence that holds their set
  daemonSet,   \* the ports in the other template, likewise
  running,     \* the flags the running Contour was started with, likewise
  partial,     \* whether a request for the Deployment or the DaemonSet failed last time
  left         \* what is left of the bounds

planeVars == << deployment, daemonSet, running, partial, left >>
allVars == << vars, planeVars >>

Flags == PortNames \X TargetNumbers

----------------------------------------------------------------------------
(* The two templates. *)

\* A bug: both ports are compared with the default of http.
FlagsByInsecureDefault(p) ==
  { << n, p.target[n] >> : n \in { m \in PortNames : p.target[m] # DefaultPorts["http"] } }

\* "Pass the insecure/secure flags to Contour if using non-default ports."
DesiredFlags(p) ==
  { << n, p.target[n] >> : n \in { m \in PortNames : p.target[m] # DefaultPorts[m] } }

DesiredPorts(p) == { << n, p.target[n] >> : n \in PortNames }

\* A bug: flags that are there and not wanted make no difference.
DiffersByMissing(current, expected) == ~(expected \subseteq current)

Differs(current, expected) == current # expected

Ensure(current, expected) ==
  IF current = << >> \/ Differs(current[1], expected) THEN << expected >> ELSE current

\* Where Envoy listens, given Contour's flags.
ListenerPort(flags, n) ==
  IF \E t \in TargetNumbers : << n, t >> \in flags
  THEN CHOOSE t \in TargetNumbers : << n, t >> \in flags
  ELSE DefaultPorts[n]

----------------------------------------------------------------------------
(* What happens. *)

Spend(kind) == left[kind] > 0 /\ left' = [left EXCEPT ![kind] = @ - 1]

PlaneInit ==
  /\ Init
  /\ deployment = << >> /\ daemonSet = << >> /\ running = << >>
  /\ partial = FALSE
  /\ left = [edits |-> MaxEdits, faults |-> MaxFaults]

\* The Envoy Service comes last; the comparison may end the process there.
EnsureService == CreateService \/ UpdateEnvoyServiceIfNeeded \/ Panic

\* The request for the Service fails, before or after it took effect: where there was one
\* to make, what the pass wants may be stored all the same.
FailService ==
  /\ outcome' = "rejected"
  /\ \/ UNCHANGED svc
     \/ /\ svc = << >> /\ Acceptable(DesiredEnvoyService(publishing))
        /\ Store(DesiredEnvoyService(publishing))
     \/ /\ svc # << >> /\ ~OutOfRange(publishing, Current)
        /\ \E updated \in {Updated(publishing, Current)} :
             updated # Current /\ Acceptable(updated) /\ Store(updated)
  /\ UNCHANGED << publishing, disturbances >>

\* The requests in `failing` fail, before or after they took effect; the pass makes
\* the others all the same. A pass that dies on its way fails in all that follow.
EnsureWorkloads(failing) ==
  /\ Valid(publishing)
  /\ IF failing = {} THEN UNCHANGED left ELSE Spend("faults")
  /\ LET flags == Ensure(deployment, DesiredFlags(publishing))
         ports == Ensure(daemonSet, DesiredPorts(publishing))
     IN  /\ deployment' \in {flags} \cup (IF "deployment" \in failing THEN {deployment} ELSE {})
         /\ daemonSet' \in {ports} \cup (IF "daemonSet" \in failing THEN {daemonSet} ELSE {})
  /\ partial' = (failing \cap {"deployment", "daemonSet"} # {})
  /\ IF "envoyService" \in failing THEN FailService ELSE EnsureService
  /\ UNCHANGED running

TurnSpecAway == TurnAway /\ UNCHANGED planeVars

EditSpec ==
  /\ \E p \in Publishings : Publish(p)
  /\ Spend("edits")
  /\ UNCHANGED << deployment, daemonSet, running, partial >>

\* Contour's pods are replaced by pods with the flags of the current template.
RollContour ==
  /\ deployment # << >>
  /\ running' = deployment
  /\ UNCHANGED << vars, deployment, daemonSet, partial, left >>

\* Somebody else changes the Service, the flags, or deletes one of the workloads.
DisturbPlane ==
  \/ Disturb /\ UNCHANGED planeVars
  \/ /\ disturbances < MaxDisturbances
     /\ \/ /\ deployment # << >> /\ deployment' \in { << >>, << {} >> }
           /\ UNCHANGED daemonSet
        \/ daemonSet # << >> /\ daemonSet' = << >> /\ UNCHANGED deployment
     /\ running' = IF deployment' = << >> THEN << >> ELSE running
     /\ disturbances' = disturbances + 1 /\ outcome' = "pending"
     /\ UNCHANGED << publishing, svc, partial, left >>

PlaneNext ==
  \/ \E failing \in SUBSET {"deployment", "daemonSet", "envoyService"} :
       EnsureWorkloads(failing)
  \/ TurnSpecAway \/ EditSpec \/ RollContour \/ DisturbPlane

\* A pass follows each event, each failure and each resync, and Deployments roll out.
PlaneSpec ==
  PlaneInit /\ [][PlaneNext]_allVars /\ WF_allVars(EnsureWorkloads({})) /\ WF_allVars(RollContour)

----------------------------------------------------------------------------
(* Properties. *)

Templates(S) == { << s >> : s \in SUBSET S } \cup { << >> }

PlaneTypeOK ==
  /\ EnvoyTypeOK
  /\ {deployment, daemonSet, running} \subseteq Templates(Flags)
  /\ partial \in BOOLEAN
  /\ left \in [{"edits", "faults"} -> Nat]

\* The Service sends what it takes in under n to the port where Envoy listens, given
\* Contour's flags.
Served(flags, n) ==
  \E i \in DOMAIN Current.ports :
    Current.ports[i].name = n /\ Current.ports[i].target = ListenerPort(flags, n)

\* A pass without errors leaves three objects that agree on each port, and no two
\* listeners on one port, in whatever order the spec lists the ports, whether they are
\* Contour's defaults or not and whatever was there (deployment.go:127).
PathsAgree ==
  Ensured /\ ~partial =>
    /\ \A n \in PortNames :
         /\ Served(deployment[1], n)
         /\ << n, ListenerPort(deployment[1], n) >> \in daemonSet[1]
    /\ ListenerPort(deployment[1], "http") # ListenerPort(deployment[1], "https")

\* At last requests get through to Envoy under every name, though passes have failed
\* half way and Contour's pods restart later than the Service changes; unless the spec
\* is invalid or the comparison panics.
TrafficFlows ==
  <>[](\/ ~Valid(publishing)
       \/ svc # << >> /\ OutOfRange(publishing, Current)
       \/ svc # << >> /\ running # << >> /\ \A n \in PortNames : Served(running[1], n))
===============================================================================
