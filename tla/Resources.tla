------------------------------ MODULE Resources ------------------------------
(***************************************************************************)
(* The child resources the operator manages for one Contour, as static     *)
(* data: the order in which a reconciliation ensures and deletes them, and *)
(* how the API server treats each kind.  A resource is named by its role;  *)
(* together with a spec namespace the name identifies one API object       *)
(* (the ClusterRole and ClusterRoleBinding of a namespace are the objects  *)
(* called contour-<namespace>).                                            *)
(***************************************************************************)
EXTENDS Naturals, Sequences

\* ensureContour calls EnsureNamespace, then EnsureRBAC.
RBACEnsureOrder ==
  << "contourServiceAccount", "envoyServiceAccount", "certgenServiceAccount",
     "clusterRole", "clusterRoleBinding",
     "certgenRole", "certgenRoleBinding",
     "controllerRole", "controllerRoleBinding" >>

\* What ensureContour ensures once the namespace and the RBAC are in place.
WorkloadEnsureOrder ==
  << "configMap", "job", "deployment", "daemonSet", "contourService", "envoyService" >>

EnsureOrder == << "namespace" >> \o RBACEnsureOrder \o WorkloadEnsureOrder

\* ensureContourDeleted undoes the workload kinds first ...
WorkloadDeleteOrder ==
  << "envoyService", "contourService", "daemonSet", "deployment", "job", "configMap" >>

\* ... and then the RBAC objects EnsureRBACDeleted gathered, in this order.
NamespacedRBACDeleteOrder ==
  << "controllerRoleBinding", "controllerRole", "certgenRoleBinding", "certgenRole",
     "contourServiceAccount", "envoyServiceAccount", "certgenServiceAccount" >>

ClusterRBACDeleteOrder == << "clusterRoleBinding", "clusterRole" >>

RBACDeleteOrder == NamespacedRBACDeleteOrder \o ClusterRBACDeleteOrder

NamesIn(order) == { order[i] : i \in 1..Len(order) }

Workloads      == NamesIn(WorkloadEnsureOrder)
NamespacedRBAC == NamesIn(NamespacedRBACDeleteOrder)
ClusterRBAC    == NamesIn(ClusterRBACDeleteOrder)
RBAC           == NamespacedRBAC \cup ClusterRBAC
AllResources   == {"namespace"} \cup RBAC \cup Workloads

\* A failure in any of these stops ensureContour before the workloads.
Foundation == {"namespace"} \cup RBAC

\* The objects that live inside the spec namespace and die with it.
Namespaced == NamespacedRBAC \cup Workloads

\* r is the first member of `remaining` in `order`.
IsNext(r, remaining, order) ==
  /\ r \in remaining
  /\ \E i \in 1..Len(order) :
       /\ order[i] = r
       /\ \A j \in 1..(i - 1) : order[j] \notin remaining

----------------------------------------------------------------------------
(* How the code treats each kind. *)

\* The kinds the controller watches, mapping an event to the owning Contour.
WatchedKinds == {"deployment", "daemonSet"}

\* The kinds whose selector the code compares before anything else.
SelectorKinds == {"deployment", "daemonSet"}

\* The kinds whose desired content is computed from the Contour's spec (beyond
\* spec.namespace.name, which is part of the object's key here).
SpecDriven == {"configMap", "deployment", "daemonSet", "envoyService"}

\* The kinds whose Update is built from the cached copy and so carries its
\* resourceVersion; the others send the freshly built object, and the API server
\* replaces whatever it holds.
ConditionalUpdate ==
  { "clusterRole", "clusterRoleBinding", "certgenRole", "certgenRoleBinding",
    "controllerRole", "controllerRoleBinding", "configMap", "daemonSet", "envoyService" }
==============================================================================
