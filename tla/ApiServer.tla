------------------------------ MODULE ApiServer ------------------------------
(***************************************************************************)
(* The part of the Kubernetes API server the operator talks to: the        *)
(* Contour custom resources, the child objects, the namespaces they live   *)
(* in, and the informer cache the operator's client reads the child        *)
(* objects from.  Contours themselves are read from the API server         *)
(* directly (operator.go lists them under ClientDisableCacheFor).          *)
(* This code is not the operator's; it is modelled from how the operator   *)
(* uses it.                                                                *)
(***************************************************************************)
EXTENDS Resources

CONSTANTS
  Contours,          \* the Contour custom resources (namespace/name keys)
  NameOf,            \* the metadata.name part of each key
  Home,              \* the namespace each Contour resource itself lives in, or None
  Namespaces,        \* the values spec.namespace.name may take
  CoreNamespaces,    \* those among them that namespaceCoreList names
  PreExisting,       \* the namespaces that exist before the operator starts
  Managed,           \* the resources of an instance (AllResources for the full system)
  Revs,              \* revisions of the spec fields the child objects depend on
  Specs,             \* the specs a user may write
  Manifest,          \* the spec each Contour is created with
  Limits,            \* how often each kind of adversity may strike
  None,              \* no object, no contour, no namespace
  Foreign            \* an owner that is none of the Contours

\* What bounds an execution: each is a number of times the event may happen.
BudgetKinds == {"creates", "edits", "strips", "tampers", "faults", "crashes"}

ASSUME NamesAssumption ==
  /\ None \notin Contours \cup Namespaces \cup Specs
  /\ Foreign \notin Contours
  /\ DOMAIN NameOf = Contours
  /\ Home \in [Contours -> Namespaces \cup {None}]

ASSUME NamespacesAssumption ==
  CoreNamespaces \subseteq PreExisting /\ PreExisting \subseteq Namespaces

ASSUME ManagedAssumption == "namespace" \in Managed /\ Managed \subseteq AllResources

ASSUME SpecsAssumption ==
  /\ Specs \subseteq [ns : Namespaces, removeOnDeletion : BOOLEAN, rev : Revs, valid : BOOLEAN]
  /\ Manifest \in [Contours -> Specs]

ASSUME LimitsAssumption == Limits \in [BudgetKinds -> Nat]

\* What a child object holds, as far as the operator can tell: the revision of
\* the spec it was built from, the one content of a kind no spec field reaches,
\* a value somebody else wrote, or a selector of an earlier operator release.
Contents == Revs \cup {"fixed", "drifted", "oldSelector"}

\* The owner is what the owning-contour labels say.
Objects == [owner : Contours \cup {Foreign}, content : Contents]

ASSUME NoneAssumption == None \notin Objects

\* No spec asks for the selector of an earlier release.
ASSUME RevsAssumption == "oldSelector" \notin Revs

VARIABLES
  phase,       \* [Contours -> {"absent", "live", "deleting"}]
  finalized,   \* whether each Contour carries the operator's finalizer
  spec,        \* each Contour's current spec
  status,      \* what each Contour's status subresource says
  obj,         \* the child objects: obj[r][n]
  terminating, \* the namespaces being deleted
  cache,       \* the informers' copy of obj
  budget       \* what is left of Limits

contourVars == << phase, finalized, spec, status >>
clusterVars == << obj, terminating >>

Exists(c) == phase[c] # "absent"

NamespaceOpen(n) == obj["namespace"][n] # None /\ n \notin terminating

\* Whether a Create of r in n is accepted: nothing of that name is there, and a
\* namespaced object needs a namespace that is not being deleted.
CreateAccepted(r, n) ==
  /\ obj[r][n] = None
  /\ r \in Namespaced => NamespaceOpen(n)

\* Whether an Update of r in n built from the copy `have` is accepted. A stale
\* copy conflicts only if the Update carries its resourceVersion.
UpdateAccepted(r, n, have) ==
  /\ obj[r][n] # None
  /\ r \in ConditionalUpdate => obj[r][n] = have

Put(r, n, o) == obj' = [obj EXCEPT ![r][n] = o]

Spend(kind) ==
  /\ budget[kind] > 0
  /\ budget' = [budget EXCEPT ![kind] = @ - 1]

\* The outcomes of a request: it is served, it is refused without effect, or it
\* takes effect and the answer is lost. The last two use up the fault budget.
Outcomes == {"served", "refused", "lostReply"}

Suffer(outcome) ==
  IF outcome = "served" THEN UNCHANGED budget ELSE Spend("faults")

ApiInit ==
  /\ phase = [c \in Contours |-> "absent"]
  /\ finalized = [c \in Contours |-> FALSE]
  /\ spec = Manifest
  /\ status = [c \in Contours |-> "unset"]
  /\ obj = [r \in Managed |-> [n \in Namespaces |->
              IF r = "namespace" /\ n \in PreExisting
              THEN [owner |-> Foreign, content |-> "fixed"] ELSE None]]
  /\ terminating = {}
  /\ cache = obj
  /\ budget = Limits

\* An absent Contour keeps nothing, and only the finalizer holds a deleted one back.
PhaseOK ==
  \A c \in Contours :
    /\ phase[c] = "absent" => ~finalized[c] /\ status[c] = "unset"
    /\ phase[c] = "deleting" => finalized[c]

ContoursTypeOK ==
  /\ phase \in [Contours -> {"absent", "live", "deleting"}]
  /\ finalized \in [Contours -> BOOLEAN]
  /\ spec \in [Contours -> Specs]
  /\ status \in [Contours -> {"unset", "unavailable", "reported"}]
  /\ PhaseOK

ClusterTypeOK ==
  /\ obj \in [Managed -> [Namespaces -> Objects \cup {None}]]
  /\ cache \in [Managed -> [Namespaces -> Objects \cup {None}]]
  /\ terminating \subseteq Namespaces

BudgetTypeOK == budget \in [BudgetKinds -> Nat]

ApiTypeOK == ContoursTypeOK /\ ClusterTypeOK /\ BudgetTypeOK
==============================================================================
