--------------------------- MODULE ContourInvariants ---------------------------
(***************************************************************************)
(* The invariants that the properties of ContourProperties rest on, named  *)
(* for what they say of a pass, of the objects and of the queue.           *)
(***************************************************************************)
EXTENDS ContourProperties

\* Users never move a Contour from one spec namespace to another.
Stationary == \A c \in Contours : spec[c].ns = Manifest[c].ns

----------------------------------------------------------------------------
(* A pass and the Contour it is about. *)

Busy == pc \notin {"idle", "down"}

\* The states of a pass over a Contour that is being deleted.
Departures ==
  {"delete", "gatherCluster", "deleteRBAC", "namespace", "dropNamespace", "release"}

\* The copy is good for its namespace to the end of the pass, and what it is a copy of
\* stays deleted if it was; and either nobody has written the Contour since the copy
\* was taken, or the Contour waits for another pass.
CopyOK ==
  /\ Busy => snap.spec.ns = Manifest[cur].ns
  /\ pc \in Departures => phase[cur] = "deleting"
  /\ Busy => fresh \/ cur \in queue
  /\ fresh => snap.spec = spec[cur] /\ (pc \notin Departures => phase[cur] = "live")

\* In the namespace of the pass, r is the Contour's or not there.
NobodyElses(r) == obj[r][Ns] = None \/ obj[r][Ns].owner = cur

\* What a pass has found to be its Contour's and not yet deleted has not become
\* somebody else's.
GatheredOurs ==
  /\ pc \in {"gatherCluster", "deleteRBAC"} =>
       todo \subseteq RBAC /\ \A r \in todo : NobodyElses(r)
  /\ pc = "dropNamespace" => NobodyElses("namespace")

----------------------------------------------------------------------------
(* Contours and their objects. *)

\* Every object is in the namespace its Contour was created with.
Placed ==
  \A r \in Managed, n \in Namespaces, c \in Contours :
    OwnedBy(obj[r][n], c) => n = Manifest[c].ns

\* The deletion has yet to come to r.
Due(r) ==
  \/ pc = "delete" /\ (r \in Workloads => r \in todo)
  \/ pc = "gatherCluster" /\ (r \in ClusterRBAC \/ r \in todo)
  \/ pc = "deleteRBAC" /\ r \in todo

\* A deletion without an error leaves nothing behind it of the kinds in K.
Swept(K) ==
  pc \in Departures /\ ~errs => \A r \in K : OwnedBy(obj[r][Ns], cur) => Due(r)

\* Objects of the kinds in K belong to Contours that have the finalizer.
Held(K) == \A c \in Contours : Owns(c, K) => finalized[c]

\* A Contour that has lost its finalizer leaves no workload behind, whoever else is there.
WorkloadsHeld == Held(Managed \cap Workloads)

\* While workloads are ensured for one Contour, its namespace has none of another.
Alone ==
  pc \in {"ensure", "status"} =>
    \A d \in Contours \ {cur}, w \in Managed \cap Workloads : ~OwnedBy(obj[w][Ns], d)

\* A namespace about to be deleted is the spec namespace of no other Contour with the
\* finalizer.
SoleTenant ==
  pc = "dropNamespace" => \A d \in Contours \ {cur} : finalized[d] => spec[d].ns # Ns

----------------------------------------------------------------------------
(* Work. *)

\* Nobody else's doing shows in the objects.
NoRogues ==
  \A r \in Managed, n \in Namespaces :
    obj[r][n] # None =>
      /\ obj[r][n].content # "oldSelector"
      /\ r # "namespace" => obj[r][n].owner \in Contours

\* A namespace is there until it is empty, and one that is being deleted has no
\* workloads but those of Contours that are being deleted, too.
NamespacesOK ==
  \A n \in Namespaces :
    /\ n \in terminating => obj["namespace"][n] # None
    /\ obj["namespace"][n] = None => \A r \in Managed \cap Namespaced : obj[r][n] = None
    /\ n \in terminating => \A w \in Managed \cap Workloads :
         obj[w][n] # None => phase[obj[w][n].owner] = "deleting"

\* The Job is not to last.
Lasting == Managed \ {"job"}

\* The object r of Contour c is as spec s wants it; a workload is c's own.
InPlace(r, c, s) ==
  LET o == obj[r][s.ns]
  IN  /\ o # None /\ (OwnedBy(o, c) => o = Desired(r, c, s))
      /\ r \in Workloads => OwnedBy(o, c)

\* A pass begins with the namespace and ends with the status. Without an error so far it
\* has put in place what it has been through, or else the namespace is going and the pass
\* will fail over the workloads.
Progress ==
  /\ pc = "status" => todo = {}
  /\ pc = "ensure" /\ "namespace" \in todo => todo = Managed
  /\ pc \in {"ensure", "status"} /\ fresh /\ ~errs =>
       \/ NamespaceOpen(Ns) /\ \A r \in Lasting \ todo : InPlace(r, cur, snap.spec)
       \/ ~NamespaceOpen(Ns) /\ Lasting \cap Workloads \subseteq todo

\* Others can have come to use what a deletion has gathered only after that, and then
\* they are queued.
Latecomers ==
  pc \in {"gatherCluster", "deleteRBAC"} =>
    \A d \in Contours \ {cur} : Exists(d) /\ d \notin queue =>
      /\ spec[d].ns = Ns => todo \cap NamespacedRBAC = {}
      /\ todo \cap ClusterRBAC = {}

Attended(c) == c \in queue \/ cur = c \/ pc = "down"

Complete(c) ==
  /\ phase[c] = "live" /\ finalized[c] /\ status[c] = "reported"
  /\ \A r \in Lasting : InPlace(r, c, spec[c])

\* Nobody waits unattended for anything to be done. This says more than NoLostWork: not
\* even an event is yet to come, where nobody tampers.
WorkKept == \A c \in Contours : Attended(c) \/ ~Exists(c) \/ Complete(c)
================================================================================
