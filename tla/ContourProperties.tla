--------------------------- MODULE ContourProperties ---------------------------
(***************************************************************************)
(* What makes the operator correct, stated of ContourSystem.               *)
(***************************************************************************)
EXTENDS ContourSystem

\* Contour c owns an object of one of the kinds K.
Owns(c, K) == \E r \in K, n \in Namespaces : OwnedBy(obj[r][n], c)

\* Validation keeps turning c away.
Blocked(c) == phase[c] = "live" /\ ~Valid(c, spec[c])

\* Everything of c is in place: each object exists and, where it is c's own, is as
\* c's spec wants it. (Objects of the same name that are not c's are left as they
\* are.) The Job comes and goes.
Deployed(c) ==
  /\ finalized[c] /\ status[c] = "reported"
  /\ \A r \in Managed \ {"job"} :
       LET o == obj[r][spec[c].ns]
       IN  o # None /\ (OwnedBy(o, c) => o = Desired(r, c, spec[c]))

Settled(c) == phase[c] = "live" => Blocked(c) \/ Deployed(c)

\* An informer has yet to report a change that is mapped to c.
EventPending(c) ==
  \E r \in Managed \cap WatchedKinds, n \in Namespaces :
    /\ cache[r][n] # obj[r][n]
    /\ c \in OwnersOf(cache[r][n]) \cup OwnersOf(obj[r][n])

----------------------------------------------------------------------------
(* Safety. *)

\* An object comes to bear the labels of a Contour only while that Contour exists
\* and carries the finalizer, although the pass works from an old copy of it and
\* may be deleted, edited or interrupted under way: "Before doing anything with
\* the contour, ensure it has a finalizer" (controller.go:138). A finalizer
\* stripped by hand during a pass defeats this, so it is checked and proved for
\* budgets without strips.
CreatesOnlyWhileFinalized ==
  [][ \A r \in Managed, n \in Namespaces, c \in Contours :
        OwnedBy(obj[r][n]', c) /\ ~OwnedBy(obj[r][n], c) => Exists(c) /\ finalized[c] ]_vars

\* What CreatesOnlyWhileFinalized rests on: from its start to its end a pass that
\* read a finalizer can count on it, and only such a pass ensures anything.
ClaimHolds ==
  /\ pc \notin {"idle", "down"} /\ snap.finalized => finalized[cur]
  /\ Ensuring => snap.finalized

\* A copy that still has the Contour's resourceVersion is the copy of a Contour
\* that exists: an Update made from it is refused for one that has gone.
FreshOK == fresh => cur \in Contours /\ Exists(cur)

\* A Contour that has lost its finalizer leaves nothing behind (but the namespace,
\* which removeOnDeletion governs): ensureContourDeleted removes every child
\* object before EnsureFinalizerRemoved, across failures, lost replies and crashes.
NoOrphans == \A c \in Contours : Owns(c, Managed \ {"namespace"}) => finalized[c]

\* Two Contours never run their workloads in the same namespace, although
\* validation.Contour compares them only at the start of a pass.
ExclusiveTenancy ==
  \A n \in Namespaces, r, q \in Managed \cap Workloads, c, d \in Contours :
    OwnedBy(obj[r][n], c) /\ OwnedBy(obj[q][n], d) => c = d

\* While a Contour exists and claims its namespace, nobody but a user or the
\* namespace controller takes a child object from it; only a workload with an
\* outdated selector is deleted, to be created anew (deployment.go:81).
LiveNeverTornDown ==
  [][ \A r \in Managed \ {"job"}, n \in Namespaces, c \in Contours :
        /\ OwnedBy(obj[r][n], c) /\ phase[c] = "live" /\ spec[c].ns = n
        /\ n \notin terminating
        => OwnedBy(obj[r][n]', c) \/ obj[r][n].content = "oldSelector" ]_vars

\* A deletion has r in n on its list: it found the owner labels on a copy of it, and
\* will not look again.
Listed(r, n) ==
  /\ pc \in {"gatherCluster", "deleteRBAC", "dropNamespace"} /\ n = Ns
  /\ r \in IF pc = "dropNamespace" THEN {"namespace"} ELSE todo

\* The operator can tell that r in n is none of its objects: no informer shows it with
\* the labels of a Contour any more, and no deletion under way found them earlier.
KnownForeign(r, n) ==
  /\ obj[r][n] # None /\ obj[r][n].owner = Foreign
  /\ OwnersOf(cache[r][n]) = {} /\ ~Listed(r, n)

\* An object that somebody else has put in the place of one of the operator's, or that
\* was there before, is harmed only by what was decided on an older one: once the
\* informer has seen it and no deletion has its predecessor on its list, it is left alone
\* for good, by every pass, for every Contour, however the informers lag and whatever
\* becomes of other objects (labels.Exist in every updateIfNeeded and Ensure...Deleted;
\* rbac.go:160, deployment.go:101). It can still go with a whole namespace.
StrangersKept ==
  [][ \A r \in Managed, n \in Namespaces :
        KnownForeign(r, n) /\ n \notin terminating =>
          /\ obj[r][n]' = obj[r][n]
          /\ KnownForeign(r, n)'
          /\ r = "namespace" => n \notin terminating' ]_vars

\* Work is never forgotten: a Contour that is being deleted, or that is not yet
\* deployed, is queued, being reconciled, or about to be queued by an event, a
\* requeue or the restart. (Reconcile returns every error.)
NoLostWork ==
  \A c \in Contours :
    phase[c] = "deleting" \/ (phase[c] = "live" /\ ~Deployed(c))
      => c \in queue \/ cur = c \/ pc = "down" \/ EventPending(c)

\* Removing a namespace never takes the objects of another Contour with it:
\* EnsureNamespaceDeleted bypasses deletion if "Another contour exists in the same
\* namespace" (namespace.go:56). What is spared is a Contour with the finalizer, as any
\* with workloads has it; one created between the List and the Delete has none yet, and
\* RBAC objects of an earlier life that still bear its labels go with the namespace.
NamespaceSparesTenants ==
  [][ \A n \in terminating' \ terminating, d \in Contours \ {cur} :
        Exists(d) /\ finalized[d] /\ spec[d].ns = n
          => \A r \in Managed \cap Namespaced : ~OwnedBy(obj[r][n], d) ]_vars

----------------------------------------------------------------------------
(* Liveness. *)

\* The deletion of a Contour is completed, whatever fails and however often the
\* operator restarts (within the budgets): the finalizer never stays for good.
DeletionCompletes == \A c \in Contours : phase[c] = "deleting" ~> phase[c] # "deleting"

\* At last every Contour that exists is deployed as its spec says, or turned away by
\* validation for good.
Convergence == \A c \in Contours : <>[]Settled(c)

\* Reconciliation comes to rest: the operator's own writes, status updates and
\* watch events do not keep it going, except over a Contour it must turn away.
Quiescence ==
  <>[](pc # "down" /\ \A c \in Contours : c \in queue \/ cur = c => Blocked(c))

----------------------------------------------------------------------------
(* Refinement. *)

Life(c) ==
  IF phase[c] = "live" THEN (IF finalized[c] THEN "claimed" ELSE "unclaimed")
  ELSE IF phase[c] = "deleting" THEN "departing" ELSE "absent"

Lifecycle ==
  INSTANCE ContourLifecycle WITH
    life <- [c \in Contours |-> Life(c)],
    populated <- [c \in Contours |-> Owns(c, Managed \cap Workloads)]

\* The operator implements ContourLifecycle: workloads appear only under the
\* finalizer, and the finalizer of a deleted Contour is removed only once its
\* workloads are gone, in one step at a time.
KeepsLifecycle == Lifecycle!LifeSpec
================================================================================
