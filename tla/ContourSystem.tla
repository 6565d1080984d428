------------------------------ MODULE ContourSystem ------------------------------
(***************************************************************************)
(* The operator and everything that acts beside it: users who create,      *)
(* edit and delete Contours and strip finalizers, somebody who changes the *)
(* child objects behind the operator's back, the namespace controller, the *)
(* Job TTL controller, and the periodic resynchronisation.                 *)
(***************************************************************************)
EXTENDS ContourController

CONSTANTS
  Tamperable,    \* the resources somebody else may touch
  Resyncing      \* whether the informers' resync period elapses

ASSUME EnvironmentAssumption ==
  /\ Tamperable \subseteq Managed \ {"namespace"}
  /\ Resyncing \in BOOLEAN

----------------------------------------------------------------------------
(* Every write to a Contour is an event of the Contour watch, and outdates the
   copy an ongoing pass holds of it. *)

Notify(cs) ==
  /\ queue' = IF pc = "down" THEN queue ELSE queue \cup cs
  /\ fresh' = (fresh /\ cur \notin cs)
  /\ UNCHANGED << pc, cur, snap, todo, errs >>

\* The namespace of the Contour resource itself has to be there.
UserCreates(c) ==
  /\ ~Exists(c)
  /\ Home[c] # None => NamespaceOpen(Home[c])
  /\ Spend("creates")
  /\ phase' = [phase EXCEPT ![c] = "live"]
  /\ Notify({c})
  /\ UNCHANGED << finalized, spec, status, clusterVars, cache >>

UserEdits(c, s) ==
  /\ Exists(c) /\ spec[c] # s
  /\ Spend("edits")
  /\ spec' = [spec EXCEPT ![c] = s]
  /\ Notify({c})
  /\ UNCHANGED << phase, finalized, status, clusterVars, cache >>

\* The Contours in D leave the API server.
Vanish(D) ==
  /\ phase' = [c \in Contours |-> IF c \in D THEN "absent" ELSE phase[c]]
  /\ finalized' = [c \in Contours |-> IF c \in D THEN FALSE ELSE finalized[c]]
  /\ spec' = [c \in Contours |-> IF c \in D THEN Manifest[c] ELSE spec[c]]
  /\ status' = [c \in Contours |-> IF c \in D THEN "unset" ELSE status[c]]

\* A deleted Contour stays until its finalizer is removed.
UserDeletes(c) ==
  /\ phase[c] = "live"
  /\ IF finalized[c]
     THEN phase' = [phase EXCEPT ![c] = "deleting"] /\ UNCHANGED << finalized, spec, status >>
     ELSE Vanish({c})
  /\ Notify({c})
  /\ UNCHANGED << clusterVars, cache, budget >>

\* operator_test.go (testEnsureFinalizer) does this to a live Contour.
UserStripsFinalizer(c) ==
  /\ finalized[c]
  /\ Spend("strips")
  /\ IF phase[c] = "deleting"
     THEN Vanish({c})
     ELSE finalized' = [finalized EXCEPT ![c] = FALSE] /\ UNCHANGED << phase, spec, status >>
  /\ Notify({c})
  /\ UNCHANGED << clusterVars, cache >>

\* A child object is deleted, changed, or replaced by an object of someone else.
\* Only a watched kind can come back with another selector: that takes a new object.
Tamper(r, n) ==
  LET o == obj[r][n]
  IN  /\ o # None /\ o.owner \in Contours
      /\ Spend("tampers")
      /\ \/ Put(r, n, None)
         \/ Put(r, n, [owner |-> o.owner, content |-> "drifted"])
         \/ Put(r, n, [owner |-> Foreign, content |-> "drifted"])
         \/ r \in SelectorKinds /\ Put(r, n, [owner |-> o.owner, content |-> "oldSelector"])
      /\ UNCHANGED << contourVars, terminating, cache, queue, workerVars >>

\* The operator's certgen Job has ttlSecondsAfterFinished 0.
JobFinishes(n) ==
  /\ "job" \in Managed
  /\ \E c \in Contours : OwnedBy(obj["job"][n], c)
  /\ Put("job", n, None)
  /\ UNCHANGED << contourVars, terminating, cache, budget, queue, workerVars >>

\* The namespace controller empties a terminating namespace of its objects, the
\* Contour resources among them ...
Residents(n) == { c \in Contours : Home[c] = n }

DrainNamespace(n) ==
  LET doomed == { c \in Residents(n) : phase[c] = "live" }
  IN  /\ n \in terminating
      /\ \/ doomed # {}
         \/ \E r \in Managed \cap Namespaced : obj[r][n] # None
      /\ obj' = [r \in Managed |-> IF r \in Namespaced THEN [obj[r] EXCEPT ![n] = None]
                                   ELSE obj[r]]
      /\ LET gone == { c \in doomed : ~finalized[c] }
         IN  /\ phase' = [c \in Contours |->
                            IF c \in gone THEN "absent"
                            ELSE IF c \in doomed THEN "deleting" ELSE phase[c]]
             /\ spec' = [c \in Contours |-> IF c \in gone THEN Manifest[c] ELSE spec[c]]
             /\ status' = [c \in Contours |-> IF c \in gone THEN "unset" ELSE status[c]]
      /\ Notify(doomed)
      /\ UNCHANGED << finalized, terminating, cache, budget >>

\* ... and removes it once it is empty.
FinishNamespace(n) ==
  /\ n \in terminating
  /\ \A r \in Managed \cap Namespaced : obj[r][n] = None
  /\ \A c \in Residents(n) : ~Exists(c)
  /\ Put("namespace", n, None)
  /\ terminating' = terminating \ {n}
  /\ UNCHANGED << contourVars, cache, budget, queue, workerVars >>

\* The informers replay what they hold: every Contour is queued.
Resync ==
  /\ Resyncing /\ pc # "down"
  /\ queue' = queue \cup { c \in Contours : Exists(c) }
  /\ UNCHANGED << contourVars, clusterVars, cache, budget, workerVars >>

----------------------------------------------------------------------------

Init == ApiInit /\ CtrlInit

Users ==
  \/ \E c \in Contours : \/ UserCreates(c) \/ UserDeletes(c) \/ UserStripsFinalizer(c)
                         \/ \E s \in Specs : UserEdits(c, s)
  \/ \E r \in Tamperable, n \in Namespaces : Tamper(r, n)

Kubernetes ==
  \/ \E n \in Namespaces : JobFinishes(n) \/ DrainNamespace(n) \/ FinishNamespace(n)
  \/ \E r \in Managed, n \in Namespaces : Refresh(r, n)
  \/ Resync

Operator ==
  \/ \E c \in Contours : Dequeue(c)
  \/ WorkerStep
  \/ Crash
  \/ Restart

Next == Users \/ Kubernetes \/ Operator

\* What the schedulers owe: a running worker goes on; every queued Contour is
\* taken at last (the queue is first-in first-out and its back-off is bounded,
\* so one that keeps failing cannot starve another); informers deliver; the
\* process is restarted; namespaces are torn down; the resync period elapses.
\* Users, failures, crashes and the Job's end owe nothing.
Fairness ==
  /\ WF_vars(WorkerStep)
  /\ \A c \in Contours : SF_vars(Dequeue(c))
  /\ WF_vars(\E r \in Managed, n \in Namespaces : Refresh(r, n))
  /\ WF_vars(\E n \in Namespaces : DrainNamespace(n) \/ FinishNamespace(n))
  /\ WF_vars(Restart)
  /\ WF_vars(Resync)

SafetySpec == Init /\ [][Next]_vars
Spec == SafetySpec /\ Fairness

TypeOK == ApiTypeOK /\ CtrlTypeOK
==================================================================================
