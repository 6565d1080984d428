------------------------------ MODULE ChildObject ------------------------------
(***************************************************************************)
(* What becomes of one child object of a Contour, as little of it as       *)
(* matters to the others: whether it is there, whose it is, and whether it *)
(* is as wanted.  A pass acts on what the informer has seen, others on     *)
(* what is stored.  ContourController treats each of its objects like      *)
(* this; ObjectUpdates looks inside of one, and is to do the same.         *)
(***************************************************************************)
EXTENDS Resources

CONSTANTS Kinds, MaxDisturbances

VARIABLES
  kind,          \* the kind of the object
  stored,        \* what is stored, by its looks
  seen,          \* what the informer has
  doomed,        \* whether it is a Job that has been deleted, but whose pods remain
  disturbances   \* how often others may still touch it

childVars == << kind, stored, seen, doomed, disturbances >>

\* "foreign" is without the owner labels; the others are the operator's.
Looks == {"absent", "foreign", "wanted", "drifted", "oldSelector"}

ChildInit ==
  /\ kind \in Kinds
  /\ stored = "absent" /\ seen = "absent" /\ doomed = FALSE
  /\ disturbances = MaxDisturbances

\* Only a Job is created for another reason than that the informer has none.
Create ==
  /\ stored = "absent" /\ (seen = "absent" \/ kind = "job")
  /\ stored' = "wanted"
  /\ UNCHANGED << kind, seen, doomed, disturbances >>

\* A namespace is written even if it is as wanted.
Update ==
  /\ seen = "drifted" \/ (seen = "wanted" /\ kind = "namespace")
  /\ kind # "job" /\ stored # "absent"
  /\ kind \in ConditionalUpdate => stored = seen
  /\ stored' = "wanted"
  /\ UNCHANGED << kind, seen, doomed, disturbances >>

Replace ==
  /\ seen = "oldSelector" /\ kind \in SelectorKinds
  /\ stored' = "absent"
  /\ UNCHANGED << kind, seen, doomed, disturbances >>

\* A Job that is to be recreated goes when its pods are orphaned.
Doom ==
  /\ seen = "drifted" /\ kind = "job" /\ stored # "absent"
  /\ doomed' = TRUE
  /\ UNCHANGED << kind, stored, seen, disturbances >>

Vanish ==
  /\ doomed
  /\ stored' = "absent" /\ doomed' = FALSE
  /\ UNCHANGED << kind, seen, disturbances >>

See ==
  /\ seen' = stored
  /\ UNCHANGED << kind, stored, doomed, disturbances >>

\* Somebody else's doing: anything, but there has to be an object.
Others ==
  /\ stored # "absent" /\ disturbances > 0
  /\ stored' \in Looks
  /\ doomed' = (doomed /\ stored' # "absent")
  /\ disturbances' = disturbances - 1
  /\ UNCHANGED << kind, seen >>

ChildNext == Create \/ Update \/ Replace \/ Doom \/ Vanish \/ See \/ Others

ChildSpec == ChildInit /\ [][ChildNext]_childVars
================================================================================
