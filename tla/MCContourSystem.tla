---------------------------- MODULE MCContourSystem ----------------------------
(* Small instances of ContourSystem for TLC. *)
EXTENDS ContourInvariants

CONSTANTS a, b, n1, n2

\* The budgets of the runs.
NoAdversity == [k \in BudgetKinds |-> 0]
Calm(creates) == [NoAdversity EXCEPT !.creates = creates]
Calm2 == Calm(2)
AdversitySingle == [Calm(2) EXCEPT !.faults = 1, !.crashes = 1]
AdversityRivals == [Calm(5) EXCEPT !.faults = 1, !.crashes = 1]
AdversityLive == [Calm(3) EXCEPT !.faults = 1, !.crashes = 1, !.tampers = 1]
AdversityLag == [Calm(2) EXCEPT !.faults = 1, !.crashes = 1, !.tampers = 1]
AdversityDrift == [Calm(1) EXCEPT !.tampers = 1, !.strips = 1, !.edits = 1]
AdversityEdits == [Calm(2) EXCEPT !.edits = 2, !.faults = 1]

\* The resources of the runs: all, or some that stand for the others.
AllKinds == AllResources
OneOfEach == {"namespace", "controllerRole", "clusterRole", "deployment"}
TwoWorkloads == {"namespace", "deployment", "contourService"}
RoleAndDeployment == {"namespace", "controllerRole", "deployment"}
RolesAndWorkloads == TwoWorkloads \cup {"controllerRole", "clusterRole"}
Drifting == {"namespace", "job", "deployment", "contourService"}

\* The specs.
SpecOn(n, remove, rev) ==
  [ns |-> n, removeOnDeletion |-> remove, rev |-> rev, valid |-> TRUE]
AllIn(m) == { m[c] : c \in Contours }
InN1 == [c \in Contours |-> SpecOn(n1, TRUE, "v1")]
SpecsInN1 == AllIn(InN1)
Apart == [c \in Contours |-> SpecOn(IF c = a THEN n1 ELSE n2, TRUE, "v1")]
SpecsApart == AllIn(Apart)
SpecsMoving == { SpecOn(n, TRUE, "v1") : n \in Namespaces }
Revision1 == [c \in Contours |-> SpecOn(n1, FALSE, "v1")]
SpecsRevising == { SpecOn(n1, FALSE, rev) : rev \in Revs }
                   \cup { [SpecOn(n1, TRUE, "v2") EXCEPT !.valid = FALSE] }

\* The names and the namespaces of the Contour resources.
OwnNames == [c \in Contours |-> c]
SameName == [c \in Contours |-> a]
Elsewhere == [c \in Contours |-> None]
BInN1 == [c \in Contours |-> IF c = b THEN n1 ELSE None]
================================================================================
