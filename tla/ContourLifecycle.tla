---------------------------- MODULE ContourLifecycle ----------------------------
(***************************************************************************)
(* What the operator promises about a Contour, without saying how: child   *)
(* objects appear only while the operator has a claim on the Contour (its  *)
(* finalizer), and the claim of a deleted Contour is given up only when    *)
(* the Contour has no child left.                                          *)
(***************************************************************************)
CONSTANT Contours

VARIABLES
  life,        \* "absent", "unclaimed", "claimed", or "departing": claimed and deleted
  populated    \* whether child objects of the Contour exist

lifeVars == << life, populated >>

Set(f, c, v) == f' = [f EXCEPT ![c] = v]

LifeInit ==
  /\ life = [c \in Contours |-> "absent"]
  /\ populated = [c \in Contours |-> FALSE]

Appear(c) == life[c] = "absent" /\ Set(life, c, "unclaimed") /\ UNCHANGED populated

Withdraw(c) == life[c] = "unclaimed" /\ Set(life, c, "absent") /\ UNCHANGED populated

Claim(c) == life[c] = "unclaimed" /\ Set(life, c, "claimed") /\ UNCHANGED populated

Depart(c) == life[c] = "claimed" /\ Set(life, c, "departing") /\ UNCHANGED populated

Populate(c) ==
  life[c] \in {"claimed", "departing"} /\ Set(populated, c, TRUE) /\ UNCHANGED life

Clear(c) == Set(populated, c, FALSE) /\ UNCHANGED life

Release(c) ==
  life[c] = "departing" /\ ~populated[c] /\ Set(life, c, "absent") /\ UNCHANGED populated

LifeNext ==
  \E c \in Contours :
    \/ Appear(c) \/ Withdraw(c) \/ Claim(c) \/ Depart(c)
    \/ Populate(c) \/ Clear(c) \/ Release(c)

LifeSpec == LifeInit /\ [][LifeNext]_lifeVars
=================================================================================
