----------------------------- MODULE MCStatusSync -----------------------------
(* A small instance of StatusSync for TLC. *)
EXTENDS StatusSync

\* The Deployment controller reports minimum availability by its own rule.
Reports ==
  { [available |-> 0, condition |-> "Unreported"], [available |-> 0, condition |-> "False"],
    [available |-> 3, condition |-> "True"] }
===============================================================================
