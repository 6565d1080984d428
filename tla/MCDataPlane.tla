------------------------------ MODULE MCDataPlane ------------------------------
(* A small instance of DataPlane for TLC. *)
EXTENDS DataPlane, MCEnvoyService

FirstAndSecond == [n \in PortNames |-> IF n = "http" THEN 1 ELSE 2]
===============================================================================
