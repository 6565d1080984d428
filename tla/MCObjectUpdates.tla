---------------------------- MODULE MCObjectUpdates ----------------------------
(* A small instance of ObjectUpdates for TLC: one kind for each way of comparing. *)
EXTENDS ObjectUpdates

OneOfEach ==
  { "namespace", "contourServiceAccount", "clusterRole", "clusterRoleBinding", "configMap",
    "job", "deployment", "daemonSet", "contourService" }
===============================================================================
