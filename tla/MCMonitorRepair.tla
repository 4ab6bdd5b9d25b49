---------------------------- MODULE MCMonitorRepair ----------------------------
(* TLC instances of MonitorRepair: workers and records are interchangeable. *)
EXTENDS MonitorRepair, TLC

Symmetry == Permutations(Workers) \cup Permutations(Records)
===============================================================================
