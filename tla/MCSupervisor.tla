---- MODULE MCSupervisor ----
(* AgentSupervisor for TLC: the tasks are interchangeable. *)
EXTENDS AgentSupervisor, TLC

TaskSymmetry == Permutations(Tasks)
====
