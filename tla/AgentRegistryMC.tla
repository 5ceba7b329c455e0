--------------------------- MODULE AgentRegistryMC ---------------------------
(* Model checking instance of AgentRegistry: the values are in the configs. *)
EXTENDS AgentRegistry, TLC

(* Descriptor numbers, connections and sending threads are                 *)
(* interchangeable; used only by runs without liveness properties.         *)
Symmetry == Permutations(Conns) \cup Permutations(Fds)
=============================================================================
