---------------------------- MODULE TunnelAgentMC ----------------------------
(* Model checking instance of TunnelAgent: the values are in the configs.    *)
EXTENDS TunnelAgent, TLC

(* Links, sessions and descriptors are interchangeable (safety runs only).   *)
Symmetry == Permutations(Links) \cup Permutations(Readers) \cup Permutations(Fds)
=============================================================================
