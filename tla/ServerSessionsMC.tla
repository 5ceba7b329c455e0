--------------------------- MODULE ServerSessionsMC ---------------------------
(* Model checking instance of ServerSessions: the values are in the configs. *)
EXTENDS ServerSessions
=============================================================================
