------------------------------ MODULE MCClient ------------------------------
(* Instances of Client for TLC. *)
EXTENDS Client

CONSTANTS u1, u2

\* Two descriptions that share a name, and each with one of its own.
Overlapping == u1 :> {"a", "b"} @@ u2 :> {"b", "c"}
=============================================================================
