------------------------------ MODULE MCLogging ------------------------------
(***************************************************************************)
(* Logging for TLC: which root may contain what.                           *)
(***************************************************************************)
EXTENDS Logging

CONSTANTS r1, r2, c1, c2, ua

(* A root with a console and a second root, both of which share the consoles. *)
Nested == (r1 :> {r2, c1}) @@ (r2 :> {c1, c2})

Sdk == ua :> r1
===============================================================================
