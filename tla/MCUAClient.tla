------------------------------ MODULE MCUAClient ------------------------------
(***************************************************************************)
(* UAClient for TLC.  Sessions, handlers and callback threads are          *)
(* interchangeable, which the runs without liveness properties use.        *)
(***************************************************************************)
EXTENDS UAClient, TLC

Symmetry == Permutations(Sessions) \cup Permutations(Handlers) \cup Permutations(Callbacks)
===============================================================================
