-------------------------- MODULE MCCircuitBreaker --------------------------
(***************************************************************************)
(* Three calls in flight, two failures to open: enough for a failure to    *)
(* arrive after the circuit opened, and after it was reset.                *)
(***************************************************************************)
EXTENDS CircuitBreaker
=============================================================================
