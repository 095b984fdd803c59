---------------------------- MODULE MCStopSignal ----------------------------
(* Instances of StopSignal for TLC: a and b are model values.               *)
EXTENDS StopSignal

CONSTANTS a, b

=============================================================================
