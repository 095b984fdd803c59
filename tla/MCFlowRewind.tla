----------------------------- MODULE MCFlowRewind -----------------------------
(* Small instances of FlowRewind.                                            *)
EXTENDS FlowRewind, FlowSetups
=============================================================================
