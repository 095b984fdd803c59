----------------------------- MODULE MCFlowEngine -----------------------------
(* Small instances of FlowEngine.                                            *)
EXTENDS FlowEngine, FlowSetups
=============================================================================
