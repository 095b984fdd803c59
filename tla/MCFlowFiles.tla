----------------------------- MODULE MCFlowFiles -----------------------------
(***************************************************************************)
(* Instances of FlowFiles for TLC: two flows that share engine.json, two   *)
(* contents of a part.                                                     *)
(***************************************************************************)
EXTENDS FlowFiles, TLC

CONSTANTS f1, f2

FlowSymmetry == Permutations(Flows)

\* A process that dies, cold files that cannot be read, best-effort steps that fail.
Disturbed == {"crash", "body", "disk"}
\* engine.json cannot be read for a moment.
Unreadable == {"header"}
=============================================================================
