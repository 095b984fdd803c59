---------------------------- MODULE MCHistorySync ----------------------------
(***************************************************************************)
(* Instances of HistorySync for TLC: one flow of a few lines, frames of    *)
(* one or two records, a wire of one or two messages.                      *)
(***************************************************************************)
EXTENDS HistorySync

\* A line rewritten in place or a failure of a socket, an end or the cache.
AnyTrouble == {"rewrites", "faults"}
OnlyRewrites == {"rewrites"}
=============================================================================
