------------------------------- MODULE TaskGraph -------------------------------
(***************************************************************************)
(* What running a graph of task groups promises, whatever schedules it: a  *)
(* group runs after all its dependencies are done, once; a group that does *)
(* not get done takes everything that depends on it with it; in the end    *)
(* every group is settled.  Nothing is promised once the scheduling thread *)
(* was disturbed.                                                          *)
(***************************************************************************)
CONSTANT Groups

VARIABLES graph,   \* graph[g]: the groups g depends on
          status,  \* "waiting", "running", "done" or "abandoned"
          disturbed

Init ==
    /\ DOMAIN graph \subseteq Groups
    /\ graph \in [DOMAIN graph -> SUBSET DOMAIN graph]
    /\ status = [g \in DOMAIN graph |-> "waiting"]
    /\ disturbed = FALSE

Start(g) ==
    /\ status[g] = "waiting"
    /\ \A d \in graph[g] : status[d] = "done"
    /\ status' = [status EXCEPT ![g] = "running"]
    /\ UNCHANGED <<graph, disturbed>>

Finish(g) ==
    /\ status[g] = "running"
    /\ status' = [status EXCEPT ![g] = "done"]
    /\ UNCHANGED <<graph, disturbed>>

\* Groups are given up, never without what depends on them.
Abandon(S) ==
    /\ \A g \in S : status[g] \in {"waiting", "running"}
    /\ \A g \in DOMAIN graph :
         graph[g] \cap S # {} => g \in S \/ status[g] = "abandoned"
    /\ status' = [g \in DOMAIN graph |-> IF g \in S THEN "abandoned" ELSE status[g]]
    /\ UNCHANGED <<graph, disturbed>>

Disturb ==
    /\ disturbed' = TRUE
    /\ status' \in [DOMAIN graph -> {"waiting", "running", "done", "abandoned"}]
    /\ UNCHANGED graph

Next ==
    \/ Disturb
    \/ \E g \in DOMAIN graph : Start(g) \/ Finish(g)
    \/ \E S \in SUBSET DOMAIN graph : Abandon(S)

Settled == \A g \in DOMAIN graph : status[g] \in {"done", "abandoned"}

Spec ==
    /\ Init /\ [][Next]_<<graph, status, disturbed>>
    /\ <>(Settled \/ disturbed)

=============================================================================
