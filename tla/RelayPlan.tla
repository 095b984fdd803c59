------------------------------ MODULE RelayPlan ------------------------------
(***************************************************************************)
(* The relay plan of a task-group graph (classify_chains in                *)
(* engine/dag_scheduler.py): which group continues in the worktree of a    *)
(* predecessor, which one forks a predecessor's branch, and which branches *)
(* are merged where paths meet.                                            *)
(*                                                                         *)
(* A graph is a function deps: Groups -> SUBSET Groups; order is           *)
(* group_order, the planner's preference.  Unknown dependencies were       *)
(* dropped by the caller.                                                  *)
(***************************************************************************)
EXTENDS Naturals, FiniteSets

NoGroup == "no group"

\* forward and reverse adjacency.
Children(deps, p) == {g \in DOMAIN deps : p \in deps[g]}
Roots(deps) == {g \in DOMAIN deps : deps[g] = {}}
Leaves(deps) == {g \in DOMAIN deps : Children(deps, g) = {}}

\* A member of S with the smallest group_order.
First(order, S) == CHOOSE g \in S : \A h \in S : order[g] <= order[h]

\* The child of p that inherits its worktree.
Heir(deps, order, p) ==
    IF Children(deps, p) = {} THEN NoGroup ELSE First(order, Children(deps, p))

\* Mutant of RelayingPreds: every predecessor hands its worktree on.
RelayingPredsAny(deps, order, g) == deps[g]

RelayingPreds(deps, order, g) == {p \in deps[g] : Heir(deps, order, p) = g}

\* relay_map: the predecessor whose worktree g continues in, if any.
RelayOf(deps, order, g) ==
    IF RelayingPreds(deps, order, g) = {} THEN NoGroup
    ELSE First(order, RelayingPreds(deps, order, g))

\* fork_from: the predecessor whose branch g copies, if g has predecessors
\* and none of them passes its worktree on to g.
ForkOf(deps, order, g) ==
    IF deps[g] = {} \/ RelayOf(deps, order, g) # NoGroup THEN NoGroup
    ELSE First(order, deps[g])

\* convergence_points: the predecessors whose branches are merged into g's.
Secondary(deps, order, g) ==
    deps[g] \ {RelayOf(deps, order, g), ForkOf(deps, order, g)}

\* _kahn_topo_sort orders every group: repeatedly taking away the groups whose
\* dependencies are gone leaves nothing.
Peel(deps, left) == {g \in left : deps[g] \cap left # {}}
Acyclic(deps) ==
    LET left[n \in 0 .. Cardinality(DOMAIN deps)] ==
            IF n = 0 THEN DOMAIN deps ELSE Peel(deps, left[n - 1])
    IN left[Cardinality(DOMAIN deps)] = {}

\* The groups that depend on g, directly or not, along paths that avoid
\* `blocked`: what _propagate_failure_locked visits.
Downstream(deps, g, blocked) ==
    LET closed(S) == /\ Children(deps, g) \subseteq S
                     /\ \A x \in S \ blocked : Children(deps, x) \subseteq S
    IN {h \in DOMAIN deps \ blocked :
            \A S \in SUBSET DOMAIN deps : closed(S) => h \in S}

=============================================================================
