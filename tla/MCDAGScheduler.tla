---------------------------- MODULE MCDAGScheduler ----------------------------
(* Small instances of DAGScheduler.                                          *)
EXTENDS DAGScheduler, TLC

CONSTANTS g1, g2, g3, g4

MCOrder == [g \in Groups |-> CASE g = g1 -> 1 [] g = g2 -> 2 [] g = g3 -> 3 [] g = g4 -> 4]

\* Every acyclic graph on S; those whose order agrees with the dependencies are
\* one of every shape, at least.
GraphsOn(S) == {d \in [S -> SUBSET S] : Acyclic(d)}
OrderedGraphsOn(S) ==
    {d \in GraphsOn(S) : \A g \in S : \A h \in d[g] : MCOrder[h] < MCOrder[g]}

\* A fork whose branches converge again, from a second root as well.
Diamond == g1 :> {} @@ g2 :> {g1} @@ g3 :> {g1} @@ g4 :> {g2, g3}
TwoRoots == g1 :> {} @@ g2 :> {} @@ g3 :> {g1, g2} @@ g4 :> {g1}
Ladder == g1 :> {} @@ g2 :> {} @@ g3 :> {g1, g2} @@ g4 :> {g1, g2}

\* A chain that forks, whose first group may leave nothing behind.
Chain == g1 :> {} @@ g2 :> {g1} @@ g3 :> {g2} @@ g4 :> {g2}

Undisturbed(d) == [graph |-> d, mayBeEmpty |-> {}, canStop |-> FALSE, interrupts |-> 0]
Stoppable(d) == [Undisturbed(d) EXCEPT !.canStop = TRUE]
Interruptible(d) == [Stoppable(d) EXCEPT !.interrupts = 1, !.mayBeEmpty = {g1, g2}]

Everything ==
    {Undisturbed(d) : d \in {Diamond, TwoRoots, Ladder}}
    \cup {[Undisturbed(Chain) EXCEPT !.mayBeEmpty = {g1}]}
    \cup {Interruptible(d) : d \in GraphsOn({g1, g2, g3})}
EveryShape == {Stoppable(d) : d \in OrderedGraphsOn({g1, g2, g3})}
Interrupted == {[Undisturbed(d) EXCEPT !.interrupts = 1] : d \in GraphsOn({g1, g2})}
=============================================================================
