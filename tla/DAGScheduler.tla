----------------------------- MODULE DAGScheduler -----------------------------
(***************************************************************************)
(* The parallel IMPLEMENT step: DAGScheduler.run (engine/dag_scheduler.py) *)
(* feeding a thread pool, and the git side of a group's execution (the     *)
(* execute_fn of engine/steps/implement.py).                               *)
(*                                                                         *)
(* One condition lock guards the scheduler's sets.  It is held by the      *)
(* scheduling thread or by a worker that runs a done-callback.  The        *)
(* submission loop is modelled statement by statement, because a finished  *)
(* future runs its callback inline and so re-enters the loop, and because  *)
(* a Ctrl-C can cut the scheduling thread's own run of it.                 *)
(*                                                                         *)
(* A worktree is named by the group that created it and has that group's   *)
(* branch checked out; content[c] is the set of groups whose commit branch *)
(* c contains.                                                             *)
(***************************************************************************)
EXTENDS RelayPlan, Sequences

CONSTANTS Groups, Order,    \* the task groups, group_order
          MaxWorkers,
          Scenarios         \* the graphs to run, and what may happen to them

\* graph: the task groups and their dependencies; mayBeEmpty: groups that may
\* leave nothing committed; canStop: whether a stop may be requested;
\* interrupts: KeyboardInterrupts raised in the scheduling thread, at most.
ASSUME DAGAssumption ==
    /\ \A s \in Scenarios :
         /\ DOMAIN s.graph \subseteq Groups /\ IsFiniteSet(DOMAIN s.graph)
         /\ s.graph \in [DOMAIN s.graph -> SUBSET DOMAIN s.graph]
         /\ Acyclic(s.graph)
         /\ s.mayBeEmpty \subseteq Groups
         /\ s.canStop \in BOOLEAN
         /\ s.interrupts \in Nat
    /\ Order \in [Groups -> Nat]
    /\ MaxWorkers \in Nat \ {0}
    /\ Groups \cap {NoGroup, "free", "main"} = {}

VARIABLES
    scenario,    \* the member of Scenarios that is played
    pending, running, launched,
    completed,   \* completed[g]: status recorded by the done-callback, or "none"
    skipped,
    frames,      \* the nested runs of _submit_ready, innermost last
    lock,        \* "free", "main", or the group whose worker holds it
    main,        \* where the scheduling thread is
    stop,        \* the process-wide stop signal
    stopped,     \* _begin_stop_locked has run
    interrupts,  \* KeyboardInterrupts raised so far
    future,      \* future[g]: life of g's future and its worker
    callback,    \* futures whose done-callback is registered
    outcome,     \* outcome[g]: the status of g's result
    ran,         \* history: how often execute_fn was started for g
    wt,          \* wt[g]: the worktree g ran in, or NoGroup
    named,       \* named[g]: the branch g's result reports, or NoGroup
    content      \* content[c]: commits on branch c, for the branches that exist

schedVars == <<pending, running, launched, completed, skipped, frames, lock, main>>
stopVars == <<stop, stopped, interrupts>>
poolVars == <<future, callback, outcome, ran>>
gitVars == <<wt, named, content>>
vars == <<scenario, schedVars, stopVars, poolVars, gitVars>>

deps == scenario.graph

Relay(g) == RelayOf(deps, Order, g)
Fork(g) == ForkOf(deps, Order, g)
Merges(g) == Secondary(deps, Order, g)

Init ==
    /\ scenario \in Scenarios
    /\ pending = DOMAIN deps /\ running = {} /\ launched = {}
    /\ completed = [g \in Groups |-> "none"] /\ skipped = {}
    /\ frames = <<>> /\ lock = "free" /\ main = "start"
    /\ stop = FALSE /\ stopped = FALSE /\ interrupts = 0
    /\ future = [g \in Groups |-> "none"] /\ callback = {}
    /\ outcome = [g \in Groups |-> "none"] /\ ran = [g \in Groups |-> 0]
    /\ wt = [g \in Groups |-> NoGroup] /\ named = [g \in Groups |-> NoGroup]
    /\ content = <<>>

-----------------------------------------------------------------------------
(* Operations on the scheduler's sets, run with the lock held.             *)

\* Mutant of Claim: a group leaves `pending` only when it is submitted.
ClaimLate(pend, run, done, below) ==
    LET ready == {g \in pend : \A d \in deps[g] : done[d] # "none"}
    IN /\ pending' = pend
       /\ running' = run \cup ready
       /\ frames' = Append(below, [todo |-> ready, gid |-> NoGroup, at |-> "submit"])

\* _submit_ready: every ready group is claimed before any is submitted, on
\* top of the frames that resume afterwards.  A failed or interrupted group is
\* in `completed` as well; its descendants have left `pending` by then.
Claim(pend, run, done, below) ==
    LET ready == {g \in pend : \A d \in deps[g] : done[d] # "none"}
    IN /\ pending' = pend \ ready
       /\ running' = run \cup ready
       /\ frames' = Append(below, [todo |-> ready, gid |-> NoGroup, at |-> "submit"])

\* Mutants of OnComplete: a declined group is recorded with the executed ones;
\* what depends on a failed group is not skipped; the group stays in `running`.
OnCompleteDeclined(g, below) ==
    LET done == [completed EXCEPT ![g] = outcome[g]]
        lost == IF outcome[g] = "completed" THEN {} ELSE Downstream(deps, g, skipped)
    IN /\ completed' = done
       /\ skipped' = skipped \cup lost
       /\ Claim(pending \ lost, running \ {g}, done, below)

OnCompleteAlone(g, below) ==
    LET done == IF outcome[g] = "skipped" THEN completed
                ELSE [completed EXCEPT ![g] = outcome[g]]
    IN /\ completed' = done
       /\ skipped' = IF outcome[g] = "skipped" THEN skipped \cup {g} ELSE skipped
       /\ Claim(pending, running \ {g}, done, below)

OnCompleteStays(g, below) ==
    LET done == [completed EXCEPT ![g] = outcome[g]]
    IN /\ completed' = done
       /\ UNCHANGED skipped
       /\ Claim(pending, running, done, below)

\* _on_complete: record the result, skip what can no longer run, submit.
OnComplete(g, below) ==
    LET status == outcome[g]
        done == IF status = "skipped" THEN completed ELSE [completed EXCEPT ![g] = status]
        skip == IF status = "skipped" THEN skipped \cup {g} ELSE skipped
        failed == {h \in Groups : done[h] = "failed"}
        lost == IF status = "completed" THEN {}
                ELSE Downstream(deps, g, skip \cup failed)
    IN /\ completed' = done
       /\ skipped' = skip \cup lost
       /\ Claim(pending \ lost, running \ {g}, done, below)

Top == frames[Len(frames)]
WithTop(f) == [frames EXCEPT ![Len(frames)] = f]

-----------------------------------------------------------------------------
(* The submission loop of whoever holds the lock.                          *)

\* executor.submit: from here on a worker may pick the group up.
Submit ==
    /\ frames # <<>> /\ Top.at = "submit"
    /\ \E g \in Top.todo :
         /\ frames' = WithTop([todo |-> Top.todo \ {g}, gid |-> g, at |-> "launch"])
         /\ future' = [future EXCEPT ![g] = "queued"]
    /\ UNCHANGED <<scenario, pending, running, launched, completed, skipped, lock, main,
                   stopVars, callback, outcome, ran, gitVars>>

\* launched.add
Launch ==
    /\ frames # <<>> /\ Top.at = "launch"
    /\ launched' = launched \cup {Top.gid}
    /\ frames' = WithTop([Top EXCEPT !.at = "callback"])
    /\ UNCHANGED <<scenario, pending, running, completed, skipped, lock, main,
                   stopVars, poolVars, gitVars>>

\* add_done_callback registers the callback, or runs it inline when the future
\* is already finished: the loop is re-entered one level deeper.
AddCallback ==
    /\ frames # <<>> /\ Top.at = "callback"
    /\ LET g == Top.gid
           below == WithTop([Top EXCEPT !.at = "submit"])
       IN \/ /\ future[g] # "finished"
             /\ callback' = callback \cup {g}
             /\ frames' = below
             /\ UNCHANGED <<pending, running, completed, skipped>>
          \/ /\ future[g] = "finished"
             /\ OnComplete(g, below)
             /\ UNCHANGED callback
    /\ UNCHANGED <<scenario, launched, lock, main, stopVars, future, outcome, ran, gitVars>>

\* The loop is done; the outermost one gives the lock back, and a worker that
\* ran it is free again.
Unwind ==
    /\ frames # <<>> /\ Top.at = "submit" /\ Top.todo = {}
    /\ frames' = SubSeq(frames, 1, Len(frames) - 1)
    /\ IF Len(frames) = 1
       THEN /\ lock' = "free"
            /\ future' = IF lock \in Groups THEN [future EXCEPT ![lock] = "finished"]
                         ELSE future
       ELSE UNCHANGED <<lock, future>>
    /\ UNCHANGED <<scenario, pending, running, launched, completed, skipped, main,
                   stopVars, callback, outcome, ran, gitVars>>

-----------------------------------------------------------------------------
(* The scheduling thread.                                                  *)

Begin ==
    /\ main = "start" /\ lock = "free"
    /\ lock' = "main" /\ main' = "wait"
    /\ Claim(pending, running, completed, <<>>)
    /\ UNCHANGED <<scenario, launched, completed, skipped, stopVars, poolVars, gitVars>>

\* _begin_stop_locked, when a tick of the wait loop sees the signal: what has
\* not been claimed is dropped.
BeginStop ==
    /\ main = "wait" /\ lock = "free"
    /\ pending \cup running # {}
    /\ stop /\ ~stopped
    /\ stopped' = TRUE
    /\ skipped' = skipped \cup pending
    /\ pending' = {}
    /\ UNCHANGED <<scenario, running, launched, completed, frames, lock, main, stop,
                   interrupts, poolVars, gitVars>>

\* A tick of the wait with nothing to act on.
Tick ==
    /\ main \in {"wait", "drain"} /\ lock = "free"
    /\ UNCHANGED vars

\* A KeyboardInterrupt raised in the scheduling thread, while it waits or while
\* it runs the submission loop.  What was claimed but not launched is reported
\* skipped; then the thread waits for `running` to drain.
Interrupt ==
    /\ interrupts < scenario.interrupts
    /\ main = "wait" /\ lock \in {"free", "main"}
    /\ interrupts' = interrupts + 1
    /\ stop' = TRUE /\ stopped' = TRUE
    /\ skipped' = skipped \cup pending \cup (running \ launched)
    /\ pending' = {}
    /\ running' = running \cap launched
    /\ frames' = <<>> /\ lock' = "free" /\ main' = "drain"
    /\ UNCHANGED <<scenario, launched, completed, poolVars, gitVars>>

\* Nothing pending or running: on to executor.shutdown(wait=True).
Converge ==
    /\ \/ main = "wait" /\ pending = {}
       \/ main = "drain"
    /\ lock = "free" /\ running = {}
    /\ main' = "shutdown"
    /\ UNCHANGED <<scenario, pending, running, launched, completed, skipped, frames, lock,
                   stopVars, poolVars, gitVars>>

Return ==
    /\ main = "shutdown"
    /\ \A g \in Groups : future[g] \in {"none", "finished"}
    /\ main' = "returned"
    /\ UNCHANGED <<scenario, pending, running, launched, completed, skipped, frames, lock,
                   stopVars, poolVars, gitVars>>

\* Ctrl-C or the interjection watcher, published on the signal only.
RequestStop ==
    /\ scenario.canStop /\ ~stop /\ main # "returned"
    /\ stop' = TRUE
    /\ UNCHANGED <<scenario, schedVars, stopped, interrupts, poolVars, gitVars>>

-----------------------------------------------------------------------------
(* The workers.                                                            *)

Busy == {g \in Groups : future[g] \in {"executing", "done", "calling"}}

\* The result is set: the worker runs the callback if it is registered, else
\* whoever registers it will.
Resolve(g, status) ==
    /\ outcome' = [outcome EXCEPT ![g] = status]
    /\ future' = [future EXCEPT ![g] = IF g \in callback THEN "done" ELSE "finished"]

\* _execute_in_step_scope declines a group it picks up after a stop.
Decline(g) ==
    /\ future[g] = "queued" /\ Cardinality(Busy) < MaxWorkers
    /\ stop
    /\ Resolve(g, "skipped")
    /\ UNCHANGED <<scenario, schedVars, stopVars, callback, ran, gitVars>>

\* The branch whose worktree g works in, and what a new one starts from; the
\* source of a fork may be gone.
Worktree(g) == IF Relay(g) # NoGroup THEN wt[Relay(g)] ELSE g
ForkSource(g) == IF Fork(g) = NoGroup THEN NoGroup ELSE named[Fork(g)]

\* Mutant of MergeSources: a convergence point merges nothing.
NoMergeSources(g) == {}

MergeSources(g) == {named[s] : s \in Merges(g)} \ {NoGroup}
SourcesExist(g) ==
    MergeSources(g) \cup ({ForkSource(g)} \ {NoGroup}) \subseteq DOMAIN content

\* execute_fn starts: the worktree is reused, forked or created, and the
\* secondary predecessors' branches are merged into it.
Execute(g) ==
    /\ future[g] = "queued" /\ Cardinality(Busy) < MaxWorkers
    /\ ~stop
    /\ SourcesExist(g)
    /\ LET w == Worktree(g)
           base == IF Relay(g) # NoGroup THEN content[w]
                   ELSE IF ForkSource(g) # NoGroup THEN content[ForkSource(g)] ELSE {}
           merged == base \cup UNION {content[b] : b \in MergeSources(g)}
       IN /\ wt' = [wt EXCEPT ![g] = w]
          /\ content' = [c \in DOMAIN content \cup {w} |->
                            IF c = w THEN merged ELSE content[c]]
    /\ ran' = [ran EXCEPT ![g] = @ + 1]
    /\ future' = [future EXCEPT ![g] = "executing"]
    /\ UNCHANGED <<scenario, schedVars, stopVars, callback, outcome, named>>

\* git refuses to fork or merge a branch that does not exist.
ExecuteFails(g) ==
    /\ future[g] = "queued" /\ Cardinality(Busy) < MaxWorkers
    /\ ~stop
    /\ ~SourcesExist(g)
    /\ ran' = [ran EXCEPT ![g] = @ + 1]
    /\ Resolve(g, "failed")
    /\ UNCHANGED <<scenario, schedVars, stopVars, callback, gitVars>>

\* branch_name: a relaying group takes over the name its predecessor reports,
\* and its own generated name when that is empty.
BranchName(g) ==
    IF Relay(g) # NoGroup /\ named[Relay(g)] # NoGroup THEN named[Relay(g)] ELSE g

\* The group's agent is done and its changes, if any, are committed to the
\* branch that the worktree has checked out.  A commit that git refuses is only
\* logged.
Complete(g, changes, committed) ==
    /\ future[g] = "executing"
    /\ committed => changes
    /\ committed \/ g \in scenario.mayBeEmpty
    /\ content' = IF committed THEN [content EXCEPT ![wt[g]] = @ \cup {g}] ELSE content
    /\ named' = [named EXCEPT ![g] =
         IF changes \/ Relay(g) # NoGroup \/ Fork(g) # NoGroup
         THEN BranchName(g) ELSE NoGroup]
    /\ Resolve(g, "completed")
    /\ UNCHANGED <<scenario, schedVars, stopVars, callback, ran, wt>>

\* Any exception, or a result that says failed: nothing is committed.
Fail(g) ==
    /\ future[g] = "executing"
    /\ Resolve(g, "failed")
    /\ UNCHANGED <<scenario, schedVars, stopVars, callback, ran, gitVars>>

\* The agent winds down because of a stop; worktree and branch are reported.
WindDown(g) ==
    /\ future[g] = "executing" /\ stop
    /\ named' = [named EXCEPT ![g] = BranchName(g)]
    /\ Resolve(g, "interrupted")
    /\ UNCHANGED <<scenario, schedVars, stopVars, callback, ran, wt, content>>

\* The done-callback on the worker's own thread.
Callback(g) ==
    /\ future[g] = "done" /\ lock = "free"
    /\ lock' = g
    /\ future' = [future EXCEPT ![g] = "calling"]
    /\ OnComplete(g, <<>>)
    /\ UNCHANGED <<scenario, launched, main, stopVars, callback, outcome, ran, gitVars>>

-----------------------------------------------------------------------------

LoopStep == Submit \/ Launch \/ AddCallback \/ Unwind

PickUp(g) == Decline(g) \/ Execute(g) \/ ExecuteFails(g)

WorkStep(g) ==
    \/ \E changes, committed \in BOOLEAN : Complete(g, changes, committed)
    \/ Fail(g) \/ WindDown(g)

Next ==
    \/ Begin \/ LoopStep \/ BeginStop \/ Tick \/ Interrupt \/ Converge \/ Return
    \/ RequestStop
    \/ \E g \in Groups : PickUp(g) \/ WorkStep(g) \/ Callback(g)
    \/ main = "returned" /\ UNCHANGED vars

Spec == Init /\ [][Next]_vars

\* Threads that can run do run, the lock is handed out eventually, and every
\* agent call ends.  Nobody has to ask for a stop.
FairSpec ==
    /\ Spec
    /\ WF_vars(Begin) /\ WF_vars(LoopStep) /\ SF_vars(BeginStop)
    /\ SF_vars(Converge) /\ WF_vars(Return)
    /\ \A g \in Groups :
         SF_vars(PickUp(g)) /\ WF_vars(WorkStep(g)) /\ SF_vars(Callback(g))

-----------------------------------------------------------------------------
(* Results, and what is merged back.                                       *)

Result(g) ==
    IF completed[g] # "none" THEN completed[g]
    ELSE IF g \in skipped THEN "skipped"
    ELSE IF stopped \/ stop THEN "interrupted" ELSE "failed"

\* Mutant of FallbackLeaves: only real leaves are merged.
NoFallbackLeaves == {}

\* get_fallback_leaves
FallbackLeaves ==
    {g \in DOMAIN deps : /\ Result(g) = "completed"
                         /\ Children(deps, g) # {}
                         /\ \A h \in Children(deps, g) : Result(h) # "completed"}

\* branches_to_merge
MergedBranches ==
    {named[g] : g \in {h \in Leaves(deps) \cup FallbackLeaves : Result(h) = "completed"}}
    \ {NoGroup}

Committed(g) == \E c \in DOMAIN content : g \in content[c]

-----------------------------------------------------------------------------
(* Properties.                                                             *)

Statuses == {"none", "completed", "failed", "interrupted", "skipped"}

\* Every variable keeps its type.
TypeOK ==
    /\ DOMAIN deps \subseteq Groups
    /\ pending \in SUBSET Groups /\ running \in SUBSET Groups
    /\ launched \in SUBSET Groups /\ skipped \in SUBSET Groups
    /\ completed \in [Groups -> Statuses \ {"skipped"}]
    /\ frames \in Seq([todo : SUBSET Groups, gid : Groups \cup {NoGroup},
                       at : {"submit", "launch", "callback"}])
    /\ lock \in {"free", "main"} \cup Groups
    /\ main \in {"start", "wait", "drain", "shutdown", "returned"}
    /\ stop \in BOOLEAN /\ stopped \in BOOLEAN
    /\ interrupts \in 0 .. scenario.interrupts
    /\ future \in [Groups -> {"none", "queued", "executing", "done", "calling", "finished"}]
    /\ callback \in SUBSET Groups
    /\ outcome \in [Groups -> Statuses]
    /\ ran \in [Groups -> Nat]
    /\ wt \in [Groups -> Groups \cup {NoGroup}]
    /\ named \in [Groups -> Groups \cup {NoGroup}]
    /\ DOMAIN content \subseteq Groups
    /\ \A c \in DOMAIN content : content[c] \subseteq Groups

\* No group is executed twice, although finished futures re-enter the
\* submission loop ("running it twice", the comment at claim-then-submit).
\* A group reported as skipped never ran at all ("nothing ran for it, so it is
\* reported as skipped"), unless an interrupt hit the scheduling thread.
RunsOnce ==
    /\ \A g \in Groups : ran[g] <= 1
    /\ main = "returned" /\ interrupts = 0 =>
         \A g \in DOMAIN deps : Result(g) = "skipped" => ran[g] = 0

\* Two groups never work in one worktree at the same time, whatever relays,
\* forks and delays put together.
NoSharedWorktree ==
    \A g, h \in Groups :
        future[g] = "executing" /\ future[h] = "executing" /\ g # h => wt[g] # wt[h]

\* A group that executes has every commit of everything it depends on, directly
\* or not, in its worktree.
DependenciesVisible ==
    \A g, d \in Groups :
        /\ future[g] = "executing"
        /\ g \in Downstream(deps, d, {})
        /\ Committed(d)
        => d \in content[wt[g]]

\* After a run that was not stopped, in which every group left something to
\* commit, the branches merged back (leaves, and completed groups none of whose
\* dependants completed) exist and bring home every commit of every completed
\* group, partial failures included.
CompletedWorkMerged ==
    main = "returned" /\ ~stop /\ scenario.mayBeEmpty = {} =>
        /\ MergedBranches \subseteq DOMAIN content
        /\ \A g \in DOMAIN deps : Result(g) = "completed" /\ Committed(g) =>
             \E b \in MergedBranches : g \in content[b]

\* "always preserve the branch name so downstream groups and leaf merge can
\* locate the accumulated commits": a completed group's commit is on the branch
\* its result names.
NamedBranchHasCommit ==
    \A g \in Groups : completed[g] = "completed" /\ Committed(g) =>
        named[g] \in DOMAIN content /\ g \in content[named[g]]

\* run() comes back, with or without a stop ("the stop path must not converge on
\* it forever"), unless an interrupt hits the scheduling thread.
Terminates == <>(main = "returned" \/ interrupts > 0)

\* The run implements the abstract task graph, in which a group that has been
\* started and has no recorded result is running.
GraphStatus ==
    [g \in DOMAIN deps |->
        IF completed[g] = "completed" THEN "done"
        ELSE IF completed[g] # "none" \/ g \in skipped THEN "abandoned"
        ELSE IF ran[g] > 0 THEN "running" ELSE "waiting"]

TG == INSTANCE TaskGraph
        WITH graph <- deps, status <- GraphStatus, disturbed <- interrupts > 0

ImplementsTaskGraph == TG!Spec

=============================================================================
