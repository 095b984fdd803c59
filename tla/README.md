# tianluo: a verification project

TLA+ models of the concurrent and stateful core of `tianluo` (`luo`), the
model-checking configurations that exercise them, and TLAPS proofs about them.
Paths are relative to the repository; `tianluo/` stands for `src/tianluo/`.

`tianluo` drives coding agents through a *flow*: a sequence of steps (PLAN,
IMPLEMENT, TEST, SELF_CHECK, …) over one git repository, run by `luo run`, with
its state in files under a state directory. Several processes touch those files:
runs, `luo end-session`, `luo merge`, a daemon that spawns runs and ships their
history, and a web server the daemon talks to.

## 1. The system

### Components, their state and their operations

| Component | State | Operations | Correct when |
|---|---|---|---|
| Merge lock (`commands/merge/merge_lock.py`) | the file `merge.lock`: the inode its name denotes, the record in it, the kernel lock on it | acquire (queue / probe / break stale), release, `luo merge-unlock` | one holder; a live or foreign holder whose record can be read is never broken; nobody waits for ever |
| Run marker (`core/run_pidfile.py`) | `run.pid`: who owns the state directory | exclusive create, reclaim of a dead record, refresh, release | one owner; a crash does not wedge the directory; nothing is left behind |
| End-session (`commands/end_session_cmd.py`) | its claim on `run.pid`, the processes it terminates | inspect, terminate, clear, claim, archive, delete | destroys only while it owns the marker |
| DAG scheduler (`engine/dag_scheduler.py`) | pending / running / launched groups, futures, the condition lock, the stop signal | submit, done-callback, stop, Ctrl-C | each group once, after its dependencies; it returns; reports what happened |
| IMPLEMENT in parallel (`engine/steps/implement.py`, `engine/worktree.py`) | worktrees, branches, commits | relay, fork, merge, commit, fall back | no two groups in one worktree; no commit of a completed group is lost |
| Flow engine (`engine/state_machine.py`, `engine/models.py`) | selected steps, routing index, current step, shared context | `run_step`, `transition_to_next` and the routes out of each step | nothing is completed that was not reviewed; loops are bounded; no finding is lost |
| Review rounds (`engine/review_scope.py`) | active round, owed rounds, fix baselines and the covered-marker | prepare, advance, mark findings, complete, force | an incremental round reaches back to the first unreviewed fix |
| Gates and rulings (`engine/steps/*.py`, `engine/adjudication.py`) | step outputs, deferred findings, description layers | handlers of TEST, SELF_CHECK, ADJUDICATE, CONFIRM, … | outcomes lead where the documents say |
| Run loop (`commands/run.py`) | the failure gate, retries | dispatch, retry, skip, give up, resume | resuming neither repeats nor skips |
| Persistence (`engine/persistence.py`) | header `engine.json`, step bodies, shared context, resumable snapshots, archives | `save_flow`, load and hydrate, archive, prune | no reference dangles, no body is blanked, a flow is resumable exactly while it is open |
| Interjection dialog (`engine/interjection_dialog.py`) | the operator's decision | apply a revised description or a restart | a revision is answered by a full review |
| Stop signal (`stop_signal.py`, the SIGINT handler and the watched step of `commands/run.py`) | the request with its texts, flag, claim and handoff; uninterruptible sections; a watcher per step | request, claim, escalate, consume, clear, drain | one interrupt per request, in a place that bears it; no text is lost; a stop stops |
| Interaction calls (`engine/interaction_calls.py`) | call and answer files | ask, answer, consume | an answer reaches the flow that asked |
| LLM caller (`engine/llm_caller.py`, `engine/retry_context.py`) | agent rotation, retry budget | call, rotate, resume natively | bounded retries, no agent skipped |
| Rewind (`engine/rewind.py`, `engine/workspace_snapshot.py`) | an entry snapshot per step, the generation | restart from a step | what is put back is one state; nothing reviewed before counts for what is not |
| History synchronisation (`daemon/client.py`, `daemon/history.py`, `server/state.py`, `server/ws.py`) | the client's cursors, the server's cache with its gap guard and delivery marker | push, pull, drain, recovery pull, repair, eviction | the cache is a prefix of the source, looks settled only when it is, and catches up |
| Daemon (`daemon/daemon.py`, `daemon/spawner.py`, `daemon/supervisor.py`) | registered roots, running processes | poll, spawn, resume | one live run per flow |
| Release (`engine/merge/reconcile.py`, `engine/steps/version_reconcile.py`, `engine/version_intent.py`) | release commits and tags, intents, the operator's detached edits and their recovery snapshot | reconcile, undo after a rejection, recover | one release per flow, by its own bump; a rejected one never stands; the operator's edits survive |
| Merge back, the rest (`engine/merge/`, `commands/merge_cmd.py`) | git refs, journals, stash | merge, respond, clean up | a failure leaves the main tree as it was |
| Issues (`engine/issue_manager.py`) | issue files | create, renumber, move | no issue lost |

`PROJECT.json` lists every component with its sources, the unmodelled ones
too: agent runners and stream parsers, prompts and formatters, the code index,
command-line parsing, migrations, HTTP endpoints and the container tests are
I/O or text processing, with little state of their own.

### How they interact

* A run takes `run.pid` before it touches the state directory and refreshes it
  when the flow id is known; end-session kills the run, clears what a crash left
  and takes the same marker. The daemon's supervisor decides whether a recorded
  pid lives.
* The run loop alternates `run_step` and `transition_to_next`; each transition
  ends in `save_flow`. Failures, stops and operators' revisions come in between.
* SELF_CHECK's handler reads a pass number and a stash that the transition gave
  it through the step and the context; the transition reads its outputs. The
  round controller lives in the same context, and rulings and revisions reset it.
* IMPLEMENT may run groups in a thread pool. Done-callbacks run on workers, or
  inline on whoever registers them; a stop arrives as a flag or as a
  `KeyboardInterrupt` in the scheduling thread.
* Steps that write to the main tree, and merges, take the merge lock, for one
  step at a time: other flows merge between a flow's merge and its release, and
  while its release is reviewed.
* `engine.json` holds one flow; starting another displaces it into its snapshot.
  Header, snapshots and archives refer to the same step bodies.
* The engine appends to (and in places rewrites) a step's conversation file; the
  daemon reads it from two tasks that share a table of offsets, pushes and
  answers pulls over one socket; the server folds frames into its cache and asks
  again where they leave a gap; the console's polls trigger repairs.

### What is hard

Names are checked and then removed while the file behind them changes (both
locks); a lock is granted on an inode the name no longer denotes; callbacks
re-enter the loop that registers them; interrupts land between two statements;
a save is several files, and other flows prune what it refers to; two tasks
interleave at every await over shared cursors; a release moves an operator's
edits out of the way and back, across failures and kills; a restart puts part of
the state back and keeps the rest; a routing decision depends on a chain of
rounds, fixes, rulings, skipped failures and revised descriptions that no test walks. The
hazards in `PROJECT.json` name each place by line.

## 2. Modules

| Module | Models | Composes / used by |
|---|---|---|
| `MergeLock` | `merge.lock` with its callers and operators | |
| `MergeLock_proofs` | proofs for any number of processes, machines, inodes | extends `MergeLock` |
| `RunMarker` | `run.pid`, runs and end-sessions on several machines | |
| `RunMarker_proofs` | proofs for any number of runs, end-sessions, machines | extends `RunMarker` |
| `RelayPlan` | `classify_chains` as operators on a graph | |
| `TaskGraph` | what running a task graph promises (abstract) | refined by `DAGScheduler` |
| `DAGScheduler` | `DAGScheduler.run`, its pool, worktrees and branches | extends `RelayPlan`, instantiates `TaskGraph` |
| `DAGScheduler_proofs` | proofs for any graphs, group orders, workers, interrupts | extends `DAGScheduler` |
| `FlowEngine` | the step router, review rounds, failure gate, saves | |
| `FlowRewind` | restarts from an earlier step | extends `FlowEngine` |
| `FlowRewindInvariants` | the inductive invariants of `FlowRewind` and the vocabulary of their proofs | extends `FlowRewind` |
| `FlowRewind_proofs` | proofs for any configurations, findings, retries, restarts | extends `FlowRewindInvariants` |
| `FlowSetups` | the flow configurations of the instances | extended by both MC modules |
| `FlowFiles` | the files of a project root: saves, displacement, resume, salvage, end-session | one command at a time, as `RunMarker` has it |
| `FlowFiles_proofs` | proofs for any flows, bodies, number of failures | extends `FlowFiles` |
| `StopSignal` | the stop request with its SIGINT handler, watchers and a watched step | |
| `StopSignal_proofs` | proofs for any number of steps, interjections, Ctrl-C, workers | extends `StopSignal` |
| `HistorySync` | a conversation file, the daemon's two tasks, the socket, the server's cache | |
| `HistorySync_proofs` | proofs for any file length, frame size, wire, number of failures | extends `HistorySync` |
| `VersionReconcile` | releases on the main checkout, with undo and recovery | one step at a time, as `MergeLock` has it |
| `VersionReconcile_proofs` | proofs for any number of flows, failures, edits, rejections | extends `VersionReconcile` |
| `MC…` | small instances of each | |

### MergeLock

A `flock` binds to an inode, the protocol to a name, so the state keeps `path`
(the inode the name denotes), `record[i]` and `flock[i]` for every inode, and
`fd[p]`, the inode a process has open. `pc` and `mode` follow `acquire`:
`Open`, `TryFlock`/`TryFlockFails`/`ReadBusy` for the non-blocking probe,
`FlockGranted` for the queue, `WritePid`; `Check` reads the record after a probe
was granted, to report a dead predecessor. Nobody looks at the name again after
a grant, a queued caller not even at the record. `BreakUnlink`, `BreakOpen`,
`BreakFlock`, `BreakFlockFails`, `BreakFlockError`, `BreakReread` are
`_try_break_stale_and_acquire`. Each system call is a step of its own, since
that is where another process gets in. `InspectLock`/`RemoveLockFile` are `luo
merge-unlock`.

Any of these calls may fail. A failed read is an absent record (`HolderRead`),
as `_read_holder_pid` has it: a first verdict takes that for a dead local
holder, the break loop for a live one. A failed unlink is swallowed. A failed
open or flock ends `acquire` without the lock (`AcquireGivesUp`); in the break
loop a failed flock goes to the next unlink. A failed write or fsync of the
record leaves the lock held while `acquire` raises (`WritePidFails`), and
`Unwind` is what the caller makes of it, by its kind: a run (`SyncProcs`)
releases in the `finally` of `run_flow`; a merge-side step (`StepProcs`), which
acquires before its `try`, is failed by `run_step` in a process that lives on:
its descriptor stays open (`leaked`) and a retry opens another; a command
(`MergeProcs`) ends.

`published` (the holders inside the file when a stale verdict is passed),
`grounds` (what that verdict rests on) and `stolen` are history variables.

Left out: recycled pids; torn records; the process-local table of held lock
paths, which a failed acquire never enters; the variant of probing that only
reports a wait; an interrupt between two statements of `acquire`.

### RunMarker

`marker` is the file: its creator and whether it has its record. The two
publishing steps of `acquire_run_marker` (create, write) are apart, as are the
read and the unlink of a reclaim. `ReadMarker` is what `probe_run_marker` may
answer; with I/O errors any read may be undecodable. Runs go `create … verify →
working → release`; end-sessions `inspect → discover → kill → exists → read →
vet → clear` and then through the same acquire. `Destroy` is any one destructive
step of the window, with `RecheckClaim` (`_abandon_if_claim_lost`) before it.
`world` fixes, once per behaviour, whether I/O errors happen, whether a machine
runs one `luo` at a time and whether end-sessions are run. `evicted` records
that the marker of a live process was removed or replaced; `overrun` counts
destructive steps taken after the claim was lost.

Left out: recycled pids; markers of more than one flow in a directory.

### RelayPlan, TaskGraph, DAGScheduler

`RelayPlan` is `classify_chains`: who inherits a worktree, who forks a branch,
which branches are merged where paths meet. `DAGScheduler` has the sets of the
scheduler, `frames` (the nested runs of `_submit_ready`: a finished future runs
its callback inline, one level deeper), `lock` and `main` for the threads, and
for each group its future, worktree, reported branch and commits. `Claim`,
`Submit`, `Launch`, `AddCallback`, `Unwind` are the statements of the submission
loop between which a Ctrl-C can land; the body of `_on_complete` is one step. A
scenario is a graph together with what may happen to it (stop, interrupt, groups
that commit nothing).

`TaskGraph` is the promise: a group starts after its dependencies are done,
once; one that is given up takes its dependants with it; in the end all are
settled. `ImplementsTaskGraph` is `DAGScheduler` implementing it, with
`GraphStatus` as the refinement mapping.

Left out: FIFO order of the pool (any order is allowed), agents that commit by
themselves, resuming preserved worktrees, interrupts during pool shutdown;
conflicts when forking or merging are part of `Fail`.

### FlowEngine

`flow` is what `engine.json` and the files beside it hold. `Start`,
`StartSelfCheck` and the `Finish…` actions are `run_step`; `Retry`, `Skip`,
`GiveUp`, `Resume`, `Revise` are the run loop and the operator; each remaining
action is one way out of a step in `transition_to_next` (`Begin`, `ToNewStep`,
`ToKnownStep` group them by whether a step is entered, added or gone back to).
What an agent decides is any choice. `code` counts IMPLEMENT executions (the workspace), a description
is the number of its layer. `Save` ends each transition: complete, or cut
between the context file and the header (`Torn`). `setup`, fixed per behaviour,
is the configuration with the bounds on the events.

`clean`, `open`, `reviewed` are history variables, for the properties.

Left out: INVESTIGATE, E2E's own loop (it is a gate like TEST), PAUSED,
configuration edits during a flow, rounds of old formats, operators'
interjections that do not revise the description. A transition that saves twice
is cut only in the last save. Steps that no later transition reads are dropped
from `flow.steps` (`Kept`). A CONFIRM reviews the newest step; the exclusion of
steps that were approved before changes nothing on the routes modelled, for each
of them makes a new step before the next CONFIRM. The branch that discards a
round answering an older description (`state_machine.py:1784-1813`) is never
enabled: `RoundAnswersDescription` says so.

### FlowRewind

`history` has, for each step in the order of the flow, the snapshot its first
entry left (`snapshot_step_entry`). `Restart` is `apply_decision` with a restart
that keeps the workspace, up to the rebuilt step: `Restored` puts everything
derived back and keeps what the code keeps (the chain of revisions, the steps
before the target), `StepsBefore` drops the target and what came after it,
`Rebuilt` makes the target anew through the inputs every step gets. The decision
may carry a revised description. `behind` is history: the target lay behind the
review, in a ruling on it, or in a round of pass 2 or later, and the code or the
description had changed since. Any step that runs or has failed can be restarted
from. While no restart is left, no snapshot is kept, so that the other setups
are those of `FlowEngine`.

Left out: restoring the workspace; worktrees, branches and safety refs of
parallel groups; a snapshot that is missing (the restart is refused, nothing
changes); inputs carried over for INVESTIGATE; a rebuild that fails (it leaves a
marker and is repeated by a resume); the bodies of dropped steps.

### FlowFiles

`engine` is `engine.json`, `snap[f]` the resumable snapshot of a flow, `cold[f]`
its body files, `archive` the retired headers with the bodies copied beside
them. A body stands for the content of a file and for its hash; a flow has three
parts, a completed step, the current step and the shared context, which is what
the rules of hydration tell apart. `BeginSave … WriteBody … WriteHeader …
PruneDisplaced … WriteSnapshot / ClearSnapshot` are `save_flow`, one file
operation per step; `Create`, `Resume`, `Access`, `Rearm`, `Work`, `LeaveStep`,
`Reclaim`, `Exit` a run; `Salvage` and `EndSession` lead through the steps of
`clear_state` and `clear_resumable_snapshot`. `Crash` cuts any of them. What may
fail besides (a body that cannot be read, a best-effort write or removal) is
chosen by `Troubles`. `marks` records what went wrong with a flow's files, for
the properties to except.

Left out: a second command beside the run (the marker excludes it), salvage's
reads failing, the size guards, flows stored inline by old versions, the dirty
sentinel of the daemon.

### StopSignal

`signal` is the `StopSignal`: the published request with its texts, its event
flag, the one-shot claim and the handoff between a watcher's escalation and the
handler. `pc` is the main thread in a step: Python work, LLM calls, sections
that must not be torn, pools of workers, and the statements of
`_execute_step_with_interjections` up to the dialog. `watchers[k]` is the
watcher of the k-th step: it polls the disk, publishes, defers while an LLM call
is in flight, claims and trips SIGINT. The SIGINT handler runs on the main
thread between any two of its steps, cut where the code releases the lock.
`raises`, `astray`, `abandoned`, `metLlm` are history.

Left out: a handler interrupted by another (the handler ignores the second),
nested sections, the dialog's own rounds, the flag of an incomplete result.

### HistorySync

A line is the version of its content; a cursor is the number of lines consumed.
`seen` is the table of read offsets that both daemon tasks share, `cur` the push
loop's water mark, `push` and `drain` the two tasks between their awaits, `up`
and `down` the socket, `srv` the server: bundle, water mark, delivery marker,
pulls under way, timers. `PushRead … PushCommit` are a tick of the push loop,
`DrainStart … DrainSend` the reply to a pull, `Receive` is
`apply_history_frame` with its guards (a gap asks for a recovery pull, a full
frame that would shrink the cache is refused while a pull runs). `PullMissing`,
`PollRepair`, `PollReconcile`, `ServeFull` are the console's polls. `CutSocket`,
`DaemonRestart`, `ServerRestart`, `Evict` are the failures, `Rewrite` the line
changed in place.

Left out: several machines and files, lines without a record, byte budgets,
resuming a failed flow, status that reaches the daemon late; reads that fail or
are cut short (such a reply ends unsent, `client.py:2175-2177`, 2204-2206). A
rewrite is noticed by the next read; `_PrefixVerifier` may notice a rewrite of
bytes it has verified some rounds later. Timers last longer than a reply. Polls
are one step.

### VersionReconcile

`log` is master's first-parent history, each commit with what it holds of the
version file, the changelog and the intents' flags; `tree` is the working copy,
`saved` the recovery snapshot in the git directory. `run` is the process inside
`version_reconcile_handler`: `Recover`, `Collect`, `Capture`, `Detach`,
`Derive`, the writes of the apply phase, `CommitReconcile`, `CreateTag`,
`Reattach`, `Clear` are `reconcile`; `UndoBegins`, `Reset`, `Restore`, `Untag`
are `undo_last_reconcile`. Each file is written, restored and replayed in a step
of its own. `Failure`, `ReattachFailure`, `Interrupt` and `Kill` take the paths
the code gives an error of the listed types, a replay that cannot write, a
`KeyboardInterrupt` (the `finally` without the rollback) and a death. A file's
content is what releases put there and which of the operator's edits it carries;
a three-way merge keeps both sides where they overlap. `Integrate`, `Approve`
and `Reject` are the flow around the step, `Edit` the operator.

Left out: the operator editing while the step runs; two processes in the step
(the merge lock); the merge itself, which lands in one step and leaves the owned
files alone; custom version rules and the checks of a computed number; staged,
deleted and untracked owned files, unreadable intents and snapshots, restores
that fail silently; skipping a failed `version_reconcile` at the failure gate
(`run.py:5744-5760`), which goes on without a release; `luo merge`, which
releases several flows at once, and dry runs. README and VERSIONS.md are one file.

## 3. Runs

| Run | Instance | Shows |
|---|---|---|
| `lock_break` | a run, a step and a command on 2 machines, 1 operator, 3 inodes, 2 break attempts | `ExclusiveUnlessStolen`, `ReadHolderNeverJudgedStale`, types |
| `lock_live` | a run and a step, 1 operator, 2 inodes | `AcquireEnds` |
| `marker_token` | 3 runs on 2 machines, 1 end-session, three worlds | `ExclusiveUnlessEvicted`, `LostClaimStopsDestruction`, `ExclusiveAcrossMachines`, `NothingLeftBehind`, types |
| `dag_safe` | all graphs of 3 groups with stop and Ctrl-C; 4 graphs of 4 groups | `RunsOnce`, `NoSharedWorktree`, `DependenciesVisible`, `CompletedWorkMerged`, types |
| `dag_live` | every shape of 3 groups with stops | `Terminates`, `ImplementsTaskGraph` |
| `flow_safe` | nine setups: rounds with a crash or a failure, rulings, confirmations, skipped passes over a stash, saves cut once and twice, two with a restart | `ReviewedUnlessBehind`, `GateUnlessBehind`, `BookkeepingUnlessBehind`, types |
| `flow_live` | a fix budget, with a rejection, a skipped failure and a cut; no fix, with a failure, a crash and a revision | `Terminates` |
| `history_sync` | 2 lines, frames of 2 records, 1 message each way, 1 trouble | `NoHole`, `SettledUnlessRaced`, `NoSelfInflictedGap`, `Converges`, types |
| `files_safe` | 2 flows, 2 contents of a part, 1 trouble | `RefsResolve`, `SavedIsStored`, `UnreadStaysWhole`, `ResumableWhileOpen`, `BaselinesOutliveResume`, types |
| `stop_safe` | 2 interjections, 2 Ctrl-C, 2 steps, 1 worker | `InterruptsLandSafely`, `DrainedTextKept`, `StopCutsWork`, types |
| `version_safe` | 2 flows, 2 troubles, 1 edit, 1 rejection | `ReleasesFollow`, `EditsKept`, `VerdictHonoured`, types |
| `version_blind` | 1 flow, 1 trouble, 1 edit, 1 rejection | `EditsSurvive` is violated (§6) |

### Bounds, and why they are enough

* Locks: two processes are needed to race and a third for the name to change
  hands between a verdict and an unlink; two machines are needed for a foreign
  pid. Break attempts are bounded by the code (two here, so that the loop is
  taken and exhausted; the code has three). As many inodes as processes never
  run out until a step has lost a descriptor; then the last process to create the
  file may have to wait until another one has closed its orphan. In
  `lock_break` a step loses one descriptor (`OneLeak`); `VIEW LiveFiles` ignores
  what a file holds that nothing refers to any more. The proofs remove these
  bounds for the properties they cover.
* DAG: relay, fork and convergence all exist on three groups and meet on four;
  two workers suffice for a re-entrant callback beside a worker.
* Flow: two passes (a repeat and a last one), two fixes (an incremental round
  over two baselines), thresholds that allow deferral; one or two of each
  event. Three passes and two findings where the stash is the subject. A round
  of one pass would leave nothing to repeat; a third fix repeats the second. One
  restart, over one fix, with a revision before it or in it. By hand: two
  restarts; one over two fixes with TEST in the chain; one over a stash with
  three passes; one with a ruling that is confirmed by an agent and rejected.
* Files: two flows suffice to displace one another and to share a body
  directory's fate; two contents tell a stale body from a fresh one; three parts
  are the three ways a part is hydrated. One trouble per behaviour; two (9
  million states, once by hand) showed nothing new.
* Stop: two interjections (one published while another is drained), two Ctrl-C
  (the second escalates) over two steps, so that a watcher can outlive its own.
* History: two lines in frames of two cover empty, partial, full and closing
  frames. One message each way suffices for a push that overtakes a pull, as
  each task holds one more between its awaits. Frames of one record and a wire
  of two were tried by hand with rewrites only; two troubles, and three lines with
  one, without the liveness property.
* Releases: two flows bury each other's releases; two troubles interrupt a
  release and its repair; instances with two edits, and with two rejections,
  were tried by hand with the bumps fixed.
* History counters stop at the smallest value that shows a violation.

Deadlock is checked except where the system may rest: both locks (all processes
ended), `FlowFiles` (every flow ended), `StopSignal` (the run is over or waits
for a person), `HistorySync` (an archived flow whose history is settled),
`VersionReconcile` (all flows released).

### Fairness

* `MergeLock.FairSpec`: a process inside acquire goes on, a holder finishes, a
  caller whose acquire raised unwinds: a run releases, a command ends (there is
  none in `lock_live`), a step goes to the failure gate, where its process may
  stay for ever. A queued `flock` is granted under strong fairness: the kernel
  serves waiters in turn. Nobody has to start, crash, give up, retry or run
  `merge-unlock`, and no call has to fail.
* `DAGScheduler.FairSpec`: threads that can run do; the condition lock and the
  pool serve a waiter eventually (strong fairness, because others take the lock
  in between); agent calls end (they have time limits). No stop has to come.
* `FlowEngine.FairSpec`: weak fairness of `Next`: the run loop is one thread that
  takes the next step, handlers return, an operator answers a gate.
* `StopSignal.FairSpec`: a tripped signal is handled, each watcher goes on, LLM
  calls, sections and pools end, the run loop's own statements follow each other.
  Python work and dialogs need not end, nobody has to press Ctrl-C or to write.
* `HistorySync.FairSpec`: both daemon tasks and the server go on, timers expire,
  a lost socket is reconnected, a console that has the flow open polls. The flow
  need not write on or end; troubles are bounded.
* `RunMarker`, `FlowFiles`, `VersionReconcile`: no liveness property.

## 4. Proofs

For every value of the constants that satisfies the modules' assumptions.

`MergeLock_proofs`. The inductive invariant `LockInv` adds to the types: a
process has a descriptor exactly in the open states (`FdInv`); the kernel lock
of an inode belongs to the holder that has it open, or to a step that has lost
the descriptor, and to nobody else (`FlockInv`); nobody but a step loses one, and
nobody gets a second lock on an inode (`LeakInv`); the attempt counter is zero
outside the break loop (`BreaksInv`); a holder's record is the one in its file (`RecordInv`); while
nothing was stolen all descriptors denote the file the name denotes
(`PathInv`). Two holders would then have the same inode, and its lock has one
owner. `ExclusiveUnlessStolen` alone is not inductive: it says nothing of a
process whose descriptor is about to be granted. `ReadHolderNeverJudgedStale`
follows from `RecordInv`: a record that was read and does not make the reader
take the lock for held names nobody inside (`StaleVerdictSound`).

* `LockInvariant`, `TypeCorrect` (`TypeOK`, with the bound of the break loop),
  `Exclusive` (`ExclusiveUnlessStolen`), `VerdictSound`
  (`ReadHolderNeverJudgedStale`).

`RunMarker_proofs`. `MarkerInv` adds to the types where an owner can be
(`OwnerInv`) and what the marker is at each place while nobody was evicted
(`TokenInv`): an owner's, verifier's or releaser's file is complete and its own,
a writer's is its own and empty, and an owner never judges another. `CrossInv`
supposes one `luo` at a time per machine and no end-session: a record is only
judged by a process of its own machine, whose being alive proves that the
recorded one has ended, and nobody else can remove the file meanwhile; so nobody
is ever evicted. `ClaimInv` says that an end-session which saw its claim lost is
past the steps that destroy. `LeftInv`, while I/O works: whoever made the marker
on disk owns it, is on the way to own or to remove it, or was killed.

* `MarkerInvariant`, `TypeCorrect` (`TypeOK`), `Exclusive`
  (`ExclusiveUnlessEvicted`), `CrossMachine` (`ExclusiveAcrossMachines`),
  `LostClaimStops` (`LostClaimStopsDestruction`), `NothingLeft`
  (`NothingLeftBehind`).

`DAGScheduler_proofs`. `RunsOnce`, `NoSharedWorktree` and `DependenciesVisible`
say nothing of how the sets, the nested loops and the pool fit together, so none
of them is inductive. `DAGInv` adds to the types:

* `LoopInv`: whoever holds the lock runs the submission loops, what they have
  left was claimed by one of them, and only the innermost is in the middle of a
  group. This is what makes a nested `_submit_ready`, a Ctrl-C between claim and
  submission, or a future that is done before its callback is added harmless.
* `SetsInv`, `DepsInv`, `RanInv`: pending, running and skipped against the
  futures; a claimed group has every dependency completed; how often a group ran,
  by the life of its future.
* `WorktreeInv`: of the groups that worked in one worktree all but one have handed
  it on to a later group. Two of them executing at the same time would both wait
  for the other's heir.
* `CommitInv`: a commit is in its group's worktree and in that of every group that
  started after it, through relay, fork and merge.

What is abandoned with a failed group is still pending (`LostIsPending`), which
rests on `Downstream` being the least set closed under dependants. The graph is
arbitrary, so facts about paths in it are shown by a least counterexample
(`LeastNatural`, from `WFMin`) instead of an induction. `Refinement` maps each
step: while no Ctrl-C hit the scheduling thread, `Execute` and `ExecuteFails` are
`Start`, `OnComplete` is `Finish`, or `Abandon` of the group with what
`_propagate_failure` skips, `BeginStop` is `Abandon` of everything pending, and
the rest stutters; afterwards the abstract graph is `disturbed`, as it is in the
property the run checks. `MergeInv` adds that a branch name that
a group reports is that of its worktree when every group leaves something to
commit; a completed group then reaches, through completed dependants, one that
has none (`LastOf`, the place where acyclicity is needed), whose branch is merged.

The assumptions are that groups are apart from the marker `NoGroup` and from the
names "free" and "main" of lock holders, that the graphs are finite, acyclic and
closed, as `classify_chains` and the parser of the plan leave them, and that there
is a worker.

* `DAGInvariant`, `TypeCorrect` (`TypeOK`), `GroupsRunOnce` (`RunsOnce`),
  `WorktreesApart` (`NoSharedWorktree`), `DependenciesSeen`
  (`DependenciesVisible`), `Refinement` (`ImplementsTaskGraph` without its
  fairness), `MergeInvariant`, `WorkMerged` (`CompletedWorkMerged`).

`StopSignal_proofs`. `StopInv` adds to the types: what is in flight at each place
of the main thread (`PlaceInv`); a handler serves somebody, has published before
it goes on, and found nothing to tear before it claims (`HandlerInv`); a set event
belongs to a request except between the halves of a `clear()`, and a request of
which a claim is left has raised nothing (`RequestInv`, from which `raises <= 1`
follows); while every `watcher.stop()` came to its end, only the current step's
watcher lives, inside the region that catches its interrupts (`WatcherInv`).

* `StopInvariant`, `TypeCorrect` (`TypeOK`), `InterruptsSafe`
  (`InterruptsLandSafely`), `TextKept` (`DrainedTextKept`).

`FlowFiles_proofs`. `FilesInv` relates five places that name a flow's bodies:
engine.json, the snapshot, the files, the flow in memory, the history.

* `CoreInv`, whatever fails: the types; who works on which flow (`WorkInv`); what
  counts as loaded was read or produced (`WholeInv`).
* `HeaderInv`: while a run is past its header, or a retirement before its unlink,
  engine.json is the flow at work; what a retirement copied is what is there; a
  header is open as long as its flow is.
* `ResolveInv`: the references of the flow in memory resolve too, and whatever
  the next header will name is written or still to be written. Each pruning
  removes bodies that neither engine.json nor a snapshot names.
* `OpenInv`: away from the window between header and snapshot, a flow has a
  snapshot exactly while it is open, but for the marks. `DiscardInv`: a flow
  without baselines has no snapshot, and completed if engine.json holds it.
* `StoredInv`: every reference agrees with the file it names, which is why a save
  may skip a body for the hash in the flow's own header (`SaveKeeps`); a save
  that was cut off breaks this and is marked.

All but `CoreInv` suppose `"header" \notin Troubles`, `RefsStay` also
`"unlink" \notin Troubles`: section 6 says what happens with them. Crashes, bodies
that cannot be read, failed writes and removals are allowed in any number. The
first attempt at `OpenInv` failed: a failed archive followed by a failed removal
dropped the mark "kept" of a snapshot that an earlier removal had left. Two
failures in the model checker's run do not reach that; `Unlink` now keeps the mark.

* `CoreInvariant`, `TypeCorrect` (`TypeOK`), `UnreadKept` (`UnreadStaysWhole`),
  `FilesInvariant`, `RefsStay` (`RefsResolve`), `BaselinesKept`
  (`BaselinesOutliveResume`), `ResumableKept` (`ResumableWhileOpen`), `SavedKept`
  (`SavedIsStored`).

`VersionReconcile_proofs`. `ReleaseInv` says what is where at each place of the
process; while a step has the operator's edits detached, the tree shows neither the
release nor the edits whole.

* Types, and `PlaceInv`: which of `undoing`, `error`, `unplayed` can be set where,
  and that the flow at work is between its merge and its review.
* `LogInv`: commits are told apart, each follows the one before by its flow's bump,
  and a flow is released once. Only a merge, `CommitReconcile` and `Reset` move the
  history, and what `Reset` takes back is the only release of the flow at work.
* `WriteInv`: the operator's files are HEAD's when the version is derived, the target
  is HEAD's version with one bump, and the tree that is committed is HEAD's with that
  version and one entry. This is why an edit, conflict markers or the residue of a
  dead run never get into a release.
* `KeepInv`: unless an undo began over another run's snapshot, what memory holds is
  what the disk holds, and an edit that is not in the tree is in the snapshot.
* `ResidueInv`: snapshots taken of a whole tree are even (base and edited copy hold the
  same of releases), so a replay by three-way merge brings back edits and nothing else.
* `VerdictInv`, `TagInv`: a run that may still end in review has no release of its
  flow or one that nobody rejected; a tag without its commit is the one that the undo at
  work is about to remove.

Nothing is assumed of the constants but that the flows are finitely many, which a
fresh commit hash rests on.

* `ReleaseInvariant`, `TypeCorrect` (`TypeOK`), `ReleasesAdvance` (`ReleasesFollow`),
  `EditsStay` (`EditsKept`), `VerdictStands` (`VerdictHonoured`).

`HistorySync_proofs`. `SyncInv` is about windows.

* Every frame that exists, read by the push, planned, read for a pull or on the wire,
  covers lines `base` to `upto` of the file as it is: files only grow, whatever is
  rewritten in place. A full frame starts at line 0 and may replace the cache.
* The server's mark is never beyond its records, and is empty only when there are
  none. So the gap guard, which looks at the mark alone, lets an append through only
  if it starts within the records: it extends them, and no frame, however late or
  often told, leaves a hole.
* The push loop's terminator is an empty window at its cursor, so it needs one:
  `open`, that the last frame said more was coming, is set only for a flow with lines,
  and a flow that the tick did not list has a cursor if it is open.

`NoHole` alone is not inductive: it says nothing of the frames in flight. Of the
constants only `BoundsAssumption` is used.

* `SyncInvariant`, `WholePrefix` (`NoHole`), `TypeCorrect` (`TypeOK`).

`FlowRewind_proofs`. The engine is a router over a sequence that rulings rewrite, so
its types depend on where things are. The invariants are in `FlowRewindInvariants`.

* `RewindInv` adds to the types what a step relies on when it looks something up: the
  sequence holds the IMPLEMENT and the SELF_CHECK a transition goes back to (`HasSlots`)
  and, in a flow that runs, the index names a slot (`Routed`); the rounds and layers a
  flow refers to exist (`Grounded`). The same holds of every snapshot, whose step is
  pending and which names nothing newer than the flow: the code and the layers only grow
  (`Progress`), so an old snapshot stays sound, and a restart mixes one with the flow.
* The sequence (`SequenceInv`): a flow is at a slot of the sequence it began with, or
  inside a ruling (`Placed`), which has exactly one ADJUDICATE before the slot of SELF_CHECK
  with some CONFIRMs behind it. Stripping it takes them out only because the ADJUDICATE is
  the newest step and what a CONFIRM reviews: `InRuling` says so, and that a confirmation
  inside a ruling was approved if it is over. The snapshots are places too, which a
  restart needs. The theorem is about flows without configured confirmation steps
  (`Standard`, a condition on the flow's configuration, not on the constants): with them,
  §6, a CONFIRM may take an old ruling for the one it reviews.
* `EngineAssumption` says of the configurations that a base sequence names no type twice,
  CONFIRM apart, that SELF_CHECK is not its last step and stands behind IMPLEMENT: as
  the sequences of `models.py:1258-1282` and `config.py:3815-3852` do.

* The review (`ReviewInv`, while no save was cut, SELF_CHECK cannot be skipped and no
  restart went behind): a round is active only at SELF_CHECK (`ReviewOf`); one that
  counts as full has read everything and its pass number is what `clean` says, or
  findings wait (`RoundHolds`); an answer belongs to the round, and its deferred
  findings include those that it was given (`AnswerHolds`); behind the slot of
  SELF_CHECK there have been `Passes` clean passes, or a full round is owed
  (`PastReview`). `CompletedReviewed` is its last line only; the invariant also says it
  of every snapshot, from which a restart continues.
* `GateInv`: a step behind the review that has not been entered is pending and no revision
  waits there, so a snapshot behind the review owes nothing. Revising over a done step
  would break that, hence `~ReviseDone`.
* Where findings wait (`FindingsInv`): at SELF_CHECK in what the pass was given, deferred
  or answered, according to its status (`HeldBy`); in a ruling both with the step that rules and
  the SELF_CHECK behind it (`Ruled`), which a restart and a ruling without a contradiction
  need; elsewhere nowhere. A stash is only ever held by a round that is active, so the
  rescue of one (`RescuePass`, `RescueToFix`) never comes when nobody may skip
  (`NothingHeld`).
* `BudgetInv`: inside a ruling one fix is left (`Budget`), for `LandRuling` spends one
  without asking.
* How far back a review reaches (`ScopeInv`): the next incremental round starts at a
  fix that was seen or before all others (`NextReaches`), the active one did
  (`RoundReaches`). Behind a pass the code is seen as it is (`Seen`), so any baseline recorded
  there will do; before SELF_CHECK either a fix is on record or a full round comes
  (`Owed`), so that none is recorded over code that nobody saw.

  `FindingsInv` and `ScopeInv` hold with cut saves as well: `Torn` leaves the flow at its
  step, with that step's answer and the rounds of the next.

* `RewindInvariant`, `RewindTyped` (`RewindTypeOK`), `SequenceKept`
  (`SequenceRestored`), `CompletionReviewed` (`ReviewedUnlessBehind`), `GateKept`
  (`GateUnlessBehind`, with `~ReviseDone`), `BookkeepingKept`
  (`BookkeepingUnlessBehind`, with `~ReviseDone` and SELF_CHECK not skippable; §6
  says what happens otherwise).

Only model-checked: the flows of `MCFlowRewind` with configured confirmation steps
(outside `Standard`); of `HistorySync` `SettledUnlessRaced` and
`NoSelfInflictedGap`, which hang on the order of frames that a channel may lose, repeat and
delay.
Out of the prover's reach, and left to TLC: liveness under fairness
(`AcquireEnds`, `Terminates`, `Converges`, `StopCutsWork`, the liveness half of
`ImplementsTaskGraph`), ENABLED, induction over data.

## 5. Reading the properties

The properties with a condition say where the code's guarantee ends.

* `ExclusiveUnlessStolen`, `ExclusiveUnlessEvicted`: acquisition, crashes,
  abandoned waits and failed writes never let two in, only the removal of a file
  by name does. `AcquireEnds` includes that a queued caller is served; it excepts
  the time in which a step whose acquire raised keeps the lock (§6).
* `ReadHolderNeverJudgedStale`: a stale verdict meets a holder that is inside and
  has published its record only after a failed read, in a first verdict, or after
  a failed flock, in the break loop. Whoever reads the record, on whatever
  machine, never condemns its writer.
* `RunsOnce` includes that no group that was launched is reported as skipped,
  except after Ctrl-C in the scheduling thread; `CompletedWorkMerged` supposes
  that each group commits something; `Terminates` and `ImplementsTaskGraph` of
  `DAGScheduler` speak of runs no Ctrl-C disturbs. §6 says why.
* `flow_safe` checks `FlowRewind`, whose properties are those of `FlowEngine`
  (`CompletedReviewed`, `ReviewBookkeeping`, `GateNeedsCleanRound`) for flows
  that may be restarted, with `behind` excepted: such a restart takes the code as
  it is past the review and forgets what the review still owed. Without a restart
  `behind` is FALSE and they are the properties of `FlowEngine`.
  `SequenceRestored` and `FindingsKept` hold after any restart.
* `ReviewBookkeeping` of `FlowEngine` is the conjunction of `ScopeReachesUnreviewed`
  (an incremental round reaches back to the first unreviewed fix),
  `SequenceRestored` (spliced slots go away), `FindingsKept` (no deferred finding
  is lost), `RoundAnswersDescription` (an active round answers the description in
  force) and the fix budget. `Orderly` (no pass of SELF_CHECK may be skipped, no
  save was cut) is the condition of the last two, `CompletedReviewed` and
  `GateNeedsCleanRound` where §6 shows why they need one.
* `SettledUnlessRaced` excepts two races of a push with a pull; one is a stale full
  frame that ends before what the server had been told, which drops records or,
  after an eviction, the place an append would have gone to;
  `NoSelfInflictedGap` supposes no failure, no rewritten line and no frame that took
  records away; `Converges` supposes a flow that is still written to, or no failure.
* `SavedIsStored`, `ResumableWhileOpen` except a flow whose save was cut, or
  whose snapshot could not be written or removed, by the marks of `FlowFiles`.
* `DrainedTextKept`, the last part of `InterruptsLandSafely` and `StopCutsWork`
  suppose that no `watcher.stop()` ended before its thread; `StopCutsWork` also
  that the request met no LLM call.
* `EditsKept` supposes that no undo began over a leftover snapshot;
  `VerdictHonoured`, for its tags, that no undo was cut short.

## 6. Where the code and its documents disagree

With a run of its own (`findings` in `PROJECT.json`):

* `version_blind`: only `reconcile` replays the recovery snapshot of an earlier
  run, `undo_last_reconcile` does not. An undo that fails or dies after it has
  detached the operator's edits is followed by another undo; that one finds a
  clean tree, and deletes the snapshot with the only copy.

Met while modelling, reproducible by giving the modules other values:

* `MergeLock!MutualExclusion`, with two synchronous callers on one machine: the
  stale break removes the file of a process that has the kernel lock and has not
  yet written its record; two callers are inside.
* `MergeLock!PublishedHolderNeverJudgedStale` and `ForeignHolderNeverBroken`, in
  the instance of `lock_break`: `_read_holder_pid` answers any `OSError` with no
  pid and no machine (`merge_lock.py:351-378`), which counts as a dead local
  holder, and `break_stale=True` removes the file (751-766) under a holder that
  is inside and has published its record, also one of another machine, though a
  "foreign holder is never judged stale" (`merge_lock.py:34-36`, 721-723). In the
  break loop a flock that fails with another error than being held goes to the
  next unlink without another read (`merge_lock.py:631-633`), though "only a
  holder we can positively re-prove stale is force-broken again" (605).
* `MergeLock!LockReleasedOnError`, and `AcquireEnds` without its exception: a
  merge-side step acquires the lock outside the `try` that releases it
  (`state_machine.py:1088`, 1089-1111). When the write of its record raises, after
  the lock was granted, the process waits at the failure gate with the lock, "released,
  even on error" (1040); if the operator retries, it finds its own live pid, or
  breaks its own lock, or queues behind itself, and everybody else queues too.
* `RunMarker!OneOwner`, with three runs of one machine (`RunsOnly`): two judge
  one dead record; the second removes the file the first has created and
  verified.
* `DAGScheduler!Terminates` without its condition, with `Interrupted`: Ctrl-C
  between `launched.add` and `add_done_callback` leaves a group in `running` for
  ever; and one between `submit` and `launched.add` has a group run that is
  reported as skipped (`dag_scheduler.py:771-773`).
* `DAGScheduler!NamedBranchHasCommit` (`implement.py:1798-1799`), with
  `mayBeEmpty` not empty: a group that relays the worktree of one without changes
  reports a branch that was never created.
* `FlowEngine!LandedRulingRewrites`, with `ConfirmedSetups`: a CONFIRM behind
  IMPLEMENT, after a fix that followed a ruling without a contradiction, reviews
  that ruling; approving it lands it. SELF_CHECK runs again, past the budget, and
  the CONFIRM slot is gone from the sequence.
* `FlowEngine!FindingsKept` and `GateNeedsCleanRound`, with `reviseDone` true and
  one revision: a description revised over a finished pass drops the active
  round, and with it the deferred findings (`state_machine.py:1792-1794`) or the
  full round owed before the next gate (`state_machine.py:1913-1914`).
* The fix budget, with SELF_CHECK skippable, two passes, two failures and a
  threshold of two: the rescue of a stash enters the fix loop outside the check
  of the budget (`state_machine.py:1858-1873`).
* `FlowEngine!FindingsKept`, with SELF_CHECK skippable and one cut save: a save cut in the
  rescue of a stash leaves the step failed, its stash empty and its answer replaced
  (`state_machine.py:3244-3290`, called at 1848-1875); if the operator skips it
  again nothing is found unflushed, and the flow goes on without the findings.
* `FlowEngine!SequenceRestored`, with CONFIRM skippable and rulings confirmed by
  an agent: the slots stay (`state_machine.py:2683-2687`).
* `FlowEngine!ConfirmReviewsItsStep`, with CONFIRM in the chain: after a fix the
  slot behind IMPLEMENT reviews the gate that asked for the fix
  (`docs/configuration.md:394-395`); if that gate is E2E and the reviewer
  rejects, E2E runs again and the flow completes without a review of the fix
  (`CompletedReviewed`). If it is a ruling without a contradiction and the reviewer
  rejects, the flow is back in ADJUDICATE, whose slot is gone from the sequence
  (`SequenceRestored`).
* `FlowEngine!GateNeedsCleanRound` without its condition, with one pass and one
  cut: a crash between context and header, in the save that enters the closure
  round, counts the round as run (`review_scope.py:629-635`).
* `FlowRewind!ReviewedUnlessBehind` without `behind`: a restart of the gate
  behind SELF_CHECK with a revised description completes without a review of
  that description. `apply_decision` forces a full pass
  (`interjection_dialog.py:1047-1052`), and the restore that follows puts the
  rounds of the snapshot back (`rewind.py:422-430`), so that the reflow which is to
  come "before downstream gates may advance" (`state_machine.py:3362-3365`) finds
  nothing owed. Likewise a
  restart that keeps the workspace, to the gate or to a later pass, after a
  fix: the edits stay and nothing reviews them (`rewind.py:770-781` asks for it).
* `FlowRewind!Restart`, to an ADJUDICATE step: the rebuilt step has neither the
  findings nor the gate that sent them, so a ruling without a contradiction
  drops them and reviews anew (`state_machine.py:2857-2863`). To a ruling's
  CONFIRM, rejected after a later fix: the next incremental round does not
  reach that fix (`ReviewBookkeeping` without `behind`).
* `FlowFiles!BaselinesOutliveResume`, with `Troubles <- Unreadable`: when
  `engine.json` cannot be read, end-session takes the flow for one without a main
  session, keeps its files and discards its baselines
  (`end_session_cmd.py:1417-1425`); a pruning that reads nothing there takes a
  referenced body for an orphan (`RefsResolve`).
* `FlowFiles!EveryBodySurvives`: `_rearm_resumed_step` makes the current step's
  body authoritative although it could not be read (`models.py:188-200`).
* `FlowFiles`, with `"unlink"` among the troubles: an archive whose live header
  stays is retried from a body directory that is gone.
* `StopSignal!InterruptedWasCutShort`, with one interjection and no Ctrl-C: a
  `KeyboardInterrupt` around `watcher.stop()` throws away the result of a step
  that had returned (`run.py:4349`; the docstring, 4329-4332, says otherwise).
* `StopSignal!DeferralPostpones`: a watcher that deferred to an LLM call
  (`stop_signal.py:408`) drops its escalation (488-490); if the call ends by
  itself nobody interrupts the Python work behind it.
* `StopSignal`, the properties without `abandoned`: a `watcher.stop()` cut by an
  interrupt, or a drain slower than its join, leaves a watcher that publishes
  after the dialog; the next `clear()` drops its text. `HandlerSticks`: Ctrl-C
  handled inside `Event.clear()` waits for the event's own lock for ever.
* `HistorySync!RewriteRedelivered` (`history.py:2224-2227`), with
  `Troubles <- OnlyRewrites`, `Chunk` 1, `MaxLines` 2, `MaxWire` 2: the task
  whose frame is never sent consumes the notice of the rewrite.
* `HistorySync!SettledIsWhole`: a refused closing append (`state.py:2065`, the
  docstring at 2141 says it cannot), or a full frame read before a drain and sent
  after it (`client.py:2830`); and a last frame lost in the socket of a quiet
  flow is not repaired (`client.py:2694`).
* `VersionReconcile!VerdictHonoured` without its condition: an undo cut between
  its reset and the removal of the tag leaves a tag that the recomputed release
  can never take; and a commit whose tag was refused is not tagged by a retry,
  which finds nothing to do.

## 7. Not modelled, and why

* The merge orchestrator, worktrees, issue renumbering: git plumbing and agent
  calls around one merge, whose effect `VersionReconcile` and `DAGScheduler` take
  as a step.
* The daemon's spawning and resuming of runs: its race (two live runs of one
  flow, `daemon.py:485`) ends at the run marker, which is modelled; what is left
  is process discovery.
* Restoring the workspace and the parallel groups of a dropped step on a restart:
  git plumbing behind one switch. `rewind_to_step` also removes the bodies of
  dropped steps before the header that names them is replaced
  (`rewind.py:911-913`), a window `FlowFiles` does not have.
* The LLM caller and agent runners: their decisions hang on texts that agents
  print and on clocks.
* Interaction calls other than interjections, prompts, formatters, the code
  index, configuration, command lines, migrations, HTTP endpoints, container
  tests: request handling and text processing, with little state of their own.

## 8. Plan

Proofs that are left: `SettledUnlessRaced` and `NoSelfInflictedGap` of `HistorySync`, and
the review properties of `FlowRewind` for flows with configured confirmation steps, as far
as §6 lets them hold. The modules keep recursion out for that.
