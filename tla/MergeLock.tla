------------------------------ MODULE MergeLock ------------------------------
(***************************************************************************)
(* The main-worktree mutex `merge.lock` (commands/merge/merge_lock.py): an *)
(* flock(2) on a file that the stale-break path and `luo merge-unlock`     *)
(* remove by name.  The kernel binds a lock to an inode, the protocol to a *)
(* name, so the module keeps both: which inode the name denotes, and which *)
(* inode each process has open.                                            *)
(*                                                                         *)
(* Three kinds of caller exist.  A synchronous `luo run` (SyncProcs) and a *)
(* merge-side step of a worktree flow (StepProcs) probe without blocking,  *)
(* retry with break_stale=True when told the holder is dead, and finally   *)
(* queue; `luo merge` and `luo merge-respond` (MergeProcs) queue at once.  *)
(* They differ in what becomes of a lock whose acquire raised: a run lets  *)
(* go of it, a command ends, a step stops at the failure gate of a process *)
(* that lives on.  Operators run `luo merge-unlock`.  Any call on the file *)
(* system may fail.                                                        *)
(***************************************************************************)
EXTENDS Naturals, FiniteSets

CONSTANTS SyncProcs, StepProcs, MergeProcs, Operators,
          Machines, MachineOf,   \* stable_machine_id of every process
          Inodes,                \* inode numbers the file system may use
          NoProc, NoInode,       \* "no process", "no file"
          MaxBreaks              \* _MAX_BREAK_STALE_ATTEMPTS

Procs == SyncProcs \cup StepProcs \cup MergeProcs

\* _ensure_main_lock_for_step and _acquire_merge_step_lock probe first.
Probers == SyncProcs \cup StepProcs

\* An inode number is free once neither the name nor a descriptor refers to
\* it: Inodes bounds the files that exist at once.  The process that creates the
\* file has none open, so as many inodes as processes suffice until a descriptor
\* is leaked.
ASSUME MergeLockAssumption ==
    /\ SyncProcs \cap MergeProcs = {}
    /\ StepProcs \cap (SyncProcs \cup MergeProcs) = {}
    /\ Procs \cap Operators = {}
    /\ \A x \in Procs \cup Operators : MachineOf[x] \in Machines
    /\ NoProc \notin Procs
    /\ NoInode \notin Inodes
    /\ MaxBreaks \in Nat \ {0}

VARIABLES
    path,         \* inode that merge.lock names, or NoInode
    record,       \* record[i]: pid (and machine) written in inode i, or NoProc
    flock,        \* flock[i]: process whose descriptor holds LOCK_EX on i
    fd,           \* fd[p]: inode that p has open for locking, or NoInode
    leaked,       \* leaked[p]: inodes p has locked and has lost the descriptor of
    pc,           \* where p is in MergeLock.acquire / release
    mode,         \* "probe" | "break" | "block": which acquire call p is in, as
                  \* long as that matters
    breaks,       \* breaks[p]: attempts made by _try_break_stale_and_acquire
    published,    \* history: holders inside when p passed its stale verdict
    grounds,      \* history: what that verdict rests on, a "record" that was read,
                  \* one that was "unread", or a lock that was "refused"
    unlocker,     \* unlocker[o]: "idle" | "remove", a running merge-unlock
    stolen        \* history: some unlink removed a file a process had open

verdict == <<published, grounds>>

vars == <<path, record, flock, fd, leaked, pc, mode, breaks, verdict, unlocker, stolen>>

PCs == {"idle", "open", "try", "wait", "check", "write", "crit", "busy",
        "unlink", "reopen", "retry", "reread", "failed", "dead"}

Init ==
    /\ path = NoInode
    /\ record = [i \in Inodes |-> NoProc]
    /\ flock = [i \in Inodes |-> NoProc]
    /\ fd = [p \in Procs |-> NoInode]
    /\ leaked = [p \in Procs |-> {}]
    /\ pc = [p \in Procs |-> "idle"]
    /\ mode = [p \in Procs |-> "block"]
    /\ breaks = [p \in Procs |-> 0]
    /\ published = [p \in Procs |-> {}]
    /\ grounds = [p \in Procs |-> "record"]
    /\ unlocker = [o \in Operators |-> "idle"]
    /\ stolen = FALSE

-----------------------------------------------------------------------------
(* Reading the holder record.                                              *)

\* _read_holder_pid opens the file by NAME, whatever the caller has open.
RecordAtPath == IF path = NoInode THEN NoProc ELSE record[path]

\* Any OSError of the open or the read is answered like an empty record: no pid,
\* and no machine either.
HolderRead(failed) == IF failed THEN NoProc ELSE RecordAtPath

\* Mutant of Foreign: no machine gate, every pid is probed locally.
ForeignUngated(p, r) == FALSE

\* not is_local_machine(holder_machine); an absent record counts as local.
Foreign(p, r) == r # NoProc /\ MachineOf[r] # MachineOf[p]

\* _is_pid_alive probes the LOCAL process table: a pid of another machine is
\* not found there.
Probe(p, r) == MachineOf[r] = MachineOf[p] /\ pc[r] # "dead"

\* A record that makes p take the lock for held, by a live process or an unknown
\* one; without a record it is taken for free.
TakenForHeld(p, r) == r # NoProc /\ (Foreign(p, r) \/ Probe(p, r))

\* The holders that have finished _write_pid on the file the name denotes.
PublishedHolders ==
    {q \in Procs : pc[q] = "crit" /\ fd[q] = path /\ path # NoInode}

-----------------------------------------------------------------------------
(* acquire                                                                 *)

\* A caller enters acquire: runs and steps probe first, merge callers queue.
Begin(p) ==
    /\ pc[p] = "idle"
    /\ pc' = [pc EXCEPT ![p] = "open"]
    /\ mode' = [mode EXCEPT ![p] = IF p \in Probers THEN "probe" ELSE "block"]
    /\ UNCHANGED <<path, record, flock, fd, leaked, breaks, verdict, unlocker, stolen>>

\* os.open(path, O_RDWR | O_CREAT | O_NOFOLLOW).
OpenFile(p) ==
    \/ /\ path # NoInode
       /\ fd' = [fd EXCEPT ![p] = path]
       /\ UNCHANGED <<path, record>>
    \/ /\ path = NoInode
       /\ \E i \in Inodes :
            /\ \A q \in Procs : fd[q] # i /\ i \notin leaked[q]
            /\ path' = i
            /\ record' = [j \in Inodes |-> IF j = i THEN NoProc ELSE record[j]]
            /\ fd' = [fd EXCEPT ![p] = i]

Open(p) ==
    /\ pc[p] = "open"
    /\ OpenFile(p)
    /\ pc' = [pc EXCEPT ![p] = IF mode[p] = "block" THEN "wait" ELSE "try"]
    /\ UNCHANGED <<flock, leaked, mode, breaks, verdict, unlocker, stolen>>

\* The kernel grants LOCK_EX on the inode p has open.
Flock(p) ==
    /\ flock[fd[p]] = NoProc
    /\ flock' = [flock EXCEPT ![fd[p]] = p]

\* Closing the descriptor drops the kernel lock it carries.
CloseFd(p) ==
    /\ fd' = [fd EXCEPT ![p] = NoInode]
    /\ flock' = [flock EXCEPT ![fd[p]] = NoProc]

\* Mutant of FlockGranted: LOCK_SH instead of LOCK_EX.
FlockGrantedShared(p) ==
    /\ pc[p] = "wait"
    /\ pc' = [pc EXCEPT ![p] = "write"]
    /\ UNCHANGED <<path, record, flock, fd, leaked, mode, breaks, verdict, unlocker, stolen>>

\* blocking=True: queue on LOCK_EX; no record is consulted on return.
FlockGranted(p) ==
    /\ pc[p] = "wait"
    /\ Flock(p)
    /\ pc' = [pc EXCEPT ![p] = "write"]
    /\ UNCHANGED <<path, record, fd, leaked, mode, breaks, verdict, unlocker, stolen>>

\* acquire ends without the lock: a Ctrl+C while queued, or an OSError of an open
\* or a flock, after which the descriptor is closed.
AcquireGivesUp(p) ==
    /\ pc[p] \in {"open", "wait", "try", "reopen"}
    /\ fd' = [fd EXCEPT ![p] = NoInode]
    /\ pc' = [pc EXCEPT ![p] = "idle"]
    /\ breaks' = [breaks EXCEPT ![p] = 0]
    /\ mode' = [mode EXCEPT ![p] = "block"]
    /\ UNCHANGED <<path, record, flock, leaked, verdict, unlocker, stolen>>

\* LOCK_EX | LOCK_NB succeeds.
TryFlock(p) ==
    /\ pc[p] = "try"
    /\ Flock(p)
    /\ pc' = [pc EXCEPT ![p] = "check"]
    /\ UNCHANGED <<path, record, fd, leaked, mode, breaks, verdict, unlocker, stolen>>

\* LOCK_EX | LOCK_NB fails with EAGAIN: the descriptor is closed first and the
\* record is read afterwards.
TryFlockFails(p) ==
    /\ pc[p] = "try"
    /\ flock[fd[p]] # NoProc
    /\ fd' = [fd EXCEPT ![p] = NoInode]
    /\ pc' = [pc EXCEPT ![p] = "busy"]
    /\ UNCHANGED <<path, record, flock, leaked, mode, breaks, verdict, unlocker, stolen>>

\* p goes on to remove the file, for reason g.
JudgeStale(p, g) ==
    /\ pc' = [pc EXCEPT ![p] = "unlink"]
    /\ published' = [published EXCEPT ![p] = PublishedHolders]
    /\ grounds' = [grounds EXCEPT ![p] = g]

\* The staleness verdict of a failed probe.  MergeLockBusy makes the caller
\* queue; MergeLockStale makes it call again with break_stale=True, and a stale
\* verdict in that second call goes on to unlink.  A holder that could not be
\* read is as stale as one without a record.
ReadBusy(p) ==
    /\ pc[p] = "busy"
    /\ \E failed \in BOOLEAN :
       LET r == HolderRead(failed)
           busy == TakenForHeld(p, r)
       IN \/ /\ busy \/ mode[p] = "probe"
             /\ mode' = [mode EXCEPT ![p] = IF busy THEN "block" ELSE "break"]
             /\ pc' = [pc EXCEPT ![p] = "open"]
             /\ UNCHANGED verdict
          \/ /\ ~busy /\ mode[p] = "break"
             /\ JudgeStale(p, IF failed THEN "unread" ELSE "record")
             /\ UNCHANGED mode
    /\ UNCHANGED <<path, record, flock, fd, leaked, breaks, unlocker, stolen>>

\* flock succeeded on a file that still names a dead local process: without
\* break_stale the lock is dropped again and reported stale.
Check(p) ==
    /\ pc[p] = "check"
    /\ \E failed \in BOOLEAN :
       LET r == HolderRead(failed)
           stale == r \notin {NoProc, p} /\ ~TakenForHeld(p, r)
       IN \/ /\ stale /\ mode[p] = "probe"
             /\ CloseFd(p)
             /\ mode' = [mode EXCEPT ![p] = "break"]
             /\ pc' = [pc EXCEPT ![p] = "open"]
          \/ /\ ~(stale /\ mode[p] = "probe")
             /\ mode' = [mode EXCEPT ![p] = "block"]
             /\ pc' = [pc EXCEPT ![p] = "write"]
             /\ UNCHANGED <<flock, fd>>
    /\ UNCHANGED <<path, record, leaked, breaks, verdict, unlocker, stolen>>

\* _write_pid: one fixed-width pwrite through the held descriptor.
WritePid(p) ==
    /\ pc[p] = "write"
    /\ record' = [record EXCEPT ![fd[p]] = p]
    /\ pc' = [pc EXCEPT ![p] = "crit"]
    /\ UNCHANGED <<path, flock, fd, leaked, mode, breaks, verdict, unlocker, stolen>>

\* _write_pid raises (ENOSPC in the pwrite, EIO in an fsync after it): acquire
\* propagates the error after the descriptor was stored, so the kernel lock
\* lives on.
WritePidFails(p) ==
    /\ pc[p] = "write"
    /\ pc' = [pc EXCEPT ![p] = "failed"]
    /\ \/ UNCHANGED record
       \/ record' = [record EXCEPT ![fd[p]] = p]
    /\ UNCHANGED <<path, flock, fd, leaked, mode, breaks, verdict, unlocker, stolen>>

\* What the caller makes of it.  run_flow releases the lock in its finally.  A
\* merge-side step acquires outside the try whose finally releases: the process
\* stands at the failure gate and may run the step again, with another MergeLock
\* and another descriptor.  A command ends (Die).
Unwind(p) ==
    /\ pc[p] = "failed" /\ p \in Probers
    /\ pc' = [pc EXCEPT ![p] = "idle"]
    /\ \/ /\ p \in SyncProcs
          /\ CloseFd(p)
          /\ UNCHANGED leaked
       \/ /\ p \in StepProcs
          /\ leaked' = [leaked EXCEPT ![p] = @ \cup {fd[p]}]
          /\ fd' = [fd EXCEPT ![p] = NoInode]
          /\ UNCHANGED flock
    /\ UNCHANGED <<path, record, mode, breaks, verdict, unlocker, stolen>>

-----------------------------------------------------------------------------
(* _try_break_stale_and_acquire                                            *)

\* Unlinking the name: whoever has that inode open keeps an orphan.  A failure is
\* swallowed.
UnlinkPath ==
    \/ /\ path' = NoInode
       /\ stolen' = (stolen \/ \E q \in Procs : fd[q] = path /\ path # NoInode)
    \/ UNCHANGED <<path, stolen>>

BreakUnlink(p) ==
    /\ pc[p] = "unlink"
    /\ UnlinkPath
    /\ pc' = [pc EXCEPT ![p] = "reopen"]
    /\ published' = [published EXCEPT ![p] = {}]
    /\ grounds' = [grounds EXCEPT ![p] = "record"]
    /\ UNCHANGED <<record, flock, fd, leaked, mode, breaks, unlocker>>

BreakOpen(p) ==
    /\ pc[p] = "reopen"
    /\ OpenFile(p)
    /\ pc' = [pc EXCEPT ![p] = "retry"]
    /\ UNCHANGED <<flock, leaked, mode, breaks, verdict, unlocker, stolen>>

\* Mutant of BreakFlock: the descriptor is returned without asking for the lock.
BreakFlockUnchecked(p) ==
    /\ pc[p] = "retry"
    /\ pc' = [pc EXCEPT ![p] = "write"]
    /\ breaks' = [breaks EXCEPT ![p] = 0]
    /\ mode' = [mode EXCEPT ![p] = "block"]
    /\ UNCHANGED <<path, record, flock, fd, leaked, verdict, unlocker, stolen>>

BreakFlock(p) ==
    /\ pc[p] = "retry"
    /\ Flock(p)
    /\ pc' = [pc EXCEPT ![p] = "write"]
    /\ breaks' = [breaks EXCEPT ![p] = 0]
    /\ mode' = [mode EXCEPT ![p] = "block"]
    /\ UNCHANGED <<path, record, fd, leaked, verdict, unlocker, stolen>>

BreakFlockFails(p) ==
    /\ pc[p] = "retry"
    /\ flock[fd[p]] # NoProc
    /\ fd' = [fd EXCEPT ![p] = NoInode]
    /\ pc' = [pc EXCEPT ![p] = "reread"]
    /\ UNCHANGED <<path, record, flock, leaked, mode, breaks, verdict, unlocker, stolen>>

\* Any other OSError of that flock goes to the next attempt, which removes the
\* file without another look at the record; the last one raises.
BreakFlockError(p) ==
    /\ pc[p] = "retry"
    /\ fd' = [fd EXCEPT ![p] = NoInode]
    /\ IF breaks[p] + 1 < MaxBreaks
       THEN /\ breaks' = [breaks EXCEPT ![p] = @ + 1]
            /\ JudgeStale(p, "refused")
            /\ UNCHANGED mode
       ELSE /\ breaks' = [breaks EXCEPT ![p] = 0]
            /\ mode' = [mode EXCEPT ![p] = "block"]
            /\ pc' = [pc EXCEPT ![p] = "idle"]
            /\ UNCHANGED verdict
    /\ UNCHANGED <<path, record, flock, leaked, unlocker, stolen>>

\* Mutant of BreakReread: the attempt counter outlives the call.
BreakRereadKeepsCount(p) ==
    /\ pc[p] = "reread"
    /\ breaks' = [breaks EXCEPT ![p] = @ + 1]
    /\ mode' = [mode EXCEPT ![p] = "block"]
    /\ pc' = [pc EXCEPT ![p] = "open"]
    /\ UNCHANGED <<path, record, flock, fd, leaked, verdict, unlocker, stolen>>

\* Another attempt is allowed only when the refreshed record proves a dead
\* local pid; an empty record is a winner still inside _write_pid.
BreakReread(p) ==
    /\ pc[p] = "reread"
    /\ \E failed \in BOOLEAN :
       LET r == HolderRead(failed)
           again == /\ r # NoProc /\ ~TakenForHeld(p, r)
                    /\ breaks[p] + 1 < MaxBreaks
       IN \/ /\ again
             /\ breaks' = [breaks EXCEPT ![p] = @ + 1]
             /\ JudgeStale(p, IF failed THEN "unread" ELSE "record")
             /\ UNCHANGED mode
          \/ /\ ~again
             /\ breaks' = [breaks EXCEPT ![p] = 0]
             /\ mode' = [mode EXCEPT ![p] = "block"]
             /\ pc' = [pc EXCEPT ![p] = "open"]
             /\ UNCHANGED verdict
    /\ UNCHANGED <<path, record, flock, fd, leaked, unlocker, stolen>>

-----------------------------------------------------------------------------
(* Giving the lock up, and the operator's command.                         *)

\* Mutant of Release: the descriptor stays open.
ReleaseKeepsLock(p) ==
    /\ pc[p] = "crit"
    /\ pc' = [pc EXCEPT ![p] = "idle"]
    /\ UNCHANGED <<path, record, flock, fd, leaked, mode, breaks, verdict, unlocker, stolen>>

\* release: the record stays in the file.
Release(p) ==
    /\ pc[p] = "crit"
    /\ CloseFd(p)
    /\ pc' = [pc EXCEPT ![p] = "idle"]
    /\ UNCHANGED <<path, record, leaked, mode, breaks, verdict, unlocker, stolen>>

\* The process ends, by exit or by a crash at any point.
Die(p) ==
    /\ pc[p] # "dead"
    /\ fd' = [fd EXCEPT ![p] = NoInode]
    /\ leaked' = [leaked EXCEPT ![p] = {}]
    /\ flock' = [i \in Inodes |-> IF flock[i] = p THEN NoProc ELSE flock[i]]
    /\ breaks' = [breaks EXCEPT ![p] = 0]
    /\ pc' = [pc EXCEPT ![p] = "dead"]
    /\ mode' = [mode EXCEPT ![p] = "block"]
    /\ published' = [published EXCEPT ![p] = {}]
    /\ grounds' = [grounds EXCEPT ![p] = "record"]
    /\ UNCHANGED <<path, record, unlocker, stolen>>

\* release_merge_lock, first half: inspect_lock decides from the record.
InspectLock(o, force) ==
    /\ unlocker[o] = "idle"
    /\ path # NoInode
    /\ force \/ \E failed \in BOOLEAN : ~TakenForHeld(o, HolderRead(failed))
    /\ unlocker' = [unlocker EXCEPT ![o] = "remove"]
    /\ UNCHANGED <<path, record, flock, fd, leaked, pc, mode, breaks, verdict, stolen>>

\* Second half: break_lock_file unlinks the name whatever it denotes by now.
RemoveLockFile(o) ==
    /\ unlocker[o] = "remove"
    /\ UnlinkPath
    /\ unlocker' = [unlocker EXCEPT ![o] = "idle"]
    /\ UNCHANGED <<record, flock, fd, leaked, pc, mode, breaks, verdict>>

-----------------------------------------------------------------------------

ProcStep(p) ==
    \/ Begin(p) \/ Open(p) \/ FlockGranted(p) \/ AcquireGivesUp(p)
    \/ TryFlock(p) \/ TryFlockFails(p) \/ ReadBusy(p) \/ Check(p)
    \/ WritePid(p) \/ WritePidFails(p) \/ Unwind(p)
    \/ BreakUnlink(p) \/ BreakOpen(p) \/ BreakFlock(p) \/ BreakFlockFails(p)
    \/ BreakFlockError(p) \/ BreakReread(p)
    \/ Release(p) \/ Die(p)

OperatorStep(o) ==
    \/ \E force \in BOOLEAN : InspectLock(o, force)
    \/ RemoveLockFile(o)

Next ==
    \/ \E p \in Procs : ProcStep(p)
    \/ \E o \in Operators : OperatorStep(o)

Spec == Init /\ [][Next]_vars

\* A process inside acquire keeps executing; a holder finishes its work; a caller
\* whose acquire raised unwinds, a command by ending, but the process of a step
\* need not end; the kernel does not starve a queued flock for ever.  Nobody has
\* to start, crash, give up or run merge-unlock, and nothing has to fail.
Fairness ==
    \A p \in Procs :
        /\ WF_vars(Open(p)) /\ WF_vars(TryFlock(p) \/ TryFlockFails(p))
        /\ WF_vars(ReadBusy(p)) /\ WF_vars(Check(p)) /\ WF_vars(WritePid(p) \/ WritePidFails(p))
        /\ WF_vars(BreakUnlink(p)) /\ WF_vars(BreakOpen(p))
        /\ WF_vars(BreakFlock(p) \/ BreakFlockFails(p)) /\ WF_vars(BreakReread(p))
        /\ WF_vars(Release(p)) /\ WF_vars(Unwind(p))
        /\ p \in MergeProcs => WF_vars(pc[p] = "failed" /\ Die(p))
        /\ SF_vars(FlockGranted(p))

FairSpec == Spec /\ Fairness

-----------------------------------------------------------------------------
(* Properties.                                                             *)

\* Every variable keeps its type; the break loop keeps its bound.
TypeOK ==
    /\ path \in Inodes \cup {NoInode}
    /\ record \in [Inodes -> Procs \cup {NoProc}]
    /\ flock \in [Inodes -> Procs \cup {NoProc}]
    /\ fd \in [Procs -> Inodes \cup {NoInode}]
    /\ leaked \in [Procs -> SUBSET Inodes]
    /\ pc \in [Procs -> PCs]
    /\ mode \in [Procs -> {"probe", "break", "block"}]
    /\ breaks \in [Procs -> 0 .. (MaxBreaks - 1)]
    /\ published \in [Procs -> SUBSET Procs]
    /\ grounds \in [Procs -> {"record", "unread", "refused"}]
    /\ unlocker \in [Operators -> {"idle", "remove"}]
    /\ stolen \in BOOLEAN

InCritical(p) == pc[p] = "crit"

\* "Only one holder mutates the main working tree at a time" (module header).
MutualExclusion ==
    \A p, q \in Procs : InCritical(p) /\ InCritical(q) => p = q

\* The lock can only be shared after some unlink removed a file that a process
\* had open: without such an eviction acquisition, crash, exit, abandoned waits
\* and failed writes never let two processes in.
ExclusiveUnlessStolen == ~stolen => MutualExclusion

\* "A foreign holder is never judged stale", "only a holder we can positively
\* re-prove stale is force-broken again": no stale verdict is passed on a holder
\* that has published its record and is still inside.
PublishedHolderNeverJudgedStale ==
    \A p \in Procs : pc[p] = "unlink" => published[p] = {}

\* As far as that is true: such a holder, live on this machine or unknown to its
\* process table, is condemned only by a caller that did not see its record.  In
\* a first verdict that takes a failed read; after a lost race, where an unread
\* record counts as a live holder, a flock that failed for another reason.
ReadHolderNeverJudgedStale ==
    \A p \in Procs :
        pc[p] = "unlink" /\ published[p] # {} =>
            grounds[p] = IF breaks[p] = 0 THEN "unread" ELSE "refused"

\* "The lock [is] released, even on error" (_step_cwd_override): whoever holds the
\* kernel lock knows the descriptor.
LockReleasedOnError ==
    \A p \in Procs, i \in Inodes : flock[i] = p => fd[p] = i

\* "INVARIANT: a foreign (remote-machine) holder is never ... force-broken by
\* the acquisition path": the acquisition path never removes the file under a
\* process of another machine that is inside.
ForeignHolderNeverBroken ==
    [][\A p, q \in Procs :
        /\ BreakUnlink(p)
        /\ MachineOf[p] # MachineOf[q]
        /\ InCritical(q) /\ fd[q] = path
        => FALSE]_vars

\* Every acquire call ends: a synchronous caller does not go round probing,
\* breaking and re-opening for ever, and a queued one is served, gives up or dies,
\* whatever its predecessors do: "a crashed holder cannot wedge the queue".  The
\* queue stands still only while a merge-side step whose acquire raised keeps the
\* lock, in a process that is still there.
AcquireEnds ==
    \A p \in Procs :
        pc[p] \in {"open", "wait"} ~>
            \/ pc[p] \in {"crit", "failed", "idle", "dead"}
            \/ \E q \in StepProcs : leaked[q] # {}

=============================================================================
