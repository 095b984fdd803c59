--------------------------- MODULE MergeLock_proofs ---------------------------
(***************************************************************************)
(* Proofs about MergeLock for any number of processes and machines.        *)
(***************************************************************************)
EXTENDS MergeLock, TLAPS

\* Where a process has the file open, and where it holds the kernel lock.
HoldingPCs == {"check", "write", "crit", "failed"}
OpenPCs == {"try", "wait", "retry"} \cup HoldingPCs

\* A process has a descriptor exactly in the open states.
FdInv == \A p \in Procs : fd[p] # NoInode <=> pc[p] \in OpenPCs

\* The kernel lock of an inode belongs to the holder that has it open, or to a
\* step that has lost the descriptor.
FlockInv ==
    \A p \in Procs, i \in Inodes :
        flock[i] = p <=> (pc[p] \in HoldingPCs /\ fd[p] = i) \/ i \in leaked[p]

\* Nobody else loses one, and nobody gets a second lock on the same file.
LeakInv ==
    \A p \in Procs : /\ leaked[p] # {} => p \in StepProcs
                     /\ pc[p] \in HoldingPCs => fd[p] \notin leaked[p]

\* The attempt counter is used in _try_break_stale_and_acquire only.
BreaksInv ==
    \A p \in Procs : pc[p] \notin {"unlink", "reopen", "retry", "reread"} => breaks[p] = 0

\* A holder's own record is the one in its file.
RecordInv == \A p \in Procs : pc[p] = "crit" => record[fd[p]] = p

\* As long as nothing was unlinked under anybody, all descriptors denote the
\* file the name denotes.
PathInv == ~stolen => \A p \in Procs : fd[p] # NoInode => fd[p] = path

\* The inductive invariant.
LockInv ==
    /\ TypeOK /\ FdInv /\ FlockInv /\ LeakInv /\ BreaksInv /\ RecordInv
    /\ PathInv /\ ReadHolderNeverJudgedStale

-----------------------------------------------------------------------------

\* It holds initially.
LEMMA InitLockInv == Init => LockInv
<1> SUFFICES ASSUME Init PROVE LockInv
  OBVIOUS
<1> USE MergeLockAssumption DEF Init
<1>1. TypeOK
  <2>1. breaks \in [Procs -> 0 .. (MaxBreaks - 1)]
    OBVIOUS
  <2>2. pc \in [Procs -> PCs] /\ mode \in [Procs -> {"probe", "break", "block"}]
    BY DEF PCs
  <2>3. /\ record \in [Inodes -> Procs \cup {NoProc}]
        /\ flock \in [Inodes -> Procs \cup {NoProc}]
        /\ fd \in [Procs -> Inodes \cup {NoInode}]
        /\ published \in [Procs -> SUBSET Procs]
        /\ leaked \in [Procs -> SUBSET Inodes]
        /\ grounds \in [Procs -> {"record", "unread", "refused"}]
    OBVIOUS
  <2>4. unlocker \in [Operators -> {"idle", "remove"}]
    OBVIOUS
  <2> QED
    BY <2>1, <2>2, <2>3, <2>4 DEF TypeOK
<1>2. FdInv /\ FlockInv /\ LeakInv /\ BreaksInv /\ RecordInv /\ PathInv
  BY DEF FdInv, FlockInv, LeakInv, BreaksInv, RecordInv, PathInv, OpenPCs, HoldingPCs
<1>3. ReadHolderNeverJudgedStale
  BY DEF ReadHolderNeverJudgedStale
<1> QED
  BY <1>1, <1>2, <1>3 DEF LockInv

\* A record that a stale verdict accepts names no holder that is inside the
\* file: the holder's own record would be there, and it is alive.
LEMMA StaleVerdictSound ==
    ASSUME LockInv, NEW p \in Procs,
           ~TakenForHeld(p, RecordAtPath)
    PROVE  PublishedHolders = {}
<1> SUFFICES ASSUME NEW q \in PublishedHolders PROVE FALSE
  OBVIOUS
<1>1. q \in Procs /\ pc[q] = "crit" /\ fd[q] = path /\ path # NoInode
  BY DEF PublishedHolders
<1>2. RecordAtPath = q
  BY <1>1 DEF LockInv, RecordInv, RecordAtPath
<1>3. q # NoProc
  BY <1>1, MergeLockAssumption
<1> QED
  BY <1>1, <1>2, <1>3 DEF TakenForHeld, Foreign, Probe

\* A verdict touches the counter and the history only; the invariant survives it
\* when the verdict is a sound one.
LEMMA JudgeStaleKeepsLockInv ==
    ASSUME LockInv, NEW p \in Procs, NEW g \in {"record", "unread", "refused"},
           JudgeStale(p, g),
           pc[p] \in {"busy", "reread"},
           \/ UNCHANGED breaks
           \/ breaks' = [breaks EXCEPT ![p] = @ + 1] /\ breaks[p] + 1 < MaxBreaks,
           PublishedHolders # {} => g = IF breaks'[p] = 0 THEN "unread" ELSE "refused",
           UNCHANGED <<path, record, flock, fd, leaked, mode, unlocker, stolen>>
    PROVE  LockInv'
<1> USE MergeLockAssumption
<1>1. PublishedHolders \in SUBSET Procs
  BY DEF PublishedHolders
<1>2. breaks' \in [Procs -> 0 .. (MaxBreaks - 1)]
  BY DEF LockInv, TypeOK
<1>3. TypeOK'
  BY <1>1, <1>2 DEF LockInv, TypeOK, JudgeStale, PCs
<1>4. ReadHolderNeverJudgedStale'
  BY <1>1 DEF LockInv, TypeOK, ReadHolderNeverJudgedStale, JudgeStale
<1>5. BreaksInv'
  BY DEF LockInv, TypeOK, BreaksInv, JudgeStale
<1> QED
  BY <1>3, <1>4, <1>5 DEF LockInv, TypeOK, FdInv, FlockInv, LeakInv, RecordInv,
     PathInv, JudgeStale, OpenPCs, HoldingPCs

\* Unlinking the name keeps the path invariant: either the history flag is
\* raised, or nobody had the file open and so nobody has any file open, or it
\* failed.
LEMMA UnlinkKeepsPathInv ==
    ASSUME LockInv, UnlinkPath, fd' = fd
    PROVE  PathInv' /\ stolen' \in BOOLEAN /\ path' \in {path, NoInode}
<1>1. path' \in {path, NoInode} /\ stolen' \in BOOLEAN
  BY DEF UnlinkPath, LockInv, TypeOK
<1>2. PathInv'
  <2>1. CASE UNCHANGED <<path, stolen>>
    BY <2>1 DEF LockInv, PathInv
  <2>2. CASE ~UNCHANGED <<path, stolen>>
    <3> SUFFICES ASSUME ~stolen', NEW p \in Procs, fd[p] # NoInode PROVE FALSE
      BY DEF PathInv
    <3>1. ~stolen /\ \A q \in Procs : ~(fd[q] = path /\ path # NoInode)
      BY <2>2 DEF UnlinkPath
    <3>2. fd[p] = path
      BY <3>1 DEF LockInv, PathInv
    <3> QED
      BY <3>1, <3>2
  <2> QED
    BY <2>1, <2>2
<1> QED
  BY <1>1, <1>2

\* Every step keeps it.
LEMMA NextLockInv == LockInv /\ [Next]_vars => LockInv'
<1> SUFFICES ASSUME LockInv, [Next]_vars PROVE LockInv'
  OBVIOUS
<1> USE MergeLockAssumption DEF verdict, LockInv, TypeOK, FdInv, FlockInv, LeakInv,
        BreaksInv, RecordInv, PathInv, ReadHolderNeverJudgedStale, OpenPCs, HoldingPCs, PCs
<1>1. ASSUME NEW p \in Procs, Begin(p) PROVE LockInv'
  BY <1>1 DEF Begin
<1>2. ASSUME NEW p \in Procs, Open(p) PROVE LockInv'
  BY <1>2 DEF Open, OpenFile
<1>3. ASSUME NEW p \in Procs, FlockGranted(p) PROVE LockInv'
  BY <1>3 DEF FlockGranted, Flock
<1>4. ASSUME NEW p \in Procs, AcquireGivesUp(p) PROVE LockInv'
  BY <1>4 DEF AcquireGivesUp
<1>5. ASSUME NEW p \in Procs, TryFlock(p) PROVE LockInv'
  BY <1>5 DEF TryFlock, Flock
<1>6. ASSUME NEW p \in Procs, TryFlockFails(p) PROVE LockInv'
  BY <1>6 DEF TryFlockFails
<1>7. ASSUME NEW p \in Procs, ReadBusy(p) PROVE LockInv'
  <2>1. PICK failed \in BOOLEAN :
          \/ /\ UNCHANGED <<published, grounds>>
             /\ mode' \in [Procs -> {"probe", "break", "block"}]
             /\ pc' = [pc EXCEPT ![p] = "open"]
          \/ /\ ~TakenForHeld(p, HolderRead(failed))
             /\ JudgeStale(p, IF failed THEN "unread" ELSE "record")
             /\ UNCHANGED mode
    BY <1>7 DEF ReadBusy
  <2>2. pc[p] = "busy" /\ UNCHANGED <<path, record, flock, fd, leaked, breaks, unlocker, stolen>>
    BY <1>7 DEF ReadBusy
  <2>3. CASE /\ UNCHANGED <<published, grounds>>
             /\ mode' \in [Procs -> {"probe", "break", "block"}]
             /\ pc' = [pc EXCEPT ![p] = "open"]
    BY <2>2, <2>3
  <2>4. CASE /\ ~TakenForHeld(p, HolderRead(failed))
             /\ JudgeStale(p, IF failed THEN "unread" ELSE "record")
             /\ UNCHANGED mode
    <3>1. failed \/ PublishedHolders = {}
      BY <2>4, StaleVerdictSound DEF HolderRead
    <3>2. breaks[p] = 0 /\ UNCHANGED breaks
      BY <2>2
    <3> QED
      BY <2>2, <2>4, <3>1, <3>2, JudgeStaleKeepsLockInv
  <2> QED
    BY <2>1, <2>3, <2>4
<1>8. ASSUME NEW p \in Procs, Check(p) PROVE LockInv'
  BY <1>8, SMTT(30) DEF Check, CloseFd
<1>9. ASSUME NEW p \in Procs, WritePid(p) PROVE LockInv'
  BY <1>9 DEF WritePid
<1>10. ASSUME NEW p \in Procs, WritePidFails(p) PROVE LockInv'
  BY <1>10 DEF WritePidFails
<1>11. ASSUME NEW p \in Procs, BreakUnlink(p) PROVE LockInv'
  <2>1. PathInv' /\ stolen' \in BOOLEAN /\ path' \in {path, NoInode}
    BY <1>11, UnlinkKeepsPathInv DEF BreakUnlink
  <2> QED
    BY <1>11, <2>1 DEF BreakUnlink
<1>12. ASSUME NEW p \in Procs, BreakOpen(p) PROVE LockInv'
  BY <1>12 DEF BreakOpen, OpenFile
<1>13. ASSUME NEW p \in Procs, BreakFlock(p) PROVE LockInv'
  BY <1>13 DEF BreakFlock, Flock
<1>14. ASSUME NEW p \in Procs, BreakFlockFails(p) PROVE LockInv'
  BY <1>14 DEF BreakFlockFails
<1>15. ASSUME NEW p \in Procs, BreakReread(p) PROVE LockInv'
  <2>1. /\ pc[p] = "reread"
        /\ UNCHANGED <<path, record, flock, fd, leaked, unlocker, stolen>>
    BY <1>15 DEF BreakReread
  <2>2. \/ /\ breaks' = [breaks EXCEPT ![p] = 0]
           /\ mode' = [mode EXCEPT ![p] = "block"]
           /\ pc' = [pc EXCEPT ![p] = "open"]
           /\ UNCHANGED <<published, grounds>>
        \/ \E g \in {"record", "unread"} :
           /\ ~TakenForHeld(p, RecordAtPath)
           /\ breaks' = [breaks EXCEPT ![p] = @ + 1] /\ breaks[p] + 1 < MaxBreaks
           /\ JudgeStale(p, g)
           /\ UNCHANGED mode
    BY <1>15 DEF BreakReread, HolderRead
  <2>3. CASE /\ breaks' = [breaks EXCEPT ![p] = 0]
             /\ mode' = [mode EXCEPT ![p] = "block"]
             /\ pc' = [pc EXCEPT ![p] = "open"]
             /\ UNCHANGED <<published, grounds>>
    BY <2>1, <2>3
  <2>4. ASSUME NEW g \in {"record", "unread"},
               ~TakenForHeld(p, RecordAtPath),
               breaks' = [breaks EXCEPT ![p] = @ + 1] /\ breaks[p] + 1 < MaxBreaks,
               JudgeStale(p, g), UNCHANGED mode
        PROVE  LockInv'
    <3>1. PublishedHolders = {}
      BY <2>4, StaleVerdictSound
    <3>2. /\ g \in {"record", "unread", "refused"} /\ pc[p] \in {"busy", "reread"}
          /\ UNCHANGED <<path, record, flock, fd, leaked, mode, unlocker, stolen>>
      BY <2>1, <2>4
    <3> HIDE DEF TypeOK, FdInv, FlockInv, LeakInv, BreaksInv, RecordInv, PathInv,
             ReadHolderNeverJudgedStale, LockInv
    <3> QED
      BY <2>4, <3>1, <3>2, JudgeStaleKeepsLockInv
  <2> QED
    BY <2>2, <2>3, <2>4
<1>16. ASSUME NEW p \in Procs, Release(p) PROVE LockInv'
  BY <1>16 DEF Release, CloseFd
<1>17. ASSUME NEW p \in Procs, Die(p) PROVE LockInv'
  BY <1>17 DEF Die
<1>18. ASSUME NEW o \in Operators, NEW force \in BOOLEAN, InspectLock(o, force)
       PROVE LockInv'
  BY <1>18 DEF InspectLock
<1>19. ASSUME NEW o \in Operators, RemoveLockFile(o) PROVE LockInv'
  <2>1. PathInv' /\ stolen' \in BOOLEAN /\ path' \in {path, NoInode}
    BY <1>19, UnlinkKeepsPathInv DEF RemoveLockFile
  <2> QED
    BY <1>19, <2>1 DEF RemoveLockFile
<1>20. ASSUME NEW p \in Procs, Unwind(p) PROVE LockInv'
  BY <1>20 DEF Unwind, CloseFd
<1>21. ASSUME NEW p \in Procs, BreakFlockError(p) PROVE LockInv'
  <2>1. /\ pc[p] = "retry" /\ fd' = [fd EXCEPT ![p] = NoInode]
        /\ UNCHANGED <<path, record, flock, leaked, unlocker, stolen>>
    BY <1>21 DEF BreakFlockError
  <2>2. CASE breaks[p] + 1 < MaxBreaks
    <3>1. /\ breaks' = [breaks EXCEPT ![p] = @ + 1]
          /\ JudgeStale(p, "refused") /\ UNCHANGED mode
      BY <1>21, <2>2 DEF BreakFlockError
    <3>2. PublishedHolders \in SUBSET Procs
      BY DEF PublishedHolders
    <3>3. TypeOK'
      BY <2>1, <2>2, <3>1, <3>2 DEF JudgeStale
    <3>4. ReadHolderNeverJudgedStale' /\ BreaksInv'
      BY <2>1, <2>2, <3>1 DEF JudgeStale
    <3> QED
      BY <2>1, <3>1, <3>3, <3>4 DEF JudgeStale
  <2>3. CASE ~(breaks[p] + 1 < MaxBreaks)
    BY <1>21, <2>3 DEF BreakFlockError
  <2> QED
    BY <2>2, <2>3
<1>22. CASE UNCHANGED vars
  BY <1>22 DEF vars, verdict
<1> QED
  BY <1>1, <1>2, <1>3, <1>4, <1>5, <1>6, <1>7, <1>8, <1>9, <1>10, <1>11,
     <1>12, <1>13, <1>14, <1>15, <1>16, <1>17, <1>18, <1>19, <1>20, <1>21, <1>22
     DEF Next, ProcStep, OperatorStep

\* Two holders without an eviction share the inode, whose lock has one owner.
LEMMA LockInvExclusive == LockInv => ExclusiveUnlessStolen
<1> SUFFICES ASSUME LockInv, ~stolen,
                    NEW p \in Procs, NEW q \in Procs,
                    InCritical(p), InCritical(q)
             PROVE  p = q
  BY DEF ExclusiveUnlessStolen, MutualExclusion
<1>1. fd[p] = path /\ fd[q] = path /\ path # NoInode
  BY DEF LockInv, FdInv, PathInv, InCritical, OpenPCs, HoldingPCs
<1>2. path \in Inodes
  BY <1>1 DEF LockInv, TypeOK
<1>3. flock[path] = p /\ flock[path] = q
  BY <1>1, <1>2 DEF LockInv, FlockInv, InCritical, HoldingPCs
<1> QED
  BY <1>3

\* The inductive invariant holds in every reachable state.
THEOREM LockInvariant == Spec => []LockInv
  BY InitLockInv, NextLockInv, PTL DEF Spec

\* Type correctness of the merge lock.
THEOREM TypeCorrect == Spec => []TypeOK
<1>1. LockInv => TypeOK
  BY DEF LockInv
<1> QED
  BY <1>1, LockInvariant, PTL

\* The merge lock is exclusive until some unlink evicts an open file.
THEOREM Exclusive == Spec => []ExclusiveUnlessStolen
  BY LockInvariant, LockInvExclusive, PTL

\* An acquirer judges a holder stale that is inside and has published itself only
\* when it did not see that holder's record.
THEOREM VerdictSound == Spec => []ReadHolderNeverJudgedStale
<1>1. LockInv => ReadHolderNeverJudgedStale
  BY DEF LockInv
<1> QED
  BY <1>1, LockInvariant, PTL

=============================================================================
