----------------------------- MODULE MCMergeLock -----------------------------
(* Small instances of MergeLock: two machines, a1 a2 on the first and b1 on  *)
(* the second, one operator on the first machine.                            *)
EXTENDS MergeLock, TLC

CONSTANTS a1, a2, b1, op, mA, mB

MCMachineOf ==
    [x \in {a1, a2, b1, op} |-> IF x = b1 THEN mB ELSE mA]

\* Inode numbers are interchangeable.
InodeSymmetry == Permutations(Inodes)

\* What a file holds that neither the name nor a descriptor refers to is never
\* read again: Open empties the inode it creates.
ReadableRecords ==
    [i \in Inodes |->
        IF i = path \/ \E q \in Procs : fd[q] = i \/ i \in leaked[q]
        THEN record[i] ELSE NoProc]

LiveFiles ==
    <<path, ReadableRecords, flock, fd, leaked, pc, mode, breaks, verdict, unlocker, stolen>>

\* A process does not lose a second descriptor.
OneLeak == \A p \in Procs : Cardinality(leaked[p]) <= 1
=============================================================================
