-------------------------- MODULE RunMarker_proofs --------------------------
(***************************************************************************)
(* Proofs about RunMarker for any number of runs, end-sessions and         *)
(* machines.                                                               *)
(***************************************************************************)
EXTENDS RunMarker, TLAPS

\* Where a process that believes it owns the token can be.
OwnerPCs == {"create", "probe", "judge", "reclaim", "write", "drop", "verify",
             "rewrite", "working", "destroy"}

\* Where the file must be complete and p's own, p being an owner or not.
HeldPCs == {"verify", "rewrite", "release", "reprobe", "unlink"}

OwnerInv == \A p \in Procs :
    /\ p \in owners => pc[p] \in OwnerPCs
    /\ pc[p] \in {"working", "destroy"} => p \in owners

\* What the marker is while p is at a given place, unless somebody's marker
\* was taken away.
TokenInv ==
    ~evicted => \A p \in Procs :
        /\ p \in owners \/ pc[p] \in HeldPCs => marker = RecordFile(p)
        /\ pc[p] \in {"write", "drop"} => marker = EmptyFile(p)
        /\ pc[p] \in {"judge", "reclaim"} => p \notin owners

\* The inductive invariant.
MarkerInv == TypeOK /\ OwnerInv /\ TokenInv

\* A file tells who made it and whether it has a record.
LEMMA FileInjective ==
    /\ \A p, q \in Procs : EmptyFile(p) = EmptyFile(q) \/ RecordFile(p) = RecordFile(q) => p = q
    /\ \A p, q \in Procs : RecordFile(p) # EmptyFile(q)
    /\ \A p \in Procs : EmptyFile(p).by = p /\ RecordFile(p).by = p
    /\ \A p \in Procs : EmptyFile(p) # NoMarker /\ RecordFile(p) # NoMarker
    /\ \A p \in Procs : ~EmptyFile(p).written /\ RecordFile(p).written
    /\ \A m \in [by : Procs, written : BOOLEAN] : m.written => m = RecordFile(m.by)
<1>1. \A p \in Procs : EmptyFile(p).by = p /\ RecordFile(p).by = p
  BY DEF EmptyFile, RecordFile
<1>2. \A p \in Procs : ~EmptyFile(p).written /\ RecordFile(p).written
  BY DEF EmptyFile, RecordFile
<1>3. \A p \in Procs : EmptyFile(p) # NoMarker /\ RecordFile(p) # NoMarker
  <2>1. \A p \in Procs : {EmptyFile(p), RecordFile(p)} \subseteq [by : Procs, written : BOOLEAN]
    BY DEF EmptyFile, RecordFile
  <2> QED
    BY <2>1, RunMarkerAssumption
<1>4. \A m \in [by : Procs, written : BOOLEAN] : m.written => m = RecordFile(m.by)
  BY DEF RecordFile
<1>5. \A p, q \in Procs : EmptyFile(p) = EmptyFile(q) \/ RecordFile(p) = RecordFile(q) => p = q
  BY <1>1
<1>6. \A p, q \in Procs : RecordFile(p) # EmptyFile(q)
  BY <1>2
<1> QED
  BY <1>1, <1>2, <1>3, <1>4, <1>5, <1>6

\* It holds initially.
LEMMA InitMarkerInv == Init => MarkerInv
<1> SUFFICES ASSUME Init PROVE MarkerInv
  OBVIOUS
<1>1. TypeOK
  <2>1. pc \in [Procs -> PCs]
    BY DEF Init, PCs
  <2>2. attempt \in [Procs -> {0, 1}] /\ seen \in [Procs -> Procs \cup {NoMarker}]
    BY DEF Init
  <2>3. victims \in [Enders -> SUBSET Runs] /\ overrun \in [Enders -> 0 .. 2]
    BY DEF Init
  <2> QED
    BY <2>1, <2>2, <2>3 DEF Init, TypeOK
<1>2. OwnerInv /\ TokenInv
  BY DEF Init, OwnerInv, TokenInv, HeldPCs
<1> QED
  BY <1>1, <1>2 DEF MarkerInv

\* Every step keeps the types.
LEMMA NextTypeOK == TypeOK /\ [Next]_vars => TypeOK'
<1> SUFFICES ASSUME TypeOK, [Next]_vars PROVE TypeOK'
  OBVIOUS
<1> USE RunMarkerAssumption DEF TypeOK, PCs, Goto, Procs
<1>1. ASSUME NEW p \in Procs, Begin(p) PROVE TypeOK'
  BY <1>1 DEF Begin
<1>2. ASSUME NEW p \in Procs, CreateMarker(p) PROVE TypeOK'
  BY <1>2 DEF CreateMarker, EmptyFile, RecordFile
<1>3. ASSUME NEW p \in Procs, CreateExists(p) PROVE TypeOK'
  BY <1>3 DEF CreateExists
<1>4. ASSUME NEW p \in Procs, CreateFails(p) PROVE TypeOK'
  BY <1>4 DEF CreateFails, Blocked
<1>5. ASSUME NEW p \in Procs, ProbeMarker(p) PROVE TypeOK'
  BY <1>5 DEF ProbeMarker, TryAgain, Blocked, ReadMarker, EmptyFile, RecordFile
<1>6. ASSUME NEW p \in Procs, JudgeHolder(p) PROVE TypeOK'
  BY <1>6 DEF JudgeHolder, Blocked
<1>7. ASSUME NEW p \in Procs, ReclaimMarker(p) PROVE TypeOK'
  BY <1>7 DEF ReclaimMarker, ReplaceBy
<1>8. ASSUME NEW p \in Procs, ReclaimFails(p) PROVE TypeOK'
  BY <1>8 DEF ReclaimFails, Blocked
<1>9. ASSUME NEW p \in Procs, WriteRecord(p) PROVE TypeOK'
  BY <1>9 DEF WriteRecord, EmptyFile, RecordFile
<1>10. ASSUME NEW p \in Procs, WriteFails(p) PROVE TypeOK'
  BY <1>10 DEF WriteFails
<1>11. ASSUME NEW p \in Procs, DropCreated(p) PROVE TypeOK'
  BY <1>11 DEF DropCreated, Blocked, ReplaceBy
<1>12. ASSUME NEW p \in Procs, VerifyRecord(p) PROVE TypeOK'
  BY <1>12 DEF VerifyRecord, Acquired, Blocked
<1>13. ASSUME NEW p \in Procs, RewriteOwned(p) PROVE TypeOK'
  <2>1. CASE ReplaceBy(p, RecordFile(p)) /\ Acquired(p)
    BY <1>13, <2>1 DEF RewriteOwned, ReplaceBy, Acquired, EmptyFile, RecordFile
  <2>2. CASE Blocked(p) /\ UNCHANGED <<marker, evicted>>
    BY <1>13, <2>2 DEF RewriteOwned, Blocked
  <2> QED
    BY <1>13, <2>1, <2>2 DEF RewriteOwned
<1>14. ASSUME NEW p \in Procs, StampFlow(p) PROVE TypeOK'
  BY <1>14 DEF StampFlow
<1>15. ASSUME NEW p \in Procs, FinishWork(p) PROVE TypeOK'
  BY <1>15 DEF FinishWork
<1>16. ASSUME NEW p \in Procs, ReleaseRead(p) PROVE TypeOK'
  BY <1>16 DEF ReleaseRead
<1>17. ASSUME NEW p \in Procs, ReleaseReprobe(p) PROVE TypeOK'
  BY <1>17 DEF ReleaseReprobe
<1>18. ASSUME NEW p \in Procs, ReleaseUnlink(p) PROVE TypeOK'
  BY <1>18 DEF ReleaseUnlink, ReplaceBy
<1>19. ASSUME NEW p \in Procs, Die(p) PROVE TypeOK'
  BY <1>19 DEF Die
<1>20. ASSUME NEW e \in Enders, InspectMarker(e) PROVE TypeOK'
  BY <1>20 DEF InspectMarker
<1>21. ASSUME NEW e \in Enders, Discover(e) PROVE TypeOK'
  BY <1>21 DEF Discover
<1>22. ASSUME NEW e \in Enders, NEW r \in Runs, Kill(e, r) PROVE TypeOK'
  BY <1>22 DEF Kill
<1>23. ASSUME NEW e \in Enders, Terminated(e) PROVE TypeOK'
  BY <1>23 DEF Terminated
<1>24. ASSUME NEW e \in Enders, TerminateFails(e) PROVE TypeOK'
  BY <1>24 DEF TerminateFails
<1>25. ASSUME NEW e \in Enders, ClearExists(e) PROVE TypeOK'
  BY <1>25 DEF ClearExists
<1>26. ASSUME NEW e \in Enders, ClearRead(e) PROVE TypeOK'
  BY <1>26 DEF ClearRead
<1>27. ASSUME NEW e \in Enders, ClearVet(e) PROVE TypeOK'
  BY <1>27 DEF ClearVet
<1>28. ASSUME NEW e \in Enders, ClearUnlink(e) PROVE TypeOK'
  BY <1>28 DEF ClearUnlink, ReplaceBy
<1>29. ASSUME NEW e \in Enders, RecheckClaim(e) PROVE TypeOK'
  BY <1>29 DEF RecheckClaim
<1>30. ASSUME NEW e \in Enders, Destroy(e) PROVE TypeOK'
  <2>1. overrun' \in [Enders -> 0 .. 2]
    <3>1. CASE marker # RecordFile(e) /\ overrun[e] < 2
      <4>1. overrun' = [overrun EXCEPT ![e] = overrun[e] + 1]
        BY <1>30, <3>1 DEF Destroy
      <4>2. overrun[e] + 1 \in 0 .. 2
        BY <3>1
      <4> QED
        BY <4>1, <4>2
    <3>2. CASE ~(marker # RecordFile(e) /\ overrun[e] < 2)
      <4>1. overrun' = [overrun EXCEPT ![e] = overrun[e]]
        BY <1>30, <3>2 DEF Destroy
      <4> QED
        BY <4>1
    <3> QED
      BY <3>1, <3>2
  <2>2. Goto(e, "working") /\ UNCHANGED <<marker, owners, attempt, seen, victims, evicted, world>>
    BY <1>30 DEF Destroy
  <2> QED
    BY <2>1, <2>2
<1>31. CASE UNCHANGED vars
  BY <1>31 DEF vars
<1> QED
  BY <1>1, <1>2, <1>3, <1>4, <1>5, <1>6, <1>7, <1>8, <1>9, <1>10, <1>11, <1>12,
     <1>13, <1>14, <1>15, <1>16, <1>17, <1>18, <1>19, <1>20, <1>21, <1>22, <1>23,
     <1>24, <1>25, <1>26, <1>27, <1>28, <1>29, <1>30, <1>31
     DEF Next, AcquireStep, ReleaseStep, EnderStep

\* Every step keeps it.
LEMMA NextMarkerInv == MarkerInv /\ [Next]_vars => MarkerInv'
<1> SUFFICES ASSUME MarkerInv, [Next]_vars PROVE OwnerInv' /\ TokenInv'
  BY NextTypeOK DEF MarkerInv
<1>0. TypeOK'
  BY NextTypeOK DEF MarkerInv
<1> USE FileInjective
        DEF MarkerInv, TypeOK, OwnerInv, TokenInv, OwnerPCs, HeldPCs, Goto, Procs
<1>1. ASSUME NEW p \in Procs, Begin(p) PROVE OwnerInv' /\ TokenInv'
  BY <1>1 DEF Begin
<1>2. ASSUME NEW p \in Procs, CreateMarker(p) PROVE OwnerInv' /\ TokenInv'
  BY <1>2 DEF CreateMarker
<1>3. ASSUME NEW p \in Procs, CreateExists(p) PROVE OwnerInv' /\ TokenInv'
  BY <1>3 DEF CreateExists
<1>4. ASSUME NEW p \in Procs, CreateFails(p) PROVE OwnerInv' /\ TokenInv'
  BY <1>4 DEF CreateFails, Blocked
<1>5. ASSUME NEW p \in Procs, ProbeMarker(p) PROVE OwnerInv' /\ TokenInv'
  <2>1. pc'[p] = "judge" => evicted \/ p \notin owners
    <3>1. SUFFICES ASSUME pc'[p] = "judge", ~evicted, p \in owners PROVE FALSE
      OBVIOUS
    <3>2. PICK r \in ReadMarker : r \in Procs \ {p}
      BY <1>5, <3>1 DEF ProbeMarker, TryAgain, Blocked
    <3>3. ReadMarker \subseteq {p, Undecodable}
      BY <3>1 DEF ReadMarker
    <3> QED
      BY <3>2, <3>3, RunMarkerAssumption
  <2>2. /\ pc'[p] \in {"create", "rewrite", "judge", "working", "done"}
        /\ pc'[p] = "rewrite" => marker = RecordFile(p)
        /\ pc'[p] = "working" => p \in owners
        /\ pc'[p] = "done" => p \notin owners
        /\ UNCHANGED <<marker, owners, evicted>>
        /\ \A q \in Procs \ {p} : pc'[q] = pc[q]
    <3>1. p \in ReadMarker => marker = RecordFile(p)
      BY RunMarkerAssumption DEF ReadMarker
    <3> QED
      BY <1>5, <3>1 DEF ProbeMarker, TryAgain, Blocked
  <2> QED
    BY <2>1, <2>2
<1>6. ASSUME NEW p \in Procs, JudgeHolder(p) PROVE OwnerInv' /\ TokenInv'
  BY <1>6 DEF JudgeHolder, Blocked
<1>7. ASSUME NEW p \in Procs, ReclaimMarker(p) PROVE OwnerInv' /\ TokenInv'
  BY <1>7 DEF ReclaimMarker, ReplaceBy, Alive
<1>8. ASSUME NEW p \in Procs, ReclaimFails(p) PROVE OwnerInv' /\ TokenInv'
  BY <1>8 DEF ReclaimFails, Blocked
<1>9. ASSUME NEW p \in Procs, WriteRecord(p) PROVE OwnerInv' /\ TokenInv'
  BY <1>9 DEF WriteRecord
<1>10. ASSUME NEW p \in Procs, WriteFails(p) PROVE OwnerInv' /\ TokenInv'
  BY <1>10 DEF WriteFails
<1>11. ASSUME NEW p \in Procs, DropCreated(p) PROVE OwnerInv' /\ TokenInv'
  BY <1>11 DEF DropCreated, Blocked, ReplaceBy, Alive
<1>12. ASSUME NEW p \in Procs, VerifyRecord(p) PROVE OwnerInv' /\ TokenInv'
  BY <1>12 DEF VerifyRecord, Acquired, Blocked
<1>13. ASSUME NEW p \in Procs, RewriteOwned(p) PROVE OwnerInv' /\ TokenInv'
  BY <1>13 DEF RewriteOwned, Acquired, Blocked, ReplaceBy, Alive
<1>14. ASSUME NEW p \in Procs, StampFlow(p) PROVE OwnerInv' /\ TokenInv'
  BY <1>14 DEF StampFlow
<1>15. ASSUME NEW p \in Procs, FinishWork(p) PROVE OwnerInv' /\ TokenInv'
  BY <1>15 DEF FinishWork
<1>16. ASSUME NEW p \in Procs, ReleaseRead(p) PROVE OwnerInv' /\ TokenInv'
  BY <1>16 DEF ReleaseRead
<1>17. ASSUME NEW p \in Procs, ReleaseReprobe(p) PROVE OwnerInv' /\ TokenInv'
  BY <1>17 DEF ReleaseReprobe
<1>18. ASSUME NEW p \in Procs, ReleaseUnlink(p) PROVE OwnerInv' /\ TokenInv'
  BY <1>18 DEF ReleaseUnlink, ReplaceBy, Alive
<1>19. ASSUME NEW p \in Procs, Die(p) PROVE OwnerInv' /\ TokenInv'
  BY <1>19 DEF Die
<1>20. ASSUME NEW e \in Enders, InspectMarker(e) PROVE OwnerInv' /\ TokenInv'
  BY <1>20 DEF InspectMarker
<1>21. ASSUME NEW e \in Enders, Discover(e) PROVE OwnerInv' /\ TokenInv'
  BY <1>21 DEF Discover
<1>22. ASSUME NEW e \in Enders, NEW r \in Runs, Kill(e, r) PROVE OwnerInv' /\ TokenInv'
  BY <1>22 DEF Kill
<1>23. ASSUME NEW e \in Enders, Terminated(e) PROVE OwnerInv' /\ TokenInv'
  BY <1>23 DEF Terminated
<1>24. ASSUME NEW e \in Enders, TerminateFails(e) PROVE OwnerInv' /\ TokenInv'
  BY <1>24 DEF TerminateFails
<1>25. ASSUME NEW e \in Enders, ClearExists(e) PROVE OwnerInv' /\ TokenInv'
  BY <1>25 DEF ClearExists
<1>26. ASSUME NEW e \in Enders, ClearRead(e) PROVE OwnerInv' /\ TokenInv'
  BY <1>26 DEF ClearRead
<1>27. ASSUME NEW e \in Enders, ClearVet(e) PROVE OwnerInv' /\ TokenInv'
  BY <1>27 DEF ClearVet
<1>28. ASSUME NEW e \in Enders, ClearUnlink(e) PROVE OwnerInv' /\ TokenInv'
  BY <1>28 DEF ClearUnlink, ReplaceBy, Alive
<1>29. ASSUME NEW e \in Enders, RecheckClaim(e) PROVE OwnerInv' /\ TokenInv'
  BY <1>29 DEF RecheckClaim
<1>30. ASSUME NEW e \in Enders, Destroy(e) PROVE OwnerInv' /\ TokenInv'
  BY <1>30 DEF Destroy
<1>31. CASE UNCHANGED vars
  BY <1>31 DEF vars
<1> QED
  BY <1>1, <1>2, <1>3, <1>4, <1>5, <1>6, <1>7, <1>8, <1>9, <1>10, <1>11, <1>12,
     <1>13, <1>14, <1>15, <1>16, <1>17, <1>18, <1>19, <1>20, <1>21, <1>22, <1>23,
     <1>24, <1>25, <1>26, <1>27, <1>28, <1>29, <1>30, <1>31
     DEF Next, AcquireStep, ReleaseStep, EnderStep

\* Two owners would both have written the one marker.
LEMMA MarkerInvExclusive == MarkerInv => ExclusiveUnlessEvicted
  BY FileInjective DEF MarkerInv, TokenInv, ExclusiveUnlessEvicted, OneOwner

\* The inductive invariant holds in every reachable state.
THEOREM MarkerInvariant == Spec => []MarkerInv
  BY InitMarkerInv, NextMarkerInv, PTL DEF Spec

\* Type correctness of the run marker.
THEOREM TypeCorrect == Spec => []TypeOK
<1>1. MarkerInv => TypeOK
  BY DEF MarkerInv
<1> QED
  BY <1>1, MarkerInvariant, PTL

\* Taking the token is exclusive until a live process loses its marker file.
THEOREM Exclusive == Spec => []ExclusiveUnlessEvicted
  BY MarkerInvariant, MarkerInvExclusive, PTL

-----------------------------------------------------------------------------
(* One luo at a time on each machine, and no end-session.                  *)

\* The environment that ExclusiveAcrossMachines supposes.
OrderlyMachines == world.onePerMachine /\ ~world.ending

\* Nobody is evicted: a record is only ever judged by a process of the same
\* machine, whose own liveness proves that the recorded one has ended, and
\* nobody else can remove the file in the meantime.
CrossInv ==
    /\ ~evicted
    /\ \A e \in Enders : pc[e] = "idle"
    /\ \A p, q \in Procs : Alive(p) /\ Alive(q) /\ Local(p, q) => p = q
    /\ \A p \in Procs : pc[p] \in {"judge", "reclaim"} =>
         /\ seen[p] \in Procs \ {p} /\ Local(p, seen[p])
         /\ marker = RecordFile(seen[p])

\* The environment is chosen once.
LEMMA WorldFixed == [Next]_vars => world' = world
  BY DEF Next, AcquireStep, ReleaseStep, EnderStep, vars, Begin, CreateMarker,
     CreateExists, CreateFails, ProbeMarker, JudgeHolder, ReclaimMarker,
     ReclaimFails, WriteRecord, WriteFails, DropCreated, VerifyRecord, RewriteOwned,
     StampFlow, FinishWork, ReleaseRead, ReleaseReprobe, ReleaseUnlink, Die,
     InspectMarker, Discover, Kill, Terminated, TerminateFails, ClearExists,
     ClearRead, ClearVet, ClearUnlink, RecheckClaim, Destroy

\* It holds initially.
LEMMA InitCrossInv == Init => CrossInv
  BY DEF Init, CrossInv, Alive, Procs

\* In that environment every step keeps it.
LEMMA NextCrossInv ==
    OrderlyMachines /\ MarkerInv /\ CrossInv /\ [Next]_vars => CrossInv'
<1> SUFFICES ASSUME OrderlyMachines, MarkerInv, CrossInv, [Next]_vars
             PROVE  CrossInv'
  OBVIOUS
<1> USE RunMarkerAssumption, FileInjective
        DEF OrderlyMachines, MarkerInv, TypeOK, TokenInv, CrossInv, HeldPCs,
            Alive, Local, Goto, Procs
<1>1. ASSUME NEW p \in Procs, Begin(p) PROVE CrossInv'
  BY <1>1 DEF Begin, FoundAlive
<1>2. ASSUME NEW p \in Procs, CreateMarker(p) PROVE CrossInv'
  BY <1>2 DEF CreateMarker
<1>3. ASSUME NEW p \in Procs, CreateExists(p) PROVE CrossInv'
  BY <1>3 DEF CreateExists
<1>4. ASSUME NEW p \in Procs, CreateFails(p) PROVE CrossInv'
  BY <1>4 DEF CreateFails, Blocked
<1>5. ASSUME NEW p \in Procs, ProbeMarker(p) PROVE CrossInv'
  BY <1>5 DEF ProbeMarker, TryAgain, Blocked, ReadMarker
<1>6. ASSUME NEW p \in Procs, JudgeHolder(p) PROVE CrossInv'
  BY <1>6 DEF JudgeHolder, Blocked
<1>7. ASSUME NEW p \in Procs, ReclaimMarker(p) PROVE CrossInv'
  BY <1>7 DEF ReclaimMarker, ReplaceBy
<1>8. ASSUME NEW p \in Procs, ReclaimFails(p) PROVE CrossInv'
  BY <1>8 DEF ReclaimFails, Blocked
<1>9. ASSUME NEW p \in Procs, WriteRecord(p) PROVE CrossInv'
  BY <1>9 DEF WriteRecord
<1>10. ASSUME NEW p \in Procs, WriteFails(p) PROVE CrossInv'
  BY <1>10 DEF WriteFails
<1>11. ASSUME NEW p \in Procs, DropCreated(p) PROVE CrossInv'
  BY <1>11 DEF DropCreated, Blocked, ReplaceBy
<1>12. ASSUME NEW p \in Procs, VerifyRecord(p) PROVE CrossInv'
  BY <1>12 DEF VerifyRecord, Acquired, Blocked
<1>13. ASSUME NEW p \in Procs, RewriteOwned(p) PROVE CrossInv'
  BY <1>13 DEF RewriteOwned, Acquired, Blocked, ReplaceBy
<1>14. ASSUME NEW p \in Procs, StampFlow(p) PROVE CrossInv'
  BY <1>14 DEF StampFlow
<1>15. ASSUME NEW p \in Procs, FinishWork(p) PROVE CrossInv'
  BY <1>15 DEF FinishWork
<1>16. ASSUME NEW p \in Procs, ReleaseStep(p) PROVE CrossInv'
  BY <1>16 DEF ReleaseStep, ReleaseRead, ReleaseReprobe, ReleaseUnlink, ReplaceBy
<1>17. ASSUME NEW p \in Procs, Die(p) PROVE CrossInv'
  BY <1>17 DEF Die
<1>18. ASSUME NEW e \in Enders, EnderStep(e) PROVE CrossInv'
  BY <1>18 DEF EnderStep, InspectMarker, Discover, Kill, Terminated, TerminateFails,
     ClearExists, ClearRead, ClearVet, ClearUnlink, RecheckClaim, Destroy
<1>19. CASE UNCHANGED vars
  BY <1>19 DEF vars
<1> QED
  BY <1>1, <1>2, <1>3, <1>4, <1>5, <1>6, <1>7, <1>8, <1>9, <1>10, <1>11, <1>12,
     <1>13, <1>14, <1>15, <1>16, <1>17, <1>18, <1>19
     DEF Next, AcquireStep

\* Across machines the token is exclusive, crashes and I/O errors included.
THEOREM CrossMachine == Spec => []ExclusiveAcrossMachines
<1>1. Init => (OrderlyMachines => CrossInv)
  BY InitCrossInv
<1>2. MarkerInv /\ (OrderlyMachines => CrossInv) /\ [Next]_vars
        => (OrderlyMachines => CrossInv)'
  BY NextCrossInv, WorldFixed DEF OrderlyMachines
<1>3. MarkerInv /\ (OrderlyMachines => CrossInv) => ExclusiveAcrossMachines
  BY MarkerInvExclusive
     DEF CrossInv, OrderlyMachines, ExclusiveUnlessEvicted, ExclusiveAcrossMachines
<1> QED
  BY <1>1, <1>2, <1>3, MarkerInvariant, PTL DEF Spec

-----------------------------------------------------------------------------
(* The claim of an end-session.                                            *)

\* An end-session that lost its claim is past making one: it either works on,
\* and then the next re-check stops it, or gives the claim up.
ClaimInv == \A e \in Enders :
    /\ overrun[e] <= 1
    /\ overrun[e] > 0 =>
         /\ marker # RecordFile(e)
         /\ pc[e] \in {"working", "release", "unlink", "done", "dead"}

\* Every step keeps it.
LEMMA NextClaimInv == TypeOK /\ ClaimInv /\ [Next]_vars => ClaimInv'
<1> SUFFICES ASSUME TypeOK, ClaimInv, [Next]_vars PROVE ClaimInv'
  OBVIOUS
<1> USE RunMarkerAssumption, FileInjective DEF TypeOK, ClaimInv, Goto, Procs
<1>1. ASSUME NEW p \in Procs, Begin(p) PROVE ClaimInv'
  BY <1>1 DEF Begin
<1>2. ASSUME NEW p \in Procs, CreateMarker(p) PROVE ClaimInv'
  BY <1>2 DEF CreateMarker
<1>3. ASSUME NEW p \in Procs, CreateExists(p) PROVE ClaimInv'
  BY <1>3 DEF CreateExists
<1>4. ASSUME NEW p \in Procs, CreateFails(p) PROVE ClaimInv'
  BY <1>4 DEF CreateFails, Blocked
<1>5. ASSUME NEW p \in Procs, ProbeMarker(p) PROVE ClaimInv'
  BY <1>5 DEF ProbeMarker, TryAgain, Blocked, ReadMarker
<1>6. ASSUME NEW p \in Procs, JudgeHolder(p) PROVE ClaimInv'
  BY <1>6 DEF JudgeHolder, Blocked
<1>7. ASSUME NEW p \in Procs, ReclaimMarker(p) PROVE ClaimInv'
  BY <1>7 DEF ReclaimMarker, ReplaceBy
<1>8. ASSUME NEW p \in Procs, ReclaimFails(p) PROVE ClaimInv'
  BY <1>8 DEF ReclaimFails, Blocked
<1>9. ASSUME NEW p \in Procs, WriteRecord(p) PROVE ClaimInv'
  BY <1>9 DEF WriteRecord
<1>10. ASSUME NEW p \in Procs, WriteFails(p) PROVE ClaimInv'
  BY <1>10 DEF WriteFails
<1>11. ASSUME NEW p \in Procs, DropCreated(p) PROVE ClaimInv'
  BY <1>11 DEF DropCreated, Blocked, ReplaceBy
<1>12. ASSUME NEW p \in Procs, VerifyRecord(p) PROVE ClaimInv'
  BY <1>12 DEF VerifyRecord, Acquired, Blocked, ReadMarker
<1>13. ASSUME NEW p \in Procs, RewriteOwned(p) PROVE ClaimInv'
  BY <1>13 DEF RewriteOwned, Acquired, Blocked, ReplaceBy
<1>14. ASSUME NEW p \in Procs, StampFlow(p) PROVE ClaimInv'
  BY <1>14 DEF StampFlow, ReadMarker
<1>15. ASSUME NEW p \in Procs, FinishWork(p) PROVE ClaimInv'
  BY <1>15 DEF FinishWork
<1>16. ASSUME NEW p \in Procs, ReleaseRead(p) PROVE ClaimInv'
  BY <1>16 DEF ReleaseRead, ReadMarker
<1>17. ASSUME NEW p \in Procs, ReleaseReprobe(p) PROVE ClaimInv'
  BY <1>17 DEF ReleaseReprobe, ReadMarker
<1>18. ASSUME NEW p \in Procs, ReleaseUnlink(p) PROVE ClaimInv'
  BY <1>18 DEF ReleaseUnlink, ReplaceBy
<1>19. ASSUME NEW p \in Procs, Die(p) PROVE ClaimInv'
  BY <1>19 DEF Die
<1>20. ASSUME NEW e \in Enders, InspectMarker(e) PROVE ClaimInv'
  BY <1>20 DEF InspectMarker
<1>21. ASSUME NEW e \in Enders, Discover(e) PROVE ClaimInv'
  BY <1>21 DEF Discover
<1>22. ASSUME NEW e \in Enders, NEW r \in Runs, Kill(e, r) PROVE ClaimInv'
  BY <1>22 DEF Kill
<1>23. ASSUME NEW e \in Enders, Terminated(e) PROVE ClaimInv'
  BY <1>23 DEF Terminated
<1>24. ASSUME NEW e \in Enders, TerminateFails(e) PROVE ClaimInv'
  BY <1>24 DEF TerminateFails
<1>25. ASSUME NEW e \in Enders, ClearExists(e) PROVE ClaimInv'
  BY <1>25 DEF ClearExists
<1>26. ASSUME NEW e \in Enders, ClearRead(e) PROVE ClaimInv'
  BY <1>26 DEF ClearRead
<1>27. ASSUME NEW e \in Enders, ClearVet(e) PROVE ClaimInv'
  BY <1>27 DEF ClearVet
<1>28. ASSUME NEW e \in Enders, ClearUnlink(e) PROVE ClaimInv'
  BY <1>28 DEF ClearUnlink, ReplaceBy
<1>29. ASSUME NEW e \in Enders, RecheckClaim(e) PROVE ClaimInv'
  BY <1>29 DEF RecheckClaim, ReadMarker
<1>30. ASSUME NEW e \in Enders, Destroy(e) PROVE ClaimInv'
  BY <1>30 DEF Destroy
<1>31. CASE UNCHANGED vars
  BY <1>31 DEF vars
<1> QED
  BY <1>1, <1>2, <1>3, <1>4, <1>5, <1>6, <1>7, <1>8, <1>9, <1>10, <1>11,
     <1>12, <1>13, <1>14, <1>15, <1>16, <1>17, <1>18, <1>19, <1>20, <1>21,
     <1>22, <1>23, <1>24, <1>25, <1>26, <1>27, <1>28, <1>29, <1>30, <1>31
     DEF Next, AcquireStep, ReleaseStep, EnderStep

\* After its claim is lost, end-session carries out at most the one destructive
\* step that it had checked for already.
THEOREM LostClaimStops == Spec => []LostClaimStopsDestruction
<1>1. Init => ClaimInv
  BY DEF Init, ClaimInv
<1>2. ClaimInv => LostClaimStopsDestruction
  BY DEF ClaimInv, LostClaimStopsDestruction
<1> QED
  BY <1>1, <1>2, NextClaimInv, TypeCorrect, PTL DEF Spec

-----------------------------------------------------------------------------
(* Markers that are left behind.                                           *)

\* While I/O works, whoever made the marker owns it, or is on the way to owning
\* or removing it, or was killed; and the record is in it once it was written.
LeftInv ==
    ~world.ioErrors /\ marker # NoMarker =>
        /\ marker.by \in owners \/ pc[marker.by] \in {"write", "verify", "release", "unlink", "dead"}
        /\ marker.written \/ pc[marker.by] \in {"write", "dead"}
        /\ marker.written => pc[marker.by] # "write"

\* Every step keeps it.
LEMMA NextLeftInv == MarkerInv /\ LeftInv /\ [Next]_vars => LeftInv'
<1> SUFFICES ASSUME MarkerInv, LeftInv, [Next]_vars PROVE LeftInv'
  OBVIOUS
<1> USE RunMarkerAssumption, FileInjective
        DEF MarkerInv, TypeOK, OwnerInv, OwnerPCs, LeftInv, Goto, Procs
<1>1. ASSUME NEW p \in Procs, Begin(p) PROVE LeftInv'
  BY <1>1 DEF Begin
<1>2. ASSUME NEW p \in Procs, CreateMarker(p) PROVE LeftInv'
  BY <1>2 DEF CreateMarker
<1>3. ASSUME NEW p \in Procs, CreateExists(p) PROVE LeftInv'
  BY <1>3 DEF CreateExists
<1>4. ASSUME NEW p \in Procs, CreateFails(p) PROVE LeftInv'
  BY <1>4 DEF CreateFails, Blocked
<1>5. ASSUME NEW p \in Procs, ProbeMarker(p) PROVE LeftInv'
  BY <1>5 DEF ProbeMarker, TryAgain, Blocked, ReadMarker
<1>6. ASSUME NEW p \in Procs, JudgeHolder(p) PROVE LeftInv'
  BY <1>6 DEF JudgeHolder, Blocked
<1>7. ASSUME NEW p \in Procs, ReclaimMarker(p) PROVE LeftInv'
  BY <1>7 DEF ReclaimMarker, ReplaceBy
<1>8. ASSUME NEW p \in Procs, ReclaimFails(p) PROVE LeftInv'
  BY <1>8 DEF ReclaimFails, Blocked
<1>9. ASSUME NEW p \in Procs, WriteRecord(p) PROVE LeftInv'
  <2>1. CASE marker = EmptyFile(p)
    <3>1. marker' = RecordFile(p) /\ pc'[p] = "verify" /\ UNCHANGED world
      BY <1>9, <2>1 DEF WriteRecord
    <3> QED
      BY ONLY <3>1, FileInjective, p \in Procs DEF LeftInv, Procs
  <2>2. CASE marker # EmptyFile(p)
    <3>1. UNCHANGED <<marker, world, owners>> /\ pc' = [pc EXCEPT ![p] = "verify"]
      BY <1>9, <2>2 DEF WriteRecord
    <3>2. ~world.ioErrors /\ marker # NoMarker => marker.by # p
      BY <1>9, <2>2 DEF WriteRecord, EmptyFile
    <3> QED
      BY <3>1, <3>2
  <2> QED
    BY <2>1, <2>2
<1>10. ASSUME NEW p \in Procs, WriteFails(p) PROVE LeftInv'
  BY <1>10 DEF WriteFails
<1>11. ASSUME NEW p \in Procs, DropCreated(p) PROVE LeftInv'
  BY <1>11 DEF DropCreated, Blocked, ReplaceBy
<1>12. ASSUME NEW p \in Procs, VerifyRecord(p) PROVE LeftInv'
  BY <1>12 DEF VerifyRecord, Acquired, Blocked, ReadMarker
<1>13. ASSUME NEW p \in Procs, RewriteOwned(p) PROVE LeftInv'
  BY <1>13 DEF RewriteOwned, Acquired, Blocked, ReplaceBy
<1>14. ASSUME NEW p \in Procs, StampFlow(p) PROVE LeftInv'
  BY <1>14 DEF StampFlow, ReadMarker
<1>15. ASSUME NEW p \in Procs, FinishWork(p) PROVE LeftInv'
  BY <1>15 DEF FinishWork
<1>16. ASSUME NEW p \in Procs, ReleaseRead(p) PROVE LeftInv'
  BY <1>16 DEF ReleaseRead, ReadMarker
<1>17. ASSUME NEW p \in Procs, ReleaseReprobe(p) PROVE LeftInv'
  BY <1>17 DEF ReleaseReprobe, ReadMarker
<1>18. ASSUME NEW p \in Procs, ReleaseUnlink(p) PROVE LeftInv'
  BY <1>18 DEF ReleaseUnlink, ReplaceBy
<1>19. ASSUME NEW p \in Procs, Die(p) PROVE LeftInv'
  BY <1>19 DEF Die
<1>20. ASSUME NEW e \in Enders, InspectMarker(e) PROVE LeftInv'
  BY <1>20 DEF InspectMarker
<1>21. ASSUME NEW e \in Enders, Discover(e) PROVE LeftInv'
  BY <1>21 DEF Discover
<1>22. ASSUME NEW e \in Enders, NEW r \in Runs, Kill(e, r) PROVE LeftInv'
  BY <1>22 DEF Kill
<1>23. ASSUME NEW e \in Enders, Terminated(e) PROVE LeftInv'
  BY <1>23 DEF Terminated
<1>24. ASSUME NEW e \in Enders, TerminateFails(e) PROVE LeftInv'
  BY <1>24 DEF TerminateFails
<1>25. ASSUME NEW e \in Enders, ClearExists(e) PROVE LeftInv'
  BY <1>25 DEF ClearExists
<1>26. ASSUME NEW e \in Enders, ClearRead(e) PROVE LeftInv'
  BY <1>26 DEF ClearRead
<1>27. ASSUME NEW e \in Enders, ClearVet(e) PROVE LeftInv'
  BY <1>27 DEF ClearVet
<1>28. ASSUME NEW e \in Enders, ClearUnlink(e) PROVE LeftInv'
  BY <1>28 DEF ClearUnlink, ReplaceBy
<1>29. ASSUME NEW e \in Enders, RecheckClaim(e) PROVE LeftInv'
  BY <1>29 DEF RecheckClaim, ReadMarker
<1>30. ASSUME NEW e \in Enders, Destroy(e) PROVE LeftInv'
  BY <1>30 DEF Destroy
<1>31. CASE UNCHANGED vars
  BY <1>31 DEF vars
<1> QED
  BY <1>1, <1>2, <1>3, <1>4, <1>5, <1>6, <1>7, <1>8, <1>9, <1>10, <1>11,
     <1>12, <1>13, <1>14, <1>15, <1>16, <1>17, <1>18, <1>19, <1>20, <1>21,
     <1>22, <1>23, <1>24, <1>25, <1>26, <1>27, <1>28, <1>29, <1>30, <1>31
     DEF Next, AcquireStep, ReleaseStep, EnderStep

\* While I/O works, nobody that ends in an orderly way leaves a marker behind.
THEOREM NothingLeft == Spec => []NothingLeftBehind
<1>1. Init => LeftInv
  BY DEF Init, LeftInv
<1>2. MarkerInv /\ LeftInv => NothingLeftBehind
  BY DEF MarkerInv, OwnerInv, OwnerPCs, TypeOK, LeftInv, NothingLeftBehind
<1> QED
  BY <1>1, <1>2, NextLeftInv, MarkerInvariant, PTL DEF Spec

=============================================================================
