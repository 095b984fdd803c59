------------------------------ MODULE RunMarker ------------------------------
(***************************************************************************)
(* The ownership token `run.pid` of one state directory.  A `luo run`      *)
(* (Runs) takes it before it starts a flow, refreshes it once the flow id  *)
(* is known and removes it when it ends; `luo end-session` (Enders) kills  *)
(* the run, clears an abandoned record, takes the token itself and then    *)
(* archives and deletes.  Both publish through acquire_run_marker: an      *)
(* exclusive create, then the record is written, then read back.           *)
(*                                                                         *)
(* Liveness of a recorded pid can be decided on the recording machine only.*)
(* All markers belong to the one flow that the Enders are ending.          *)
(***************************************************************************)
EXTENDS Naturals

CONSTANTS Runs, Enders, MachineOf,
          NoMarker, Undecodable,  \* no run.pid; one without a decodable owner
          Worlds                  \* what may happen around the processes

Procs == Runs \cup Enders

ASSUME RunMarkerAssumption ==
    /\ Runs \cap Enders = {}
    /\ NoMarker \notin Procs \cup {Undecodable} \cup [by : Procs, written : BOOLEAN]
    /\ Undecodable \notin Procs
    /\ Worlds \subseteq [ioErrors : BOOLEAN, onePerMachine : BOOLEAN, ending : BOOLEAN]

VARIABLES
    world,     \* ioErrors: reads and writes may fail; onePerMachine: a machine
               \* runs one luo at a time; ending: end-sessions are run
    marker,    \* NoMarker, or the creator of the file and whether it has a record
    pc,        \* where p is
    owners,    \* processes whose claim succeeded and that have not begun to release
    attempt,   \* attempt[p]: the loop variable of acquire_run_marker
    seen,      \* seen[p]: the holder p decoded and is judging
    victims,   \* victims[e]: processes that end-session set out to terminate
    overrun,   \* history: destructive steps of e taken after its claim was lost
    evicted    \* history: the marker of a live process was removed or replaced

vars == <<world, marker, pc, owners, attempt, seen, victims, overrun, evicted>>

PCs == {"idle", "create", "probe", "judge", "reclaim", "write", "drop", "verify",
        "rewrite", "working", "release", "reprobe", "unlink",
        "inspect", "discover", "kill", "exists", "read", "vet", "clear",
        "destroy", "done", "dead"}

Init ==
    /\ world \in Worlds
    /\ marker = NoMarker
    /\ pc = [p \in Procs |-> "idle"]
    /\ owners = {}
    /\ attempt = [p \in Procs |-> 0]
    /\ seen = [p \in Procs |-> NoMarker]
    /\ victims = [e \in Enders |-> {}]
    /\ overrun = [e \in Enders |-> 0]
    /\ evicted = FALSE

-----------------------------------------------------------------------------

Alive(p) == pc[p] \notin {"idle", "done", "dead"}

\* Mutant of Local: a pid is judged by the process table of whoever reads it.
LocalUngated(p, q) == TRUE

Local(p, q) == MachineOf[p] = MachineOf[q]

\* os.kill(pid, 0) by p: q's process is in the process table of p's machine.
FoundAlive(p, q) == MachineOf[p] = MachineOf[q] /\ Alive(q)

\* The file p made, before and after it wrote its record.
EmptyFile(p) == [by |-> p, written |-> FALSE]
RecordFile(p) == [by |-> p, written |-> TRUE]

\* The answers probe_run_marker may give: a read error reads as undecodable.
ReadMarker ==
    (IF marker = NoMarker THEN {NoMarker}
     ELSE IF marker.written THEN {marker.by} ELSE {Undecodable})
    \cup (IF world.ioErrors THEN {Undecodable} ELSE {})

Goto(p, l) == pc' = [pc EXCEPT ![p] = l]

\* The name now denotes m: whoever created the file it denoted loses it.
ReplaceBy(p, m) ==
    /\ marker' = m
    /\ evicted' = (evicted \/ (/\ marker # NoMarker /\ marker.by # p
                               /\ Alive(marker.by)))

\* A claim that is not granted.  A run that was only refreshing its record
\* ignores the answer; anyone else stands down.
Blocked(p) ==
    /\ attempt' = [attempt EXCEPT ![p] = 0]
    /\ Goto(p, IF p \in owners THEN "working" ELSE "done")
    /\ UNCHANGED owners

Acquired(p) ==
    /\ attempt' = [attempt EXCEPT ![p] = 0]
    /\ owners' = owners \cup {p}
    /\ Goto(p, "working")

-----------------------------------------------------------------------------
(* acquire_run_marker                                                      *)

Begin(p) ==
    /\ pc[p] = "idle"
    /\ p \in Enders => world.ending
    /\ world.onePerMachine => \A q \in Procs : ~FoundAlive(p, q)
    /\ Goto(p, IF p \in Runs THEN "create" ELSE "inspect")
    /\ UNCHANGED <<marker, owners, attempt, seen, victims, overrun, evicted, world>>

\* Mutant of CreateMarker: O_TRUNC in place of O_EXCL.
CreateMarkerTruncates(p) ==
    /\ pc[p] = "create"
    /\ marker' = EmptyFile(p)
    /\ Goto(p, "write")
    /\ UNCHANGED <<owners, attempt, seen, victims, overrun, evicted, world>>

\* os.open(O_WRONLY | O_CREAT | O_EXCL) makes an empty file ...
CreateMarker(p) ==
    /\ pc[p] = "create"
    /\ marker = NoMarker
    /\ marker' = EmptyFile(p)
    /\ Goto(p, "write")
    /\ UNCHANGED <<owners, attempt, seen, victims, overrun, evicted, world>>

\* ... or raises FileExistsError ...
CreateExists(p) ==
    /\ pc[p] = "create"
    /\ marker # NoMarker
    /\ Goto(p, "probe")
    /\ UNCHANGED <<marker, owners, attempt, seen, victims, overrun, evicted, world>>

\* ... or another error, which fails closed.
CreateFails(p) ==
    /\ pc[p] = "create"
    /\ world.ioErrors
    /\ Blocked(p)
    /\ UNCHANGED <<marker, seen, victims, overrun, evicted, world>>

\* Mutant of TryAgain: a file that vanished is always worth another attempt.
TryAgainAlways(p, r) == r = NoMarker

\* The file vanished between the create and the read: one more attempt.
TryAgain(p, r) == r = NoMarker /\ attempt[p] = 0

\* Only a run passes is_stale, and only its first attempt may use it.
ProbeMarker(p) ==
    /\ pc[p] = "probe"
    /\ \E r \in ReadMarker :
         LET judged == /\ r \in Procs \ {p} /\ Local(p, r)
                       /\ attempt[p] = 0 /\ p \in Runs
         IN \/ /\ TryAgain(p, r)
               /\ attempt' = [attempt EXCEPT ![p] = @ + 1]
               /\ Goto(p, "create")
               /\ UNCHANGED <<owners, seen>>
            \/ /\ r = p
               /\ Goto(p, "rewrite")
               /\ UNCHANGED <<owners, attempt, seen>>
            \/ /\ judged
               /\ seen' = [seen EXCEPT ![p] = r]
               /\ Goto(p, "judge")
               /\ UNCHANGED <<owners, attempt>>
            \/ /\ ~TryAgain(p, r) /\ r # p /\ ~judged
               /\ Blocked(p)
               /\ UNCHANGED seen
    /\ UNCHANGED <<marker, victims, overrun, evicted, world>>

\* _run_marker_is_stale: bare liveness of the pid read a moment ago.
JudgeHolder(p) ==
    /\ pc[p] = "judge"
    /\ \/ /\ FoundAlive(p, seen[p])
          /\ Blocked(p)
       \/ /\ ~FoundAlive(p, seen[p])
          /\ Goto(p, "reclaim")
          /\ UNCHANGED <<owners, attempt>>
    /\ UNCHANGED <<marker, seen, victims, overrun, evicted, world>>

\* The stale file is unlinked by name and the create is tried once more.
ReclaimMarker(p) ==
    /\ pc[p] = "reclaim"
    /\ ReplaceBy(p, NoMarker)
    /\ attempt' = [attempt EXCEPT ![p] = 1]
    /\ Goto(p, "create")
    /\ UNCHANGED <<owners, seen, victims, overrun, world>>

ReclaimFails(p) ==
    /\ pc[p] = "reclaim"
    /\ world.ioErrors
    /\ Blocked(p)
    /\ UNCHANGED <<marker, seen, victims, overrun, evicted, world>>

\* The record goes through the descriptor: if the name was removed meanwhile
\* the file written is an orphan.
WriteRecord(p) ==
    /\ pc[p] = "write"
    /\ marker' = IF marker = EmptyFile(p) THEN RecordFile(p) ELSE marker
    /\ Goto(p, "verify")
    /\ UNCHANGED <<owners, attempt, seen, victims, overrun, evicted, world>>

WriteFails(p) ==
    /\ pc[p] = "write"
    /\ world.ioErrors
    /\ Goto(p, "drop")
    /\ UNCHANGED <<marker, owners, attempt, seen, victims, overrun, evicted, world>>

\* After a failed write the name is removed, whatever it denotes.
DropCreated(p) ==
    /\ pc[p] = "drop"
    /\ ReplaceBy(p, NoMarker)
    /\ Blocked(p)
    /\ UNCHANGED <<seen, victims, overrun, world>>

VerifyRecord(p) ==
    /\ pc[p] = "verify"
    /\ \E r \in ReadMarker : IF r = p THEN Acquired(p) ELSE Blocked(p)
    /\ UNCHANGED <<marker, seen, victims, overrun, evicted, world>>

\* _rewrite_owned_marker: tmp + rename, unconditional by now.  A failure keeps
\* the ownership p has.
RewriteOwned(p) ==
    /\ pc[p] = "rewrite"
    /\ \/ ReplaceBy(p, RecordFile(p)) /\ Acquired(p)
       \/ world.ioErrors /\ Blocked(p) /\ UNCHANGED <<marker, evicted>>
    /\ UNCHANGED <<seen, victims, overrun, world>>

-----------------------------------------------------------------------------
(* The life of a run.                                                      *)

\* _stamp_run_pidfile_flow re-takes the marker when it still names p.
StampFlow(p) ==
    /\ p \in Runs /\ pc[p] = "working"
    /\ p \in ReadMarker
    /\ Goto(p, "create")
    /\ UNCHANGED <<marker, owners, attempt, seen, victims, overrun, evicted, world>>

\* Mutant of FinishWork: end-session never releases its claim.
FinishWorkKeepsClaim(p) ==
    /\ pc[p] = "working"
    /\ owners' = owners \ {p}
    /\ Goto(p, IF p \in Runs THEN "release" ELSE "done")
    /\ UNCHANGED <<marker, attempt, seen, victims, overrun, evicted, world>>

\* The flow, or the destructive window of end-session, is over.
FinishWork(p) ==
    /\ pc[p] = "working"
    /\ owners' = owners \ {p}
    /\ Goto(p, "release")
    /\ UNCHANGED <<marker, attempt, seen, victims, overrun, evicted, world>>

\* release_run_marker: remove the file iff it names p; a run also removes one
\* it cannot decode (drop_undecodable), after a second read.
ReleaseRead(p) ==
    /\ pc[p] = "release"
    /\ \E r \in ReadMarker :
         Goto(p, IF r = p THEN "unlink" ELSE IF p \in Runs THEN "reprobe" ELSE "done")
    /\ UNCHANGED <<marker, owners, attempt, seen, victims, overrun, evicted, world>>

ReleaseReprobe(p) ==
    /\ pc[p] = "reprobe"
    /\ \E r \in ReadMarker : Goto(p, IF r = Undecodable THEN "unlink" ELSE "done")
    /\ UNCHANGED <<marker, owners, attempt, seen, victims, overrun, evicted, world>>

ReleaseUnlink(p) ==
    /\ pc[p] = "unlink"
    /\ ReplaceBy(p, NoMarker)
    /\ Goto(p, "done")
    /\ UNCHANGED <<owners, attempt, seen, victims, overrun, world>>

\* A crash, at any point.
Die(p) ==
    /\ Alive(p)
    /\ Goto(p, "dead")
    /\ owners' = owners \ {p}
    /\ UNCHANGED <<marker, attempt, seen, victims, overrun, evicted, world>>

-----------------------------------------------------------------------------
(* luo end-session                                                         *)

\* _blocking_run_marker: a foreign or undecodable marker ends the command.
InspectMarker(e) ==
    /\ pc[e] = "inspect"
    /\ \E r \in ReadMarker :
         Goto(e, IF r = NoMarker \/ (r \in Procs /\ Local(e, r)) THEN "discover" ELSE "done")
    /\ UNCHANGED <<marker, owners, attempt, seen, victims, overrun, evicted, world>>

\* _discover_pids_for_flow: the recorded pid when it is a live local luo run,
\* and whatever live luo run of the flow the process scan happens to match.
Discover(e) ==
    /\ pc[e] = "discover"
    /\ LET runs == {r \in Runs : Alive(r) /\ Local(e, r)}
       IN \E r \in ReadMarker, scanned \in SUBSET runs :
            victims' = [victims EXCEPT ![e] = scanned \cup ({r} \cap runs)]
    /\ Goto(e, "kill")
    /\ UNCHANGED <<marker, owners, attempt, seen, overrun, evicted, world>>

\* _terminate_one on one of them.
Kill(e, r) ==
    /\ pc[e] = "kill"
    /\ r \in victims[e] /\ Alive(r)
    /\ Goto(r, "dead")
    /\ owners' = owners \ {r}
    /\ UNCHANGED <<marker, attempt, seen, victims, overrun, evicted, world>>

\* terminate_ok: every victim is confirmed dead ...
Terminated(e) ==
    /\ pc[e] = "kill"
    /\ \A r \in victims[e] : ~Alive(r)
    /\ Goto(e, "exists")
    /\ UNCHANGED <<marker, owners, attempt, seen, victims, overrun, evicted, world>>

\* ... or one survives, and nothing is cleared, claimed or archived.
TerminateFails(e) ==
    /\ pc[e] = "kill"
    /\ \E r \in victims[e] : Alive(r)
    /\ Goto(e, "done")
    /\ UNCHANGED <<marker, owners, attempt, seen, victims, overrun, evicted, world>>

\* _clear_stale_local_run_pidfile: exists() ...
ClearExists(e) ==
    /\ pc[e] = "exists"
    /\ Goto(e, IF marker = NoMarker THEN "create" ELSE "read")
    /\ UNCHANGED <<marker, owners, attempt, seen, victims, overrun, evicted, world>>

\* ... then the record: an undecodable one has no machine, which counts as
\* local, and no pid, which counts as not running ...
ClearRead(e) ==
    /\ pc[e] = "read"
    /\ \E r \in ReadMarker :
         \/ /\ r \in Procs /\ Local(e, r)
            /\ seen' = [seen EXCEPT ![e] = r]
            /\ Goto(e, "vet")
         \/ /\ r \in Procs /\ ~Local(e, r)
            /\ Goto(e, "create")
            /\ UNCHANGED seen
         \/ /\ r \notin Procs
            /\ Goto(e, "clear")
            /\ UNCHANGED seen
    /\ UNCHANGED <<marker, owners, attempt, victims, overrun, evicted, world>>

\* ... then _pid_is_live_se3_run: a live end-session is not a luo run ...
ClearVet(e) ==
    /\ pc[e] = "vet"
    /\ Goto(e, IF seen[e] \in Runs /\ Alive(seen[e]) THEN "create" ELSE "clear")
    /\ UNCHANGED <<marker, owners, attempt, seen, victims, overrun, evicted, world>>

\* ... and the unlink by name, on to the claim.
ClearUnlink(e) ==
    /\ pc[e] = "clear"
    /\ ReplaceBy(e, NoMarker)
    /\ Goto(e, "create")
    /\ UNCHANGED <<owners, attempt, seen, victims, overrun, world>>

\* Mutant of RecheckClaim: the claim is taken for granted once it was made.
RecheckClaimOnce(e) ==
    /\ e \in Enders /\ pc[e] = "working"
    /\ Goto(e, "destroy")
    /\ UNCHANGED <<marker, owners, attempt, seen, victims, overrun, evicted, world>>

\* _abandon_if_claim_lost before a destructive step: it is skipped unless the
\* marker still names e.
RecheckClaim(e) ==
    /\ e \in Enders /\ pc[e] = "working"
    /\ e \in ReadMarker
    /\ Goto(e, "destroy")
    /\ UNCHANGED <<marker, owners, attempt, seen, victims, overrun, evicted, world>>

\* A destructive step; overrun counts up to 2, which is one too many.
Destroy(e) ==
    /\ pc[e] = "destroy"
    /\ overrun' = [overrun EXCEPT
         ![e] = IF marker # RecordFile(e) /\ @ < 2 THEN @ + 1 ELSE @]
    /\ Goto(e, "working")
    /\ UNCHANGED <<marker, owners, attempt, seen, victims, evicted, world>>

-----------------------------------------------------------------------------

AcquireStep(p) ==
    \/ CreateMarker(p) \/ CreateExists(p) \/ CreateFails(p) \/ ProbeMarker(p)
    \/ JudgeHolder(p) \/ ReclaimMarker(p) \/ ReclaimFails(p)
    \/ WriteRecord(p) \/ WriteFails(p) \/ DropCreated(p)
    \/ VerifyRecord(p) \/ RewriteOwned(p)

ReleaseStep(p) == ReleaseRead(p) \/ ReleaseReprobe(p) \/ ReleaseUnlink(p)

EnderStep(e) ==
    \/ InspectMarker(e) \/ Discover(e) \/ \E r \in Runs : Kill(e, r)
    \/ Terminated(e) \/ TerminateFails(e)
    \/ ClearExists(e) \/ ClearRead(e) \/ ClearVet(e) \/ ClearUnlink(e)
    \/ RecheckClaim(e) \/ Destroy(e)

Next ==
    \/ \E p \in Procs :
         \/ Begin(p) \/ AcquireStep(p) \/ StampFlow(p)
         \/ FinishWork(p) \/ ReleaseStep(p) \/ Die(p)
    \/ \E e \in Enders : EnderStep(e)

Spec == Init /\ [][Next]_vars

-----------------------------------------------------------------------------
(* Properties.                                                             *)

\* Every variable keeps its type.
TypeOK ==
    /\ world \in Worlds
    /\ marker \in {NoMarker} \cup [by : Procs, written : BOOLEAN]
    /\ pc \in [Procs -> PCs]
    /\ owners \in SUBSET Procs
    /\ attempt \in [Procs -> {0, 1}]
    /\ seen \in [Procs -> Procs \cup {NoMarker}]
    /\ victims \in [Enders -> SUBSET Runs]
    /\ overrun \in [Enders -> 0 .. 2]
    /\ evicted \in BOOLEAN

\* "Two writers can never both succeed": one run is inside its flow, or one
\* end-session inside its destructive window, at any time.
OneOwner == \A p, q \in Procs : p \in owners /\ q \in owners => p = q

\* The token is exclusive, through crashes, refreshes, failed writes and
\* failed reads, until somebody removes the marker of a live process.
ExclusiveUnlessEvicted == ~evicted => OneOwner

\* Between machines the token is exclusive unconditionally: with one luo at a
\* time on each machine and no end-session, neither a crash, nor the reclaim
\* of a dead record, nor an I/O error lets two runs into the state directory.
ExclusiveAcrossMachines ==
    world.onePerMachine /\ ~world.ending => OneOwner /\ ~evicted

\* end-session re-reads its claim before every destructive step: after it lost
\* the claim at most the one step it had already checked for is carried out.
LostClaimStopsDestruction == \A e \in Enders : overrun[e] <= 1

\* Nobody that ends in an orderly way, having worked or been refused, leaves a
\* marker behind: "leaving one behind would wedge the flow for good".
NothingLeftBehind ==
    ~world.ioErrors /\ marker # NoMarker => pc[marker.by] # "done"

=============================================================================
