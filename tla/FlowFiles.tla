------------------------------ MODULE FlowFiles ------------------------------
(***************************************************************************)
(* The files of one project root (engine/persistence.py): engine.json      *)
(* holds the header of one flow, resumable/<flow>.json a second header of  *)
(* every flow that may be resumed, steps/<flow>/ the bodies both refer to, *)
(* archive/ the headers and bodies of flows that were retired.  A luo run  *)
(* saves its flow, a later run resumes it or starts another one over it,   *)
(* luo salvage and luo end-session retire it; every one of them may die    *)
(* between two file operations, and any best-effort operation may fail.    *)
(*                                                                         *)
(* One command at a time works on the root: runs and end-sessions exclude  *)
(* each other with the marker of module RunMarker.  A body stands for the  *)
(* content of a cold file and for its hash.  A flow has three parts: a     *)
(* completed step, the current step and the shared context.                *)
(***************************************************************************)
EXTENDS Integers, FiniteSets

CONSTANTS
  Flows,        \* flow ids
  NoFlow,       \* no flow
  MaxBody,      \* bound: contents a part can have
  Troubles,     \* which troubles happen: "crash" of the process, "body": a cold
                \* file cannot be read, "header": engine.json cannot be read,
                \* "disk": a best-effort write or removal fails, "unlink":
                \* the live header of a flow archived twice cannot be removed
  MaxTroubles   \* bound: how many of them

ASSUME FilesAssumption ==
  /\ NoFlow \notin Flows
  /\ MaxBody \in Nat \ {0}
  /\ MaxTroubles \in Nat
  /\ Troubles \subseteq {"crash", "body", "header", "disk", "unlink"}

VARIABLES
  engine,     \* engine.json: a header, or NoHeader
  snap,       \* resumable/<flow>.json: a header of the flow, or NoHeader
  cold,       \* steps/<flow>/: the body in the file of each part, or NoBody
  archive,    \* archive/: headers with the bodies that were copied beside them
  pc,         \* what the process at work does next
  mem,        \* the flow as the running luo run holds it
  save,       \* save_flow at work: bodies left to write, the flow that engine.json
              \* held before, where the run goes on afterwards
  ret,        \* a retirement at work: its flow, who asked, whether a snapshot was
              \* seen and the disposition landed, the copied bodies
  life,       \* history: what the last header said of the flow, or that it was ended
  saved,      \* history: the bodies of the flow's last save
  discarded,  \* history: flows whose review baselines were reclaimed
  marks,      \* history: what went wrong with a flow's files
  spent       \* history: troubles so far

files == <<engine, snap, cold, archive>>
vars == <<files, pc, mem, save, ret, life, saved, discarded, marks, spent>>

-----------------------------------------------------------------------------
Parts == {"past", "current", "context"}
Blank == 0            \* the empty body an unreadable file degrades to
NoBody == -1          \* no file, no reference
Bodies == Blank..MaxBody
Real == 1..MaxBody
NoBodies == [p \in Parts |-> NoBody]

Headers == [flow : Flows \cup {NoFlow}, status : {"open", "completed"},
            ref : [Parts -> Bodies \cup {NoBody}]]
NoHeader == [flow |-> NoFlow, status |-> "completed", ref |-> NoBodies]

\* Marks: "apart": a save ended with a header behind the bodies; "unsnapped": the
\* snapshot of the last open save was not written, or was removed although the
\* flow could not be archived; "kept": a snapshot that had to go is still there.
Marks == {"apart", "unsnapped", "kept"}

Trouble(kind) == kind \in Troubles /\ spent < MaxTroubles
Spend(happened) == spent' = IF happened THEN spent + 1 ELSE spent

\* The outcomes of a step that may fail.
Outcomes(kind) == {TRUE} \cup (IF Trouble(kind) THEN {FALSE} ELSE {})

\* Reading engine.json gives its header, or nothing.
SeenEngine(ok) == IF ok THEN engine ELSE NoHeader

HasFiles(f) == cold[f] # NoBodies
Referenced(f) == engine.flow = f \/ snap[f].flow = f
Unmark(f, m) == [marks EXCEPT ![f] = @ \ {m}]

NoMem == [flow |-> NoFlow, status |-> "open", val |-> NoBodies,
          loaded |-> [p \in Parts |-> FALSE], ref |-> NoBodies]
NoSave == [todo |-> {}, displaced |-> NoFlow, next |-> "idle"]
NoRet == [flow |-> NoFlow, by |-> "salvage", alive |-> FALSE, landed |-> TRUE,
          copy |-> NoBodies]

\* load_flow_by_id and the run's guard on completed flows: engine.json if it
\* holds the flow, its snapshot otherwise.
Found(f, seen) == IF seen.flow = f THEN seen ELSE snap[f]
Resumable(f) == Found(f, engine).flow = f /\ Found(f, engine).status = "open"

-----------------------------------------------------------------------------
(* save_flow *)
\* Mutant of Dirty: compared with the references the flow was loaded with.
DirtyAsLoaded(m, seen) ==
  {p \in Parts : m.loaded[p] /\ (m.val[p] # m.ref[p] \/ cold[m.flow][p] = NoBody)}

\* A part is written when it is in memory and either its hash is not the one
\* the header on disk records for this flow or its file is missing.
Dirty(m, seen) ==
  LET prior == IF seen.flow = m.flow THEN seen.ref ELSE NoBodies
  IN {p \in Parts : /\ m.loaded[p]
                    /\ m.val[p] # prior[p] \/ cold[m.flow][p] = NoBody}

BeginSave(m, next) ==
  \E ok \in Outcomes("header") :
    LET seen == SeenEngine(ok)
    IN /\ mem' = m
       /\ save' = [todo |-> Dirty(m, seen),
                   displaced |-> IF seen.flow = m.flow THEN NoFlow ELSE seen.flow,
                   next |-> next]
       /\ pc' = "bodies"
       /\ Spend(~ok)

\* Step bodies in any order, the context after them.
WriteBody(p) ==
  /\ pc = "bodies"
  /\ p \in save.todo
  /\ p = "context" => save.todo = {"context"}
  /\ cold' = [cold EXCEPT ![mem.flow][p] = mem.val[p]]
  /\ save' = [save EXCEPT !.todo = @ \ {p}]
  /\ UNCHANGED <<engine, snap, archive, pc, mem, ret, life, saved, discarded, marks,
                 spent>>

\* _split_flow: a part that was never read keeps the reference it came with.
Header(m) == [flow |-> m.flow, status |-> m.status,
              ref |-> [p \in Parts |-> IF m.loaded[p] THEN m.val[p] ELSE m.ref[p]]]

WriteHeader ==
  LET f == mem.flow
  IN /\ pc = "bodies"
     /\ save.todo = {}
     /\ engine' = Header(mem)
     /\ life' = [life EXCEPT ![f] = IF mem.status = "open" THEN "open" ELSE "ended"]
     /\ saved' = [saved EXCEPT ![f] =
                    [p \in Parts |-> IF mem.loaded[p] THEN mem.val[p] ELSE @[p]]]
     /\ pc' = IF save.displaced = NoFlow THEN "snapshot" ELSE "displaced"
     /\ UNCHANGED <<snap, cold, archive, mem, save, ret, discarded, marks, spent>>

\* _prune_cold_partition_if_orphan: neither engine.json nor a snapshot refers to
\* the flow's bodies; the removal may fail.
Orphan(f, seen) == HasFiles(f) /\ seen.flow # f /\ snap[f].flow # f

Prune(f) ==
  \E read \in Outcomes("header"), removed \in Outcomes("disk") :
    /\ read \/ removed
    /\ cold' = IF Orphan(f, SeenEngine(read)) /\ removed
                 THEN [cold EXCEPT ![f] = NoBodies] ELSE cold
    /\ Spend(~(read /\ removed))
PruneDisplaced ==
  /\ pc = "displaced"
  /\ Prune(save.displaced)
  /\ pc' = "snapshot"
  /\ UNCHANGED <<engine, snap, archive, mem, save, ret, life, saved, discarded, marks>>

\* Mutant of WriteSnapshot: the snapshot is filed under the flow just displaced.
WriteSnapshotMisfiled ==
  LET f == mem.flow
      g == IF save.displaced = NoFlow THEN f ELSE save.displaced
  IN /\ pc = "snapshot"
     /\ mem.status = "open"
     /\ \E ok \in Outcomes("disk") :
          /\ snap' = IF ok THEN [snap EXCEPT ![g] = engine] ELSE snap
          /\ marks' = IF ok THEN Unmark(f, "unsnapped")
                     ELSE [marks EXCEPT ![f] = @ \cup {"unsnapped", "apart"}]
          /\ Spend(~ok)
     /\ pc' = save.next
     /\ save' = NoSave
     /\ UNCHANGED <<engine, cold, archive, mem, ret, life, saved, discarded>>

\* A flow that is not completed gets its snapshot; the failure is only logged.
WriteSnapshot ==
  LET f == mem.flow
  IN /\ pc = "snapshot"
     /\ mem.status = "open"
     /\ \E ok \in Outcomes("disk") :
          /\ snap' = IF ok THEN [snap EXCEPT ![f] = engine] ELSE snap
          /\ marks' = IF ok THEN Unmark(f, "unsnapped")
                     ELSE [marks EXCEPT ![f] = @ \cup {"unsnapped", "apart"}]
          /\ Spend(~ok)
     /\ pc' = save.next
     /\ save' = NoSave
     /\ UNCHANGED <<engine, cold, archive, mem, ret, life, saved, discarded>>

\* clear_resumable_snapshot: the removal may fail, the pruning follows anyway.
Unlink(f, ended) ==
  \E ok \in Outcomes("disk") :
    LET gone == ok \/ snap[f] = NoHeader
    IN /\ snap' = IF ok THEN [snap EXCEPT ![f] = NoHeader] ELSE snap
       /\ marks' = [marks EXCEPT ![f] = (@ \ {m \in {"kept"} : gone})
                      \cup {m \in {"kept", "apart"} : ended /\ ~gone}
                      \cup {m \in {"unsnapped"} : ~ended /\ gone}]
       /\ Spend(~ok)

ClearSnapshot ==
  /\ pc = "snapshot"
  /\ mem.status = "completed"
  /\ Unlink(mem.flow, TRUE)
  /\ pc' = "own"
  /\ UNCHANGED <<engine, cold, archive, mem, save, ret, life, saved, discarded>>

PruneOwn ==
  /\ pc = "own"
  /\ Prune(mem.flow)
  /\ pc' = save.next
  /\ save' = NoSave
  /\ UNCHANGED <<engine, snap, archive, mem, ret, life, saved, discarded, marks>>

-----------------------------------------------------------------------------
(* A luo run *)

KeepRest == UNCHANGED <<files, ret, life, saved, discarded, marks>>

\* A new flow, saved over whatever engine.json holds.
Create(f) ==
  /\ pc = "idle"
  /\ life[f] = "none"
  /\ BeginSave([flow |-> f, status |-> "open", val |-> [p \in Parts |-> 1],
                loaded |-> [p \in Parts |-> TRUE], ref |-> NoBodies], "work")
  /\ KeepRest

\* A cold file that is missing or unreadable gives nothing.
Reads(f, p) == IF cold[f][p] = NoBody THEN {FALSE} ELSE Outcomes("body")

\* Mutant of Hydrated: whatever came of the read, the part counts as loaded.
HydratedAlways(m, p, ok) ==
  [m EXCEPT !.val[p] = IF ok THEN cold[m.flow][p] ELSE Blank, !.loaded[p] = TRUE]

\* apply_cold: only a body that was read marks the part loaded.
Hydrated(m, p, ok) ==
  [m EXCEPT !.val[p] = IF ok THEN cold[m.flow][p] ELSE Blank,
            !.loaded[p] = ok]

\* run.py --resume: the header is loaded, the bodies of the steps are left to
\* their first access and the context is read at once; a flow recovered from its
\* snapshot is written back as the live one.
Resume(f) ==
  /\ pc = "idle"
  /\ \E found \in Outcomes("header"), ok \in Reads(f, "context") :
       LET seen == SeenEngine(found)
           h    == Found(f, seen)
           lazy == [flow |-> f, status |-> "open",
                    val |-> [p \in Parts |-> Blank],
                    loaded |-> [p \in Parts |-> FALSE], ref |-> h.ref]
           m    == Hydrated(lazy, "context", ok)
           hurt == ~found \/ (~ok /\ cold[f]["context"] # NoBody)
       IN /\ h.flow = f
          /\ h.status = "open"
          /\ found \/ ok
          /\ IF seen.flow = f
               THEN /\ mem' = m
                    /\ pc' = "arm"
                    /\ Spend(hurt)
                    /\ UNCHANGED save
               ELSE /\ mem' = m
                    /\ save' = [todo |-> Dirty(m, seen), displaced |-> seen.flow,
                                next |-> "arm"]
                    /\ pc' = "bodies"
                    /\ Spend(hurt)
  /\ KeepRest

\* A keyed access reads the body of a step: of the current one at once, of a
\* completed one when its outputs are looked up.
Access(p) ==
  /\ pc = IF p = "current" THEN "arm" ELSE "work"
  /\ ~mem.loaded[p]
  /\ p \in {"current", "past"}
  /\ \E ok \in Reads(mem.flow, p) :
       /\ mem' = Hydrated(mem, p, ok)
       /\ Spend(~ok /\ cold[mem.flow][p] # NoBody)
       /\ pc' = IF p = "current" THEN "armed" ELSE "work"
  /\ UNCHANGED <<files, save, ret, life, saved, discarded, marks>>

\* _rearm_resumed_step: the body in memory is declared authoritative, read or not.
\* The retry counter it adds is not told apart.
Rearm ==
  /\ pc = "armed"
  /\ BeginSave([mem EXCEPT !.loaded["current"] = TRUE], "work")
  /\ KeepRest

\* A dialog or the failure gate owns the step: it is left as it is.
LeaveStep ==
  /\ pc = "armed"
  /\ pc' = "work"
  /\ UNCHANGED <<files, mem, save, ret, life, saved, discarded, marks, spent>>

\* run_step: the body in memory becomes the one that counts, whatever was read; it
\* is saved before the handler runs and after it produced another one, with what
\* it changed in the context.  The last step completes the flow.
Work(status) ==
  /\ pc = "work"
  /\ \E c \in Real \cup {mem.val["current"]}, x \in Real :
       BeginSave([mem EXCEPT !.status = status,
                             !.val["current"] = c, !.loaded["current"] = TRUE,
                             !.val["context"] = x],
                 IF status = "open" THEN "work" ELSE "reclaim")
  /\ KeepRest

\* The baselines of a completed flow go once its snapshot is seen to be gone.
Reclaim ==
  /\ pc = "reclaim"
  /\ discarded' = IF snap[mem.flow] = NoHeader THEN discarded \cup {mem.flow}
                  ELSE discarded
  /\ pc' = "idle"
  /\ mem' = NoMem
  /\ UNCHANGED <<files, save, ret, life, saved, marks, spent>>

\* The run pauses; what it saved stays.
Exit ==
  /\ pc = "work"
  /\ pc' = "idle"
  /\ mem' = NoMem
  /\ UNCHANGED <<files, save, ret, life, saved, discarded, marks, spent>>

-----------------------------------------------------------------------------
(* luo salvage and luo end-session *)

\* Salvage retires the flow in engine.json (its reads are taken to succeed).
Salvage ==
  /\ pc = "idle"
  /\ engine.flow # NoFlow
  /\ ret' = [NoRet EXCEPT !.flow = engine.flow]
  /\ pc' = "copy"
  /\ UNCHANGED <<files, mem, save, life, saved, discarded, marks, spent>>

\* End-session retires the flow it is asked for: it archives engine.json only
\* when that is seen to hold the flow.
EndSession(f) ==
  /\ pc = "idle"
  /\ life[f] # "none"
  /\ \E ok \in Outcomes("header") :
       /\ pc' = IF SeenEngine(ok).flow = f THEN "copy" ELSE "unsnap"
       /\ Spend(~ok)
  /\ ret' = [NoRet EXCEPT !.flow = f, !.by = "end"]
  /\ UNCHANGED <<files, mem, save, life, saved, discarded, marks>>

\* clear_state fails closed: salvage ends there, end-session goes on knowing
\* that the disposition did not land.
ArchiveFails ==
  /\ pc' = IF ret.by = "salvage" THEN "idle" ELSE "unsnap"
  /\ ret' = IF ret.by = "salvage" THEN NoRet
            ELSE [ret EXCEPT !.landed = FALSE, !.copy = NoBodies]
  /\ UNCHANGED <<engine, snap, cold>>

\* The bodies are copied before the header moves.
Copy ==
  /\ pc = "copy"
  /\ \E ok \in Outcomes("disk") :
       /\ Spend(~ok)
       /\ IF ok
            THEN /\ ret' = [ret EXCEPT !.copy = cold[ret.flow],
                                       !.alive = snap[ret.flow] # NoHeader]
                 /\ pc' = "publish"
                 /\ UNCHANGED <<engine, snap, cold>>
            ELSE ArchiveFails
  /\ UNCHANGED <<archive, mem, save, life, saved, discarded, marks>>

Archived(copy) == [flow |-> ret.flow, ref |-> engine.ref, bodies |-> copy]

\* The header is renamed into the archive; when the flow was archived before it
\* is written there with the name of its own partition and unlinked afterwards.
Publish ==
  /\ pc = "publish"
  /\ \E ok \in Outcomes("disk") :
       /\ Spend(~ok)
       /\ IF ok
            THEN /\ archive' = archive \cup {Archived(ret.copy)}
                 /\ IF \E a \in archive : a.flow = ret.flow
                      THEN pc' = "unlive" /\ UNCHANGED engine
                      ELSE pc' = "rmlive" /\ engine' = NoHeader
                 /\ UNCHANGED <<snap, cold, ret>>
            ELSE ArchiveFails /\ UNCHANGED archive
  /\ UNCHANGED <<mem, save, life, saved, discarded, marks>>

\* When that unlink fails the copied bodies are removed under the new header.
Unlive ==
  /\ pc = "unlive"
  /\ \E ok \in Outcomes("unlink") :
       /\ Spend(~ok)
       /\ IF ok
            THEN /\ engine' = NoHeader
                 /\ pc' = "rmlive"
                 /\ UNCHANGED <<snap, cold, archive, ret>>
            ELSE /\ archive' = (archive \ {Archived(ret.copy)}) \cup {Archived(NoBodies)}
                 /\ ArchiveFails
  /\ UNCHANGED <<mem, save, life, saved, discarded, marks>>

\* Mutant of RemoveLive: the snapshot that was seen is not heeded.
RemoveLiveAlways ==
  LET f == ret.flow
  IN /\ pc = "rmlive"
     /\ \E ok \in Outcomes("disk") :
          /\ cold' = IF ret.copy # NoBodies /\ ok THEN [cold EXCEPT ![f] = NoBodies]
                     ELSE cold
          /\ Spend(~ok)
     /\ pc' = "unsnap"
     /\ UNCHANGED <<engine, snap, archive, mem, save, ret, life, saved, discarded, marks>>

\* The live bodies go unless a snapshot was seen, which still refers to them.
RemoveLive ==
  LET f == ret.flow
  IN /\ pc = "rmlive"
     /\ \E ok \in Outcomes("disk") :
          LET remove == ret.copy # NoBodies /\ ~ret.alive
          IN /\ cold' = IF remove /\ ok THEN [cold EXCEPT ![f] = NoBodies] ELSE cold
             /\ Spend(~ok)
     /\ pc' = "unsnap"
     /\ UNCHANGED <<engine, snap, archive, mem, save, ret, life, saved, discarded, marks>>

\* Mutant of RetireSnapshot: salvage leaves the snapshot alone.
RetireSnapshotEnded ==
  /\ pc = "unsnap"
  /\ IF ret.by = "end" THEN Unlink(ret.flow, ret.landed)
     ELSE UNCHANGED <<snap, marks, spent>>
  /\ life' = IF ret.landed THEN [life EXCEPT ![ret.flow] = "ended"] ELSE life
  /\ pc' = "prune"
  /\ UNCHANGED <<engine, cold, archive, mem, save, ret, saved, discarded>>

RetireSnapshot ==
  /\ pc = "unsnap"
  /\ Unlink(ret.flow, ret.landed)
  /\ life' = IF ret.landed THEN [life EXCEPT ![ret.flow] = "ended"] ELSE life
  /\ pc' = "prune"
  /\ UNCHANGED <<engine, cold, archive, mem, save, ret, saved, discarded>>

PruneRetired ==
  /\ pc = "prune"
  /\ Prune(ret.flow)
  /\ pc' = "discard"
  /\ UNCHANGED <<engine, snap, archive, mem, save, ret, life, saved, discarded, marks>>

\* Mutant of Discard: the snapshot is gone, whether or not the archive landed.
DiscardUnlanded ==
  /\ pc = "discard"
  /\ discarded' = IF snap[ret.flow] = NoHeader THEN discarded \cup {ret.flow}
                  ELSE discarded
  /\ pc' = "idle"
  /\ ret' = NoRet
  /\ UNCHANGED <<files, mem, save, life, saved, marks, spent>>

\* The baselines go with a snapshot that is seen to be gone and a disposition
\* that landed.
Discard ==
  /\ pc = "discard"
  /\ discarded' = IF snap[ret.flow] = NoHeader /\ ret.landed
                    THEN discarded \cup {ret.flow} ELSE discarded
  /\ pc' = "idle"
  /\ ret' = NoRet
  /\ UNCHANGED <<files, mem, save, life, saved, marks, spent>>

-----------------------------------------------------------------------------
\* The process dies, or an operation it cannot do without fails and ends it.
CrashMarks(f) ==
  marks[f]
    \cup {m \in {"apart"} : pc \in {"bodies", "displaced", "snapshot"} /\ mem.flow = f}
    \cup {m \in {"unsnapped"} : /\ pc \in {"displaced", "snapshot"}
                               /\ mem.flow = f /\ mem.status = "open"}
    \cup {m \in {"kept"} : /\ snap[f] # NoHeader
                           /\ pc \in {"displaced", "snapshot"}
                           /\ mem.flow = f /\ mem.status = "completed"}

Crash ==
  /\ pc # "idle"
  /\ Trouble("crash")
  /\ pc' = "idle"
  /\ mem' = NoMem /\ save' = NoSave /\ ret' = NoRet
  /\ marks' = [f \in Flows |-> CrashMarks(f)]
  /\ Spend(TRUE)
  /\ UNCHANGED <<files, life, saved, discarded>>

Init ==
  /\ engine = NoHeader
  /\ snap = [f \in Flows |-> NoHeader]
  /\ cold = [f \in Flows |-> NoBodies]
  /\ archive = {}
  /\ pc = "idle"
  /\ mem = NoMem /\ save = NoSave /\ ret = NoRet
  /\ life = [f \in Flows |-> "none"]
  /\ saved = [f \in Flows |-> NoBodies]
  /\ discarded = {}
  /\ marks = [f \in Flows |-> {}]
  /\ spent = 0

SaveStep ==
  \/ \E p \in Parts : WriteBody(p)
  \/ WriteHeader \/ PruneDisplaced \/ WriteSnapshot \/ ClearSnapshot \/ PruneOwn

RunStep ==
  \/ \E f \in Flows : Create(f) \/ Resume(f)
  \/ Access("current") \/ Access("past")
  \/ Rearm \/ LeaveStep \/ Work("open") \/ Work("completed") \/ Reclaim \/ Exit

RetireStep ==
  \/ Salvage
  \/ \E f \in Flows : EndSession(f)
  \/ Copy \/ Publish \/ Unlive \/ RemoveLive \/ RetireSnapshot \/ PruneRetired
  \/ Discard

Next == SaveStep \/ RunStep \/ RetireStep \/ Crash
Spec == Init /\ [][Next]_vars

-----------------------------------------------------------------------------
Places == {"idle", "bodies", "displaced", "snapshot", "own", "arm", "armed", "work",
           "reclaim", "copy", "publish", "unlive", "rmlive", "unsnap", "prune",
           "discard"}

\* Types, and headers are filed under their own flow.
TypeOK ==
  /\ engine \in Headers
  /\ snap \in [Flows -> Headers]
  /\ \A f \in Flows : snap[f] = NoHeader \/ snap[f].flow = f
  /\ cold \in [Flows -> [Parts -> Bodies \cup {NoBody}]]
  /\ archive \subseteq [flow : Flows, ref : [Parts -> Bodies \cup {NoBody}],
                        bodies : [Parts -> Bodies \cup {NoBody}]]
  /\ pc \in Places
  /\ mem \in [flow : Flows \cup {NoFlow}, status : {"open", "completed"},
              val : [Parts -> Bodies \cup {NoBody}], loaded : [Parts -> BOOLEAN],
              ref : [Parts -> Bodies \cup {NoBody}]]
  /\ save \in [todo : SUBSET Parts, displaced : Flows \cup {NoFlow},
               next : {"idle", "arm", "work", "reclaim"}]
  /\ ret \in [flow : Flows \cup {NoFlow}, by : {"salvage", "end"}, alive : BOOLEAN,
              landed : BOOLEAN, copy : [Parts -> Bodies \cup {NoBody}]]
  /\ life \in [Flows -> {"none", "open", "ended"}]
  /\ saved \in [Flows -> [Parts -> Bodies \cup {NoBody}]]
  /\ discarded \subseteq Flows
  /\ marks \in [Flows -> SUBSET Marks]
  /\ spent \in 0..MaxTroubles

Resolves(ref, bodies) == \A p \in Parts : ref[p] # NoBody => bodies[p] # NoBody

\* No header ever points at a body that is not there: engine.json and the
\* snapshots share the live bodies, of which each of them and each of the removals
\* knows only a part, and an archived header owns its copy.
RefsResolve ==
  /\ \A f \in Flows : engine.flow = f => Resolves(engine.ref, cold[f])
  /\ \A f \in Flows : Resolves(snap[f].ref, cold[f])
  /\ \A a \in archive : Resolves(a.ref, a.bodies)

\* What the last save of a flow held in memory is what its files contain, also
\* where the save skipped a file for its hash, another flow held engine.json in
\* between or the previous run died - unless a save of the flow was cut off and left
\* engine.json or the snapshot behind the bodies.
SavedIsStored ==
  \A f \in Flows :
    /\ Referenced(f)
    /\ "apart" \notin marks[f]
    /\ ~(pc = "bodies" /\ mem.flow = f)
    => \A p \in Parts : saved[f][p] # NoBody => cold[f][p] = saved[f][p]

\* A body that could not be read is never replaced by the empty one it degrades
\* to in memory (Step.apply_cold, State.cold_context_loaded), for the completed
\* steps and the context.
UnreadStaysWhole ==
  \A f \in Flows, p \in {"past", "context"} : cold[f][p] # Blank

\* The same for every part.  It fails for the current step, which a resume
\* declares authoritative without looking whether it was read.
EveryBodySurvives == \A f \in Flows, p \in Parts : cold[f][p] # Blank

\* A flow can be resumed exactly as long as it is neither completed nor ended,
\* whatever later flows do to engine.json; but for a snapshot whose writing or
\* removal failed or was cut off.
ResumableWhileOpen ==
  \A f \in Flows :
    /\ life[f] = "open" /\ "unsnapped" \notin marks[f] => Resumable(f)
    /\ Resumable(f) /\ "kept" \notin marks[f] => life[f] = "open"

\* A flow whose review baselines were reclaimed can never be resumed: its next
\* SELF_CHECK would have nothing to diff against.
BaselinesOutliveResume == \A f \in discarded : ~Resumable(f)

=============================================================================
