--------------------------- MODULE VersionReconcile ---------------------------
(***************************************************************************)
(* The release point of a worktree flow: version_reconcile_handler         *)
(* (engine/steps/version_reconcile.py) with reconcile and                  *)
(* undo_last_reconcile (engine/merge/reconcile.py), run on the main        *)
(* checkout after the flow's branch was merged.                            *)
(*                                                                         *)
(* log is master's first-parent history, each commit with what it holds of *)
(* the version file, the changelog and the consumed flags of the intents;  *)
(* tree is the working tree's copy of the three, saved the recovery        *)
(* snapshot in the git directory.  run is the process inside the step: the *)
(* merge lock is taken for one step at a time, so other flows merge and    *)
(* release between a flow's merge and its release, and while its reviewer  *)
(* decides.                                                                *)
(*                                                                         *)
(* The operator edits the checkout, though not while the step runs.  A     *)
(* version is <<minor, patch>>.  The content of a file is what releases    *)
(* put there (rel: the versions the version file names, the entries of the *)
(* changelog, the intents flagged) and the operator's edits.  Conflict     *)
(* markers keep both sides, so a version file that names two versions is   *)
(* one with markers.                                                       *)
(***************************************************************************)
EXTENDS Naturals, FiniteSets, SequencesExt

CONSTANTS
  Flows,        \* worktree flows with a version intent
  MaxTroubles,  \* failures, interrupts and kills of the step
  MaxEdits,     \* edits of the operator
  MaxRejects    \* releases the reviewer rejects

ASSUME ReconcileAssumption ==
  /\ IsFiniteSet(Flows)
  /\ MaxTroubles \in Nat /\ MaxEdits \in Nat /\ MaxRejects \in Nat

VARIABLES
  log,     \* the commits reachable from HEAD, oldest first
  tags,    \* release tags
  tree,    \* working tree, per file
  saved,   \* se3-reconcile-recovery.json: file -> [head, other], empty when absent
  run,     \* the process inside the step
  stage,   \* what each flow has reached, the bump its intent amounts to, and the
           \* release its reviewer last rejected
  edited,  \* the edits the operator has made, per file
  spent,   \* uses of the bounded events
  ghost    \* the events the properties except

vars == <<log, tags, tree, saved, run, stage, edited, spent, ghost>>

Owned == {"version", "docs"}   \* _reconcile_owned_relpaths
Files == Owned \cup {"intents"}
Version == Nat \X Nat
NoTag == <<0, 0>>              \* no Version-Tag trailer
Nothing == [p \in {} |-> 0]    \* no snapshot
Bumps == {"none", "patch", "minor"}

Tip == Last(log)
At(p) == Tip.files[p]
Releases(f) == {i \in 1..Len(log) : log[i].kind = "release" /\ log[i].flow = f}
Released(f) == Releases(f) # {}        \* reconcile_commit_exists
ReleaseOf(f) == IF Released(f) THEN log[CHOOSE i \in Releases(f) : TRUE].id ELSE 0

\* Hashes are told apart while something still names them.
Named == {log[i].id : i \in 1..Len(log)} \cup {t.commit : t \in tags}
           \cup {stage[f].rejected : f \in Flows}
FreshId == CHOOSE n \in 1..(Cardinality(Named) + 1) : n \notin Named

Bumped(v, bump) ==
  CASE bump = "minor" -> <<v[1] + 1, 0>>
    [] bump = "patch" -> <<v[1], v[2] + 1>>
    [] OTHER -> v

VersionAt(files) == CHOOSE v \in files["version"].rel : TRUE

\* _three_way_merge, the markers of an overlap keeping both sides.
MergedRel(base, current, other) ==
  IF other = base THEN current
  ELSE IF current \in {base, other} THEN other
  ELSE current \cup other

Merged(current, snap) ==
  [rel |-> MergedRel(snap.head.rel, current.rel, snap.other.rel),
   edits |-> current.edits \cup snap.other.edits]

Idle == [pc |-> "idle", flow |-> "none", undoing |-> FALSE, mem |-> Nothing, todo |-> {},
         target |-> NoTag, undone |-> [id |-> 0, tag |-> NoTag],
         error |-> FALSE, unplayed |-> FALSE]

Entered(f, pc) == [Idle EXCEPT !.pc = pc, !.flow = f]

\* Owned files, then the intents; a loop over files goes through them in turn.
NextOf(todo) ==
  CHOOSE p \in todo : \A q \in todo : q # p => q = "intents" \/ (q = "docs" /\ p = "version")

Init ==
  /\ log = <<[id |-> 1, kind |-> "merge", flow |-> "none", tag |-> NoTag,
              files |-> [p \in Files |->
                [rel |-> IF p = "version" THEN {<<1, 0>>} ELSE {}, edits |-> {}]]]>>
  /\ tags = {} /\ tree = log[1].files /\ saved = Nothing /\ run = Idle
  /\ stage = [f \in Flows |-> [at |-> "working", bump |-> "none", rejected |-> 0]]
  /\ edited = [p \in Owned |-> {}]
  /\ spent = [troubles |-> 0, edits |-> 0, rejects |-> 0]
  /\ ghost = [blind |-> FALSE, torn |-> FALSE, residue |-> FALSE]

-----------------------------------------------------------------------------
(***************************************************************************)
(* The flow around the step, and the operator.                             *)
(***************************************************************************)
\* merge_integrate: the branch lands with the intent its agent wrote, the owned
\* files as they were.
Integrate(f, bump) ==
  /\ run.pc = "idle" /\ stage[f].at = "working"
  /\ stage' = [stage EXCEPT ![f].at = "integrated", ![f].bump = bump]
  /\ log' = Append(log, [id |-> FreshId, kind |-> "merge", flow |-> f,
                         tag |-> NoTag, files |-> Tip.files])
  /\ UNCHANGED <<tags, tree, saved, run, edited, spent, ghost>>

\* The step is run, or run again after it failed or died.  A rejection has set
\* is_revision, which nothing resets.
Begin(f) ==
  /\ run.pc = "idle" /\ stage[f].at = "integrated"
  /\ run' = Entered(f, IF stage[f].rejected # 0 THEN "undo" ELSE "recover")
  /\ UNCHANGED <<log, tags, tree, saved, stage, edited, spent, ghost>>

Approve(f) ==
  /\ stage[f].at = "review"
  /\ stage' = [stage EXCEPT ![f].at = "done"]
  /\ UNCHANGED <<log, tags, tree, saved, run, edited, spent, ghost>>

Reject(f) ==
  /\ stage[f].at = "review" /\ spent.rejects < MaxRejects
  /\ stage' = [stage EXCEPT ![f].at = "integrated", ![f].rejected = ReleaseOf(f)]
  /\ spent' = [spent EXCEPT !.rejects = @ + 1]
  /\ UNCHANGED <<log, tags, tree, saved, run, edited, ghost>>

Edit(p) ==
  /\ run.pc = "idle" /\ spent.edits < MaxEdits
  /\ spent' = [spent EXCEPT !.edits = @ + 1]
  /\ tree' = [tree EXCEPT ![p].edits = @ \cup {spent'.edits}]
  /\ edited' = [edited EXCEPT ![p] = @ \cup {spent'.edits}]
  /\ UNCHANGED <<log, tags, saved, run, stage, ghost>>

-----------------------------------------------------------------------------
(***************************************************************************)
(* Detaching and reattaching the operator's edits.                         *)
(***************************************************************************)
CapturedDocs ==   \* mutant
  [p \in {q \in {"docs"} : tree[q] # At(q)} |-> [head |-> At(p), other |-> tree[p]]]
CapturedAll ==   \* mutant
  [p \in {q \in Files : tree[q] # At(q)} |-> [head |-> At(p), other |-> tree[p]]]
Captured ==
  [p \in {q \in Owned : tree[q] # At(q)} |-> [head |-> At(p), other |-> tree[p]]]

\* The capture pass, and the durable copy before the first reset: an empty
\* capture writes none.
Capture(r) ==
  /\ run' = [r EXCEPT !.pc = "detach", !.mem = Captured, !.todo = DOMAIN Captured]
  /\ saved' = IF DOMAIN Captured = {} THEN saved ELSE Captured

Detach ==
  /\ run.pc = "detach" /\ run.todo # {}
  /\ tree' = [tree EXCEPT ![NextOf(run.todo)] = At(NextOf(run.todo))]
  /\ run' = [run EXCEPT !.todo = @ \ {NextOf(run.todo)}]
  /\ UNCHANGED <<log, tags, saved, stage, edited, spent, ghost>>

Detached ==
  /\ run.pc = "detach" /\ run.todo = {}
  /\ run' = [run EXCEPT !.pc = IF run.undoing THEN "reset" ELSE "flags"]
  /\ UNCHANGED <<log, tags, tree, saved, stage, edited, spent, ghost>>

Snapshots == IF run.pc = "replay" THEN saved ELSE run.mem
Reattaching == run.pc \in {"replay", "reattach"} /\ run.todo # {}

Reattach ==
  /\ Reattaching
  /\ LET p == NextOf(run.todo)
     IN  /\ tree' = [tree EXCEPT ![p] = Merged(@, Snapshots[p])]
         /\ run' = [run EXCEPT !.todo = @ \ {p}]
  /\ UNCHANGED <<log, tags, saved, stage, edited, spent, ghost>>

Reattached == [run EXCEPT !.pc = "reattach", !.todo = DOMAIN run.mem]

\* What the finally leaves behind: the snapshot goes unless an edit is unplayed.
ClearAlways == Nothing   \* mutant
Cleared == IF run.unplayed THEN saved ELSE Nothing

\* A failure leaves the step FAILED; an undo goes on to the recomputation, a
\* release to its review.
Clear ==
  /\ run.pc = "reattach" /\ run.todo = {}
  /\ saved' = Cleared
  /\ run' = IF run.undoing /\ ~run.error /\ ~run.unplayed
            THEN Entered(run.flow, "recover") ELSE Idle
  /\ stage' = IF run.undoing \/ run.error \/ run.unplayed THEN stage
              ELSE [stage EXCEPT ![run.flow].at = "review"]
  /\ UNCHANGED <<log, tags, tree, edited, spent, ghost>>

-----------------------------------------------------------------------------
(***************************************************************************)
(* undo_last_reconcile.                                                    *)
(***************************************************************************)
OursGeneric == Tip.kind = "release"   \* mutant
Ours == Tip.kind = "release" /\ Tip.flow = run.flow

\* A release that is not HEAD cannot be undone: the handler fails unless there
\* is nothing to undo.
UndoRefused ==
  /\ run.pc = "undo" /\ ~Ours
  /\ run' = IF Released(run.flow) THEN Idle ELSE Entered(run.flow, "recover")
  /\ UNCHANGED <<log, tags, tree, saved, stage, edited, spent, ghost>>

UndoBegins ==
  /\ run.pc = "undo" /\ Ours
  /\ Capture([run EXCEPT !.undoing = TRUE, !.undone = [id |-> Tip.id, tag |-> Tip.tag]])
  /\ ghost' = [ghost EXCEPT !.blind = @ \/ DOMAIN saved # {}]
  /\ UNCHANGED <<log, tags, tree, stage, edited, spent>>

\* git reset --mixed HEAD~1.
Reset ==
  /\ run.pc = "reset"
  /\ log' = Front(log)
  /\ run' = [run EXCEPT !.pc = "restore", !.todo = Files]
  /\ UNCHANGED <<tags, tree, saved, stage, edited, spent, ghost>>

\* _restore_reconcile_paths, of an undo or of a failed release.
Restore ==
  /\ run.pc = "restore" /\ run.todo # {}
  /\ tree' = [tree EXCEPT ![NextOf(run.todo)] = At(NextOf(run.todo))]
  /\ run' = [run EXCEPT !.todo = @ \ {NextOf(run.todo)}]
  /\ UNCHANGED <<log, tags, saved, stage, edited, spent, ghost>>

Restored ==
  /\ run.pc = "restore" /\ run.todo = {}
  /\ run' = IF run.error THEN Reattached ELSE [run EXCEPT !.pc = "untag"]
  /\ UNCHANGED <<log, tags, tree, saved, stage, edited, spent, ghost>>

\* Only the tag the undone commit names, and only while it points there.
Untag ==
  /\ run.pc = "untag"
  /\ tags' = tags \ {[version |-> run.undone.tag, commit |-> run.undone.id]}
  /\ run' = Reattached
  /\ UNCHANGED <<log, tree, saved, stage, edited, spent, ghost>>

-----------------------------------------------------------------------------
(***************************************************************************)
(* reconcile.                                                              *)
(***************************************************************************)
\* _recover_operator_snapshot replays what a dead run had detached.
Recover ==
  /\ run.pc = "recover"
  /\ run' = [run EXCEPT !.pc = "replay", !.todo = DOMAIN saved]
  /\ UNCHANGED <<log, tags, tree, saved, stage, edited, spent, ghost>>

Recovered ==
  /\ run.pc = "replay" /\ run.todo = {}
  /\ saved' = Cleared
  /\ run' = IF run.unplayed THEN Idle ELSE [run EXCEPT !.pc = "collect"]
  /\ UNCHANGED <<log, tags, tree, stage, edited, spent, ghost>>

\* The trailer decides, not the consumed flag.
Outstanding == ~Released(run.flow)

NothingToDo ==
  /\ run.pc = "collect" /\ ~Outstanding
  /\ run' = Idle
  /\ stage' = [stage EXCEPT ![run.flow].at = "review"]
  /\ UNCHANGED <<log, tags, tree, saved, edited, spent, ghost>>

Collect ==
  /\ run.pc = "collect" /\ Outstanding
  /\ Capture(run)
  /\ UNCHANGED <<log, tags, tree, stage, edited, spent, ghost>>

Bump == stage[run.flow].bump
Publishes == Bump # "none"
Tagging == Bump = "minor"   \* should_tag_semver_bump

\* A flag that a dead run left is dropped with the rest of its residue; the
\* base version is the tree's, which is HEAD's now.
Derive ==
  /\ run.pc = "flags"
  /\ tree' = IF run.flow \in tree["intents"].rel
             THEN [tree EXCEPT !["intents"] = At("intents")] ELSE tree
  /\ run' = [run EXCEPT !.pc = IF Publishes THEN "version" ELSE "mark",
                        !.target = Bumped(VersionAt(tree), Bump)]
  /\ UNCHANGED <<log, tags, saved, stage, edited, spent, ghost>>

\* The apply phase writes the version file, the changelog, the flag.
WriteVersion ==
  /\ run.pc = "version"
  /\ tree' = [tree EXCEPT !["version"].rel = {run.target}]
  /\ run' = [run EXCEPT !.pc = "changelog"]
  /\ UNCHANGED <<log, tags, saved, stage, edited, spent, ghost>>

MergeChangelog ==
  /\ run.pc = "changelog"
  /\ tree' = [tree EXCEPT !["docs"].rel = @ \cup {<<run.flow, run.target>>}]
  /\ run' = [run EXCEPT !.pc = "mark"]
  /\ UNCHANGED <<log, tags, saved, stage, edited, spent, ghost>>

MarkConsumed ==
  /\ run.pc = "mark"
  /\ tree' = [tree EXCEPT !["intents"].rel = @ \cup {run.flow}]
  /\ run' = [run EXCEPT !.pc = "commit"]
  /\ UNCHANGED <<log, tags, saved, stage, edited, spent, ghost>>

CommitReconcile ==
  /\ run.pc = "commit"
  /\ log' = Append(log, [id |-> FreshId, kind |-> "release", flow |-> run.flow,
                         tag |-> IF Tagging THEN run.target ELSE NoTag, files |-> tree])
  /\ run' = [run EXCEPT !.pc = "tag"]
  /\ UNCHANGED <<tags, tree, saved, stage, edited, spent, ghost>>

\* Git refuses a name that is taken; the commit stays without its tag.
TagTaken == Tagging /\ \E t \in tags : t.version = run.target

\* The commit is verified before the tag is made.
CreateTag ==
  /\ run.pc = "tag" /\ ~TagTaken
  /\ tags' = IF Tagging THEN tags \cup {[version |-> run.target, commit |-> Tip.id]} ELSE tags
  /\ run' = Reattached
  /\ UNCHANGED <<log, tree, saved, stage, edited, spent, ghost>>

RollBack == [run EXCEPT !.pc = "restore", !.todo = Files, !.error = TRUE]

TagRefused ==
  /\ run.pc = "tag" /\ TagTaken
  /\ run' = RollBack
  /\ UNCHANGED <<log, tags, tree, saved, stage, edited, spent, ghost>>

-----------------------------------------------------------------------------
(***************************************************************************)
(* Trouble: a typed failure, a Ctrl-C, a kill.                             *)
(***************************************************************************)
Applying == run.pc \in {"version", "changelog", "mark", "commit", "tag"}

\* Steps inside the try whose finally reattaches; the detach of an undo is not.
InTry ==
  run.pc \in {"flags", "reset", "restore", "untag"} \/ (run.pc = "detach" /\ ~run.undoing)

\* The detach of an undo, and what runs before any detach.
Outside == run.pc \in {"undo", "recover", "collect"} \/ (run.pc = "detach" /\ run.undoing)

Troubled ==
  /\ spent.troubles < MaxTroubles
  /\ spent' = [spent EXCEPT !.troubles = @ + 1]
  /\ UNCHANGED <<log, tags, edited, stage>>

\* An undo that is cut between its reset and its end leaves the tag;
\* one cut while it writes or restores leaves a part of a release in the tree.
Torn == run.undoing /\ run.pc \in {"restore", "untag"}
Noted(halfWritten) ==
  ghost' = [ghost EXCEPT !.torn = @ \/ Torn, !.residue = @ \/ halfWritten]

Erring == [Reattached EXCEPT !.error = TRUE]

\* A git command, a write or the derivation fails.
Failure ==
  /\ Troubled
  /\ \/ Applying /\ run' = RollBack
     \/ InTry /\ run' = Erring
     \/ Outside /\ run' = Idle
  /\ Noted(run.pc = "restore")
  /\ UNCHANGED <<tree, saved>>

\* An edit cannot be written back.
ReattachFailure ==
  /\ Troubled /\ Reattaching
  /\ run' = [run EXCEPT !.todo = @ \ {NextOf(run.todo)}, !.unplayed = TRUE]
  /\ UNCHANGED <<tree, saved, ghost>>

\* KeyboardInterrupt is none of the errors that roll back, but the finally runs.
Interrupt ==
  /\ Troubled
  /\ Applying \/ InTry
  /\ run' = Erring
  /\ Noted(Applying \/ run.pc = "restore")
  /\ UNCHANGED <<tree, saved>>

Kill ==
  /\ Troubled /\ run.pc # "idle"
  /\ run' = Idle
  /\ Noted(Applying \/ run.pc = "restore")
  /\ UNCHANGED <<tree, saved>>

-----------------------------------------------------------------------------
Undo == UndoRefused \/ UndoBegins \/ Reset \/ Restore \/ Restored \/ Untag

Apply ==
  \/ WriteVersion \/ MergeChangelog \/ MarkConsumed \/ CommitReconcile
  \/ CreateTag \/ TagRefused

Reconcile ==
  \/ Recover \/ Recovered \/ NothingToDo \/ Collect \/ Derive \/ Apply
  \/ Detach \/ Detached \/ Reattach \/ Clear

Trouble == Failure \/ ReattachFailure \/ Interrupt \/ Kill

Next ==
  \/ \E f \in Flows, bump \in Bumps : Integrate(f, bump)
  \/ \E f \in Flows : Begin(f) \/ Approve(f) \/ Reject(f)
  \/ \E p \in Owned : Edit(p)
  \/ Undo \/ Reconcile \/ Trouble

Spec == Init /\ [][Next]_vars

-----------------------------------------------------------------------------
(***************************************************************************)
(* Properties.                                                             *)
(***************************************************************************)
\* What releases can have put into each file.
Rel(p) ==
  CASE p = "version" -> Version [] p = "docs" -> Flows \X Version [] p = "intents" -> Flows

IsContent(p, c) == c.rel \subseteq Rel(p) /\ c.edits \subseteq 1..MaxEdits
AreSnapshots(s) ==
  DOMAIN s \subseteq Owned /\ \A p \in DOMAIN s : IsContent(p, s[p].head) /\ IsContent(p, s[p].other)

\* Types: snapshots are of the operator's files only, the intents never carry
\* an edit, HEAD names one version.
TypeOK ==
  /\ \A i \in 1..Len(log) :
       /\ log[i].id \in Nat /\ log[i].kind \in {"merge", "release"}
       /\ log[i].flow \in Flows \cup {"none"} /\ log[i].tag \in Version
       /\ \A p \in Files : IsContent(p, log[i].files[p])
  /\ tags \subseteq [version: Version, commit: Nat]
  /\ \A p \in Files : IsContent(p, tree[p])
  /\ tree["intents"].edits = {} /\ Cardinality(At("version").rel) = 1
  /\ AreSnapshots(saved) /\ AreSnapshots(run.mem)
  /\ run.flow \in Flows \cup {"none"} /\ run.todo \subseteq Files
  /\ stage \in [Flows -> [at: {"working", "integrated", "review", "done"},
                      bump: Bumps, rejected: Nat]]
  /\ spent.troubles <= MaxTroubles /\ spent.edits <= MaxEdits /\ spent.rejects <= MaxRejects

\* Every release advances the version of the commit it lands on by its flow's own
\* bump, once per flow, files its one changelog entry and carries no edit of the
\* operator, whatever residue and conflict markers lie in the tree ("one intent
\* bumping the version twice", reconcile.py:2272).
ReleasesFollow ==
  /\ \A f \in Flows : Cardinality(Releases(f)) <= 1
  /\ \A i \in 2..Len(log) :
       LET new == log[i].files
           old == log[i - 1].files
           bump == IF log[i].kind = "release" THEN stage[log[i].flow].bump ELSE "none"
           v == Bumped(VersionAt(old), bump)
       IN  /\ new["version"] = [rel |-> {v}, edits |-> {}]
           /\ new["docs"] = [old["docs"] EXCEPT
                !.rel = IF bump = "none" THEN @ ELSE @ \cup {<<log[i].flow, v>>}]

Held(s, p) == IF p \in DOMAIN s THEN s[p].other.edits ELSE {}

\* An edit the operator made to an owned file is in the tree, in the snapshot on
\* disk or in the memory of the process (reconcile.py:1976).
EditsSurvive ==
  \A p \in Owned : edited[p] \subseteq tree[p].edits \cup Held(saved, p) \cup Held(run.mem, p)

\* Edits survive unless an undo began over the snapshot of a run that had not come
\* to its end; and a step that failed without being cut short leaves nothing of a
\* release in the tree (reconcile.py:2275).
EditsKept ==
  /\ ~ghost.blind => EditsSurvive
  /\ run.pc = "idle" /\ ~ghost.residue => \A p \in Files : tree[p].rel = At(p).rel

\* A flow whose step is over is released, by another commit than the one its
\* reviewer rejected; and a tag names a release of that version in the history,
\* unless an undo was cut short (undo_last_reconcile, version_reconcile.py:170).
VerdictHonoured ==
  /\ \A f \in Flows :
       stage[f].at \in {"review", "done"} => Released(f) /\ ReleaseOf(f) # stage[f].rejected
  /\ ~ghost.torn =>
       \A t \in tags : t.commit # run.undone.id =>
         \E i \in 1..Len(log) : log[i].id = t.commit /\ log[i].tag = t.version
=============================================================================
