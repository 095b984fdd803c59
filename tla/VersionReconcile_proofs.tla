---------------------- MODULE VersionReconcile_proofs ----------------------
(***************************************************************************)
(* Proofs about VersionReconcile: any number of flows, of failures, kills  *)
(* and interrupts, of edits of the operator and of rejected releases.      *)
(*                                                                         *)
(* The properties relate the history to a tree that the step has torn      *)
(* apart, so the invariant says what is where at each place of the         *)
(* process: before a release is written the operator's files are HEAD's    *)
(* own and the target is HEAD's version with one bump (WriteInv); an edit  *)
(* that left the tree is in the snapshot on disk, and in memory the same   *)
(* (KeepInv); a snapshot taken of a whole tree gives back nothing but      *)
(* edits (ResidueInv); a run that may end in review either has no release  *)
(* or has one that nobody rejected (VerdictInv); a tag that names no       *)
(* commit is the one an undo is about to remove (TagInv).                  *)
(***************************************************************************)
EXTENDS VersionReconcile, FiniteSetTheorems, TLAPS

\* Where the process is: before it detaches edits, and while it writes a release.
Applied   == {"version", "changelog", "mark", "commit", "tag"}
Before    == {"undo", "recover", "replay", "collect"}
Places    == Before \cup Applied
               \cup {"idle", "detach", "flags", "reset", "restore", "untag", "reattach"}

\* The types, with the shapes of records and functions.
AnyRel  == Version \cup (Flows \X Version) \cup Flows
Content == [rel : SUBSET AnyRel, edits : SUBSET (1 .. MaxEdits)]
Snaps   == UNION {[D -> [head : Content, other : Content]] : D \in SUBSET Owned}
Commits == [id : Nat, kind : {"merge", "release"}, flow : Flows \cup {"none"},
            tag : Version, files : [Files -> Content]]
Runs    == [pc : Places, flow : Flows \cup {"none"}, undoing : BOOLEAN, mem : Snaps,
            todo : SUBSET Files, target : Version, undone : [id : Nat, tag : Version],
            error : BOOLEAN, unplayed : BOOLEAN]
Stages  == [at : {"working", "integrated", "review", "done"}, bump : Bumps, rejected : Nat]
Counts  == [troubles : 0 .. MaxTroubles, edits : 0 .. MaxEdits, rejects : 0 .. MaxRejects]

LogTyped   == log \in Seq(Commits) /\ log # << >> /\ log[1].kind = "merge"
TagsTyped  == tags \subseteq [version : Version, commit : Nat] /\ IsFiniteSet(tags)
TreeTyped  == tree \in [Files -> Content] /\ tree["intents"].edits = {}
RunTyped   == run \in Runs /\ saved \in Snaps
FlowsTyped == /\ stage \in [Flows -> Stages]
              /\ edited \in [Owned -> SUBSET (1 .. MaxEdits)]
              /\ spent \in Counts
              /\ ghost \in [blind : BOOLEAN, torn : BOOLEAN, residue : BOOLEAN]

\* Each file holds what releases put into it.
SnapsRel(s) ==
    \A p \in DOMAIN s : s[p].head.rel \subseteq Rel(p) /\ s[p].other.rel \subseteq Rel(p)
LogRel   == \A i \in 1 .. Len(log), p \in Files : log[i].files[p].rel \subseteq Rel(p)
TreeRel  == \A p \in Files : tree[p].rel \subseteq Rel(p)
RelTyped == LogRel /\ TreeRel /\ SnapsRel(saved) /\ SnapsRel(run.mem)

\* What the process is, by its place.
PlaceInv ==
    /\ run.pc = "idle" => run = Idle
    /\ run.pc # "idle" => run.flow \in Flows /\ stage[run.flow].at = "integrated"
    /\ run.pc \in Before => run.mem = Nothing /\ ~run.undoing /\ ~run.error
    /\ run.pc \in Before \ {"replay"} => ~run.unplayed
    /\ run.pc = "detach" => ~run.error /\ ~run.unplayed /\ run.todo \subseteq DOMAIN run.mem
    /\ run.pc \in {"flags"} \cup Applied => ~run.undoing /\ ~run.error /\ ~run.unplayed
    /\ run.pc \in {"reset", "untag"} => run.undoing /\ ~run.error /\ ~run.unplayed
    /\ run.pc = "restore" => ~run.unplayed /\ (run.error <=> ~run.undoing)
    /\ run.pc = "replay" => run.todo \subseteq DOMAIN saved
    /\ run.pc = "reattach" => run.todo \subseteq DOMAIN run.mem

\* The types that the other invariants are stated over.
ShapeInv == LogTyped /\ TagsTyped /\ TreeTyped /\ RunTyped /\ FlowsTyped /\ RelTyped /\ PlaceInv

\* A commit of the history with the one before it: what a bump makes of the version
\* and of the changelog.
BumpOf(c) == IF c.kind = "release" THEN stage[c.flow].bump ELSE "none"
Follows(bump, old, new) ==
    LET v == Bumped(VersionAt(old.files), bump)
    IN  /\ new.files["version"] = [rel |-> {v}, edits |-> {}]
        /\ new.files["docs"] = [old.files["docs"] EXCEPT
             !.rel = IF bump = "none" THEN @ ELSE @ \cup {<<new.flow, v>>}]

CommitsInv == \A i \in 1 .. Len(log) :
    /\ log[i].id # 0
    /\ log[i].kind = "release" => log[i].flow \in Flows
    /\ \A p \in Files : log[i].files[p].edits = {}
    /\ \E v \in Version : log[i].files["version"].rel = {v}
FollowInv  == \A i \in 2 .. Len(log) : Follows(BumpOf(log[i]), log[i - 1], log[i])
OnceInv    == \A i, j \in 1 .. Len(log) :
    /\ log[i].id = log[j].id => i = j
    /\ log[i].kind = "release" /\ log[j].kind = "release" /\ log[i].flow = log[j].flow => i = j
WorkInv    == \A f \in Flows : stage[f].at = "working" => ~Released(f)
LogInv     == CommitsInv /\ FollowInv /\ OnceInv /\ WorkInv

\* What a release has written so far.
Target == Bumped(VersionAt(Tip.files), Bump)
Written ==
    /\ tree["version"] = IF Publishes THEN [rel |-> {Target}, edits |-> {}] ELSE At("version")
    /\ tree["docs"] = IF Publishes
                      THEN [At("docs") EXCEPT !.rel = @ \cup {<<run.flow, Target>>}]
                      ELSE At("docs")
WriteInv ==
    /\ run.pc = "detach" => \A p \in Owned \ run.todo : tree[p] = At(p)
    /\ run.pc \in {"flags", "reset", "version"} => \A p \in Owned : tree[p] = At(p)
    /\ run.pc \in {"version", "changelog", "mark", "commit"} => run.target = Target
    /\ run.pc \in {"version", "changelog"} => Publishes
    /\ run.pc = "changelog" => /\ tree["version"] = [rel |-> {Target}, edits |-> {}]
                               /\ tree["docs"] = At("docs")
    /\ run.pc \in {"mark", "commit"} => Written
    /\ run.pc = "tag" => /\ Tip.kind = "release" /\ Tip.flow = run.flow
                         /\ Tip.tag = IF Tagging THEN run.target ELSE NoTag
                         /\ \A p \in Files : tree[p].rel = At(p).rel
    /\ run.pc \in {"flags"} \cup (Applied \ {"tag"}) \/ (run.pc = "detach" /\ ~run.undoing)
         => ~Released(run.flow)
    /\ run.pc = "reset" \/ (run.pc = "detach" /\ run.undoing) =>
         Ours /\ run.undone = [id |-> Tip.id, tag |-> Tip.tag]

\* The operator's edits.
Detached0 == {"flags", "reset", "restore", "untag"} \cup Applied
CleanInv ==
    /\ run.pc \in Detached0 => \A p \in Owned : tree[p].edits = {}
    /\ run.pc = "detach" => \A p \in Owned : tree[p].edits \subseteq Held(run.mem, p)
KeepInv == ~ghost.blind =>
    /\ \A p \in Owned : edited[p] \subseteq tree[p].edits \cup Held(saved, p)
    /\ run.pc \in Detached0 \cup {"detach", "reattach"} =>
         \A p \in Owned : Held(run.mem, p) = Held(saved, p)
    /\ run.pc \in {"replay", "reattach"} /\ ~run.unplayed =>
         \A p \in Owned \ run.todo : Held(saved, p) \subseteq tree[p].edits
    /\ run.pc = "collect" => \A p \in Owned : Held(saved, p) = {}
EditInv == CleanInv /\ KeepInv

\* What a release leaves in the tree.
EvenSnaps(s) == \A p \in DOMAIN s : s[p].head.rel = s[p].other.rel
ResidueInv == ~ghost.residue =>
    /\ EvenSnaps(saved) /\ EvenSnaps(run.mem)
    /\ run.pc \notin {"restore"} \cup (Applied \ {"version", "tag"}) =>
         \A p \in Files : tree[p].rel = At(p).rel
    /\ run.pc = "restore" => \A p \in Files \ run.todo : tree[p].rel = At(p).rel

\* The releases of a flow in a history, and the one that stands for it.
RelIn(l, f) == {i \in 1 .. Len(l) : l[i].kind = "release" /\ l[i].flow = f}
IdIn(l, f)  == IF RelIn(l, f) # {} THEN l[CHOOSE i \in RelIn(l, f) : TRUE].id ELSE 0

\* The reviewer: no release is the one that was rejected.
Other(l, s, f) == RelIn(l, f) # {} => IdIn(l, f) # s[f].rejected
VerdictInv ==
    /\ \A f \in Flows : stage[f].at \in {"review", "done"} =>
         RelIn(log, f) # {} /\ Other(log, stage, f)
    /\ run.pc \in {"recover", "replay", "collect"} => Other(log, stage, run.flow)
    /\ run.pc = "tag" \/ (run.pc = "reattach" /\ ~run.undoing /\ ~run.error) =>
         RelIn(log, run.flow) # {} /\ Other(log, stage, run.flow)
    /\ run.pc = "untag" \/ (run.pc \in {"restore", "reattach"} /\ run.undoing /\ ~run.error) =>
         RelIn(log, run.flow) = {}

\* A tag names a release of the history, or the one that is being undone.
TagInv == ~ghost.torn => \A t \in tags :
    \/ \E i \in 1 .. Len(log) : log[i].id = t.commit /\ log[i].tag = t.version
    \/ /\ run.undoing /\ run.pc \in {"restore", "untag"}
       /\ t.commit = run.undone.id /\ t.version = run.undone.tag

\* The inductive invariant.
ReleaseInv == /\ ShapeInv /\ LogInv /\ WriteInv /\ EditInv /\ ResidueInv /\ VerdictInv
              /\ TagInv

-----------------------------------------------------------------------------
(* The operators.                                                          *)

\* What releases can put into each file.
LEMMA RelIs ==
    /\ Rel("version") = Version /\ Rel("docs") = Flows \X Version /\ Rel("intents") = Flows
    /\ \A p \in Files : Rel(p) \subseteq AnyRel
    /\ Files = {"version", "docs", "intents"} /\ Owned = {"version", "docs"}
  BY DEF Rel, AnyRel, Files, Owned

\* A loop over files takes one of those that are left.
LEMMA NextOfIs ==
    ASSUME NEW todo \in SUBSET Files, todo # {}
    PROVE  NextOf(todo) \in todo
<1>1. \E p \in todo : \A q \in todo : q # p => q = "intents" \/ (q = "docs" /\ p = "version")
  <2>1. CASE "version" \in todo
    BY <2>1, RelIs
  <2>2. CASE "version" \notin todo /\ "docs" \in todo
    BY <2>2, RelIs
  <2>3. CASE "version" \notin todo /\ "docs" \notin todo
    BY <2>3, RelIs
  <2> QED
    BY <2>1, <2>2, <2>3
<1> QED
  BY <1>1 DEF NextOf

\* A bump gives a version.
LEMMA BumpedIs ==
    ASSUME NEW v \in Version, NEW bump \in Bumps
    PROVE  /\ Bumped(v, bump) \in Version
           /\ Bumped(v, "none") = v
  BY DEF Bumped, Version, Bumps

\* The version that a file names.
LEMMA VersionAtIs ==
    ASSUME NEW files, NEW v, files["version"].rel = {v}
    PROVE  VersionAt(files) = v
  BY DEF VersionAt

\* There is no tag to a release without one, and nothing in an empty snapshot.
LEMMA Constants ==
    /\ NoTag \in Version /\ Nothing \in Snaps /\ DOMAIN Nothing = {}
    /\ \A p : Held(Nothing, p) = {}
<1>1. DOMAIN Nothing = {} /\ Nothing \in [{} -> [head : Content, other : Content]]
  BY DEF Nothing
<1>2. {} \in SUBSET Owned
  OBVIOUS
<1>3. Nothing \in Snaps
  BY <1>1, <1>2 DEF Snaps
<1> QED
  BY <1>1, <1>3 DEF NoTag, Version, Held

\* A snapshot has the shape of one.
LEMMA SnapsIs ==
    ASSUME NEW s \in Snaps
    PROVE  /\ DOMAIN s \subseteq Owned
           /\ \A p \in DOMAIN s : s[p].head \in Content /\ s[p].other \in Content
<1>1. PICK D \in SUBSET Owned : s \in [D -> [head : Content, other : Content]]
  BY DEF Snaps
<1> QED
  BY <1>1

\* HEAD.
LEMMA TipIs ==
    ASSUME LogTyped
    PROVE  /\ Len(log) \in Nat \ {0} /\ Tip = log[Len(log)] /\ Tip \in Commits
           /\ \A p \in Files : At(p) = Tip.files[p] /\ At(p) \in Content
<1>1. Len(log) \in Nat \ {0} /\ Tip = log[Len(log)] /\ Tip \in Commits
  BY DEF LogTyped, Tip, Last
<1> QED
  BY <1>1 DEF At, Commits

\* What a capture takes down.
LEMMA CapturedIs ==
    ASSUME LogTyped, TreeTyped
    PROVE  /\ Captured \in Snaps
           /\ DOMAIN Captured = {q \in Owned : tree[q] # At(q)}
           /\ \A p \in DOMAIN Captured : Captured[p].head = At(p) /\ Captured[p].other = tree[p]
<1> DEFINE D == {q \in Owned : tree[q] # At(q)}
<1>1. \A p \in D : At(p) \in Content /\ tree[p] \in Content
  BY TipIs DEF TreeTyped, Files
<1>2. [p \in D |-> [head |-> At(p), other |-> tree[p]]]
        \in [D -> [head : Content, other : Content]]
  BY <1>1
<1>3. D \in SUBSET Owned
  OBVIOUS
<1>4. Captured = [p \in D |-> [head |-> At(p), other |-> tree[p]]]
  BY DEF Captured
<1> HIDE DEF D
<1>5. Captured \in Snaps
  BY <1>2, <1>3, <1>4 DEF Snaps
<1>6. DOMAIN Captured = D /\ \A p \in D : Captured[p] = [head |-> At(p), other |-> tree[p]]
  BY <1>4
<1>7. \A p \in DOMAIN Captured : Captured[p].head = At(p) /\ Captured[p].other = tree[p]
  BY <1>6
<1> QED
  BY <1>5, <1>6, <1>7 DEF D

\* What a three-way merge gives.
LEMMA MergedIs ==
    ASSUME NEW p \in Files, NEW current \in Content, NEW snap,
           snap.head \in Content, snap.other \in Content
    PROVE  /\ Merged(current, snap) \in Content
           /\ Merged(current, snap).edits = current.edits \cup snap.other.edits
           /\ snap.head.rel = snap.other.rel => Merged(current, snap).rel = current.rel
           /\ current.rel \subseteq Rel(p) /\ snap.other.rel \subseteq Rel(p)
                => Merged(current, snap).rel \subseteq Rel(p)
  BY DEF Merged, MergedRel, Content

\* A number that names nothing is left, since only finitely many do.
LEMMA FreshIs ==
    ASSUME LogTyped, TagsTyped, FlowsTyped
    PROVE  FreshId \in Nat \ {0} /\ FreshId \notin Named
<1>1. IsFiniteSet(Named)
  <2> DEFINE A == {log[i].id : i \in 1 .. Len(log)}
             B == {t.commit : t \in tags}
             C == {stage[f].rejected : f \in Flows}
  <2>1. IsFiniteSet(1 .. Len(log))
    BY TipIs, FS_Interval
  <2>2. [i \in 1 .. Len(log) |-> log[i].id] \in Surjection(1 .. Len(log), A)
    BY DEF Surjection
  <2>3. [t \in tags |-> t.commit] \in Surjection(tags, B)
    BY DEF Surjection
  <2>4. [f \in Flows |-> stage[f].rejected] \in Surjection(Flows, C)
    BY DEF Surjection
  <2>5. IsFiniteSet(A) /\ IsFiniteSet(B) /\ IsFiniteSet(C)
    BY <2>1, <2>2, <2>3, <2>4, FS_Surjection, ReconcileAssumption DEF TagsTyped
  <2> QED
    BY <2>5, FS_Union DEF Named
<1>2. Cardinality(Named) \in Nat
  BY <1>1, FS_CardinalityType
<1>3. \E n \in 1 .. (Cardinality(Named) + 1) : n \notin Named
  <2> SUFFICES ASSUME 1 .. (Cardinality(Named) + 1) \subseteq Named PROVE FALSE
    OBVIOUS
  <2>1. Cardinality(1 .. (Cardinality(Named) + 1)) <= Cardinality(Named)
    BY <1>1, FS_Subset
  <2>2. Cardinality(1 .. (Cardinality(Named) + 1)) = Cardinality(Named) + 1
    BY <1>2, FS_Interval
  <2> QED
    BY <1>2, <2>1, <2>2
<1> QED
  BY <1>2, <1>3 DEF FreshId

\* A commit is added on top.
LEMMA AppendIs ==
    ASSUME LogTyped, NEW c \in Commits, log' = Append(log, c)
    PROVE  /\ LogTyped' /\ Len(log') = Len(log) + 1 /\ Tip' = c
           /\ \A i \in 1 .. Len(log) : log'[i] = log[i]
           /\ log'[Len(log')] = c
           /\ \A i \in 1 .. Len(log') : i \in 1 .. Len(log) \/ i = Len(log')
<1>1. Len(log) \in Nat \ {0}
  BY TipIs
<1>2. log' \in Seq(Commits) /\ Len(log') = Len(log) + 1 /\ log'[Len(log')] = c
      /\ \A i \in 1 .. Len(log) : log'[i] = log[i]
  BY DEF LogTyped
<1> QED
  BY <1>1, <1>2 DEF LogTyped, Tip, Last

\* The commit on top is taken back.
LEMMA FrontIs ==
    ASSUME LogTyped, Tip.kind = "release", log' = Front(log)
    PROVE  /\ LogTyped' /\ Len(log) >= 2 /\ Len(log') = Len(log) - 1
           /\ \A i \in 1 .. Len(log') : log'[i] = log[i] /\ i \in 1 .. Len(log)
           /\ \A i \in 1 .. Len(log) : i \in 1 .. Len(log') \/ i = Len(log)
<1>1. Len(log) \in Nat /\ Len(log) >= 2
  BY TipIs DEF LogTyped
<1>2. log' = SubSeq(log, 1, Len(log) - 1)
  BY DEF Front
<1>3. log' \in Seq(Commits) /\ Len(log') = Len(log) - 1
      /\ \A i \in 1 .. Len(log') : log'[i] = log[i]
  BY <1>1, <1>2 DEF LogTyped
<1> QED
  BY <1>1, <1>3 DEF LogTyped

\* The process between two runs.
LEMMA IdleIs ==
    /\ Idle \in Runs /\ Idle.pc = "idle" /\ Idle.mem = Nothing /\ Idle.flow = "none"
    /\ ~Idle.undoing /\ ~Idle.error /\ ~Idle.unplayed /\ Idle.undone.id = 0
  BY Constants DEF Idle, Runs, Places

\* The process that enters the step.
LEMMA EnteredIs ==
    ASSUME NEW f \in Flows, NEW pc \in Before
    PROVE  /\ Entered(f, pc) \in Runs /\ Entered(f, pc).pc = pc /\ Entered(f, pc).flow = f
           /\ Entered(f, pc).mem = Nothing /\ ~Entered(f, pc).undoing
           /\ ~Entered(f, pc).error /\ ~Entered(f, pc).unplayed
<1>1. Entered(f, pc) = [Idle EXCEPT !.pc = pc, !.flow = f]
  BY DEF Entered
<1>2. pc \in Places /\ pc # "idle"
  BY DEF Places, Before
<1>3. Entered(f, pc) \in Runs
  BY <1>1, <1>2, IdleIs DEF Runs
<1> QED
  BY <1>1, <1>3, IdleIs DEF Runs

\* The process that goes on to give the edits back.
LEMMA ReattachedIs ==
    ASSUME RunTyped
    PROVE  /\ Reattached \in Runs /\ Reattached.pc = "reattach"
           /\ Reattached.todo = DOMAIN run.mem
           /\ Reattached.mem = run.mem /\ Reattached.flow = run.flow
           /\ Reattached.undoing = run.undoing /\ Reattached.undone = run.undone
           /\ Reattached.error = run.error /\ Reattached.unplayed = run.unplayed
<1>1. run \in Runs /\ DOMAIN run.mem \subseteq Files
  BY SnapsIs DEF RunTyped, Runs, Files
<1> QED
  BY <1>1 DEF Reattached, Runs, Places

\* The process that gives the edits back after a failure.
LEMMA ErringIs ==
    ASSUME RunTyped
    PROVE  /\ Erring \in Runs /\ Erring.pc = "reattach" /\ Erring.todo = DOMAIN run.mem
           /\ Erring.mem = run.mem /\ Erring.flow = run.flow
           /\ Erring.undoing = run.undoing /\ Erring.error = TRUE
           /\ Erring.unplayed = run.unplayed
  BY ReattachedIs DEF Erring, Runs

\* The process that undoes what it wrote.
LEMMA RollBackIs ==
    ASSUME RunTyped
    PROVE  /\ RollBack \in Runs /\ RollBack.pc = "restore" /\ RollBack.todo = Files
           /\ RollBack.mem = run.mem /\ RollBack.flow = run.flow
           /\ RollBack.undoing = run.undoing /\ RollBack.error = TRUE
           /\ RollBack.unplayed = run.unplayed
  BY DEF RollBack, RunTyped, Runs, Places

\* The release that is committed.
LEMMA ReleaseIs ==
    ASSUME ShapeInv, CommitReconcile
    PROVE  \E c \in Commits :
             /\ log' = Append(log, c) /\ c.kind = "release" /\ c.flow = run.flow
             /\ c.id # 0 /\ c.id \notin Named /\ c.files = tree
             /\ c.tag = IF Tagging THEN run.target ELSE NoTag
<1> DEFINE tag == IF Tagging THEN run.target ELSE NoTag
           c == [id |-> FreshId, kind |-> "release", flow |-> run.flow, tag |-> tag,
                 files |-> tree]
<1>1. log' = Append(log, c)
  BY DEF CommitReconcile
<1>2. tag \in Version /\ run.flow \in Flows \cup {"none"} /\ tree \in [Files -> Content]
  BY Constants DEF ShapeInv, RunTyped, Runs, TreeTyped
<1>3. FreshId \in Nat \ {0} /\ FreshId \notin Named
  BY FreshIs DEF ShapeInv
<1> HIDE DEF tag
<1>4. c \in Commits /\ c.kind = "release" /\ c.flow = run.flow /\ c.id = FreshId
      /\ c.files = tree /\ c.tag = tag
  BY <1>2, <1>3 DEF Commits
<1> QED
  BY <1>1, <1>3, <1>4 DEF tag

\* The branch that is merged.
LEMMA MergeIs ==
    ASSUME ShapeInv, NEW f \in Flows, NEW bump \in Bumps, Integrate(f, bump)
    PROVE  \E c \in Commits :
             /\ log' = Append(log, c) /\ c.kind = "merge" /\ c.flow = f
             /\ c.id # 0 /\ c.id \notin Named /\ c.files = Tip.files
<1> DEFINE c == [id |-> FreshId, kind |-> "merge", flow |-> f, tag |-> NoTag,
                 files |-> Tip.files]
<1>1. log' = Append(log, c)
  BY DEF Integrate
<1>2. Tip.files \in [Files -> Content]
  BY TipIs DEF ShapeInv, Commits
<1>3. FreshId \in Nat \ {0} /\ FreshId \notin Named
  BY FreshIs DEF ShapeInv
<1>4. c \in Commits /\ c.kind = "merge" /\ c.flow = f /\ c.id = FreshId
      /\ c.files = Tip.files
  BY <1>2, <1>3, Constants DEF Commits
<1> QED
  BY <1>1, <1>3, <1>4

-----------------------------------------------------------------------------
(* Types.                                                                  *)

\* The release of a flow, when there is one.
LEMMA ReleaseOfIs ==
    ASSUME LogTyped, NEW f
    PROVE  /\ ReleaseOf(f) \in Nat
           /\ Released(f) => \E i \in Releases(f) : ReleaseOf(f) = log[i].id
           /\ ~Released(f) => ReleaseOf(f) = 0
           /\ Released(f) <=>
                \E i \in 1 .. Len(log) : log[i].kind = "release" /\ log[i].flow = f
<1>1. CASE Releases(f) = {}
  BY <1>1 DEF ReleaseOf, Released, Releases
<1>2. CASE Releases(f) # {}
  <2> DEFINE c == CHOOSE i \in Releases(f) : TRUE
  <2>1. c \in Releases(f)
    BY <1>2
  <2>2. ReleaseOf(f) = log[c].id
    BY <1>2 DEF ReleaseOf, Released
  <2> HIDE DEF c
  <2>3. c \in 1 .. Len(log) /\ log \in Seq(Commits)
    BY <2>1 DEF Releases, LogTyped
  <2>4. log[c] \in Commits
    BY <2>3
  <2>5. log[c].id \in Nat
    BY <2>4 DEF Commits
  <2> QED
    BY <1>2, <2>1, <2>2, <2>5 DEF Released, Releases
<1> QED
  BY <1>1, <1>2

\* What the model says of the releases of a flow.
LEMMA InIs ==
    ASSUME NEW f
    PROVE  /\ Releases(f) = RelIn(log, f) /\ Releases(f)' = RelIn(log', f)
           /\ (Released(f) <=> RelIn(log, f) # {}) /\ (Released(f)' <=> RelIn(log', f) # {})
           /\ ReleaseOf(f) = IdIn(log, f) /\ ReleaseOf(f)' = IdIn(log', f)
<1>1. Releases(f) = RelIn(log, f) /\ Releases(f)' = RelIn(log', f)
  BY DEF Releases, RelIn
<1>2. (Released(f) <=> RelIn(log, f) # {}) /\ (Released(f)' <=> RelIn(log', f) # {})
  BY <1>1 DEF Released
<1>3. ReleaseOf(f) = IdIn(log, f)
  BY DEF ReleaseOf, Released, Releases, IdIn, RelIn
<1>4. ReleaseOf(f)' = IdIn(log', f)
  BY DEF ReleaseOf, Released, Releases, IdIn, RelIn
<1> QED
  BY <1>1, <1>2, <1>3, <1>4

\* The only release of a flow stands for it.
LEMMA IdInIs ==
    ASSUME NEW l, NEW f, NEW i \in RelIn(l, f), \A j \in RelIn(l, f) : j = i
    PROVE  IdIn(l, f) = l[i].id
  BY DEF IdIn

\* A flow whose releases stay where they are keeps the one that stands for it.
LEMMA SameReleases ==
    ASSUME OnceInv, NEW f, RelIn(log', f) = RelIn(log, f),
           \A i \in RelIn(log, f) : log'[i] = log[i]
    PROVE  (Released(f)' <=> Released(f)) /\ ReleaseOf(f)' = ReleaseOf(f)
<1>1. CASE RelIn(log, f) = {}
  BY <1>1, InIs DEF IdIn
<1>2. CASE RelIn(log, f) # {}
  <2>1. PICK i \in RelIn(log, f) : TRUE
    BY <1>2
  <2>2. \A j \in RelIn(log, f) : j = i
    BY <2>1 DEF OnceInv, RelIn
  <2>3. IdIn(log, f) = log[i].id
    BY <2>1, <2>2, IdInIs
  <2>4. IdIn(log', f) = log'[i].id
    BY <2>1, <2>2, IdInIs
  <2> QED
    BY <2>1, <2>3, <2>4, InIs
<1> QED
  BY <1>1, <1>2

\* Nothing about the history changes but with it.
LEMMA LogStays ==
    ASSUME UNCHANGED log
    PROVE  /\ Tip' = Tip /\ \A p : At(p)' = At(p)
           /\ \A f : (Released(f)' <=> Released(f)) /\ ReleaseOf(f)' = ReleaseOf(f)
<1>1. Tip' = Tip /\ \A p : At(p)' = At(p)
  BY DEF Tip, Last, At
<1>2. \A f : (Released(f)' <=> Released(f)) /\ ReleaseOf(f)' = ReleaseOf(f)
  BY InIs
<1> QED
  BY <1>1, <1>2

\* The steps that move the history.
LEMMA LogMoves ==
    ASSUME Next
    PROVE  \/ UNCHANGED log
           \/ \E f \in Flows, bump \in Bumps : Integrate(f, bump)
           \/ Reset
           \/ CommitReconcile
<1>1. ASSUME \/ \E f \in Flows : Begin(f)
             \/ \E f \in Flows : Approve(f)
             \/ \E f \in Flows : Reject(f)
             \/ \E p \in Owned : Edit(p)
             \/ UndoRefused
             \/ UndoBegins
             \/ Restore
             \/ Restored
             \/ Untag
             \/ Recover
     PROVE  UNCHANGED log
  BY ONLY <1>1 DEF Begin, Approve, Reject, Edit, UndoRefused, UndoBegins, Capture,
    Restore, Restored, Untag, Recover
<1>2. ASSUME \/ Recovered
             \/ NothingToDo
             \/ Collect
             \/ Derive
             \/ WriteVersion
             \/ MergeChangelog
             \/ MarkConsumed
             \/ CreateTag
             \/ TagRefused
             \/ Detach
     PROVE  UNCHANGED log
  BY ONLY <1>2 DEF Recovered, NothingToDo, Collect, Capture, Derive, WriteVersion,
    MergeChangelog, MarkConsumed, CreateTag, TagRefused, Detach
<1>3. ASSUME \/ Detached
             \/ Reattach
             \/ Clear
             \/ Failure
             \/ ReattachFailure
             \/ Interrupt
             \/ Kill
     PROVE  UNCHANGED log
  BY ONLY <1>3 DEF Detached, Reattach, Clear, Failure, Troubled, Noted,
    ReattachFailure, Interrupt, Kill
<1> QED
  BY <1>1, <1>2, <1>3
     DEF Next, Undo, Reconcile, Apply, Trouble

\* The steps that write to the working tree.
LEMMA TreeMoves ==
    ASSUME Next
    PROVE  \/ UNCHANGED tree
           \/ \E p \in Owned : Edit(p)
           \/ Restore
           \/ Derive
           \/ WriteVersion
           \/ MergeChangelog
           \/ MarkConsumed
           \/ Detach
           \/ Reattach
<1>1. ASSUME \/ \E f \in Flows, bump \in Bumps : Integrate(f, bump)
             \/ \E f \in Flows : Begin(f)
             \/ \E f \in Flows : Approve(f)
             \/ \E f \in Flows : Reject(f)
             \/ UndoRefused
             \/ UndoBegins
             \/ Reset
             \/ Restored
             \/ Untag
             \/ Recover
     PROVE  UNCHANGED tree
  BY ONLY <1>1 DEF Integrate, Begin, Approve, Reject, UndoRefused, UndoBegins,
    Capture, Reset, Restored, Untag, Recover
<1>2. ASSUME \/ Recovered
             \/ NothingToDo
             \/ Collect
             \/ CommitReconcile
             \/ CreateTag
             \/ TagRefused
             \/ Detached
             \/ Clear
             \/ Failure
             \/ ReattachFailure
     PROVE  UNCHANGED tree
  BY ONLY <1>2 DEF Recovered, NothingToDo, Collect, Capture, CommitReconcile,
    CreateTag, TagRefused, Detached, Clear, Failure, Troubled, Noted,
    ReattachFailure
<1>3. ASSUME \/ Interrupt
             \/ Kill
     PROVE  UNCHANGED tree
  BY ONLY <1>3 DEF Interrupt, Troubled, Noted, Kill
<1> QED
  BY <1>1, <1>2, <1>3
     DEF Next, Undo, Reconcile, Apply, Trouble

\* The steps that move the history or a flow.
LEMMA HistoryMoves ==
    ASSUME Next
    PROVE  \/ UNCHANGED <<log, stage>>
           \/ \E f \in Flows, bump \in Bumps : Integrate(f, bump)
           \/ \E f \in Flows : Approve(f)
           \/ \E f \in Flows : Reject(f)
           \/ Reset
           \/ NothingToDo
           \/ CommitReconcile
           \/ Clear
<1>1. ASSUME \/ \E f \in Flows : Begin(f)
             \/ \E p \in Owned : Edit(p)
             \/ UndoRefused
             \/ UndoBegins
             \/ Restore
             \/ Restored
             \/ Untag
             \/ Recover
             \/ Recovered
             \/ Collect
     PROVE  UNCHANGED <<log, stage>>
  BY ONLY <1>1 DEF Begin, Edit, UndoRefused, UndoBegins, Capture, Restore, Restored,
    Untag, Recover, Recovered, Collect
<1>2. ASSUME \/ Derive
             \/ WriteVersion
             \/ MergeChangelog
             \/ MarkConsumed
             \/ CreateTag
             \/ TagRefused
             \/ Detach
             \/ Detached
             \/ Reattach
             \/ Failure
     PROVE  UNCHANGED <<log, stage>>
  BY ONLY <1>2 DEF Derive, WriteVersion, MergeChangelog, MarkConsumed, CreateTag,
    TagRefused, Detach, Detached, Reattach, Failure, Troubled, Noted
<1>3. ASSUME \/ ReattachFailure
             \/ Interrupt
             \/ Kill
     PROVE  UNCHANGED <<log, stage>>
  BY ONLY <1>3 DEF ReattachFailure, Troubled, Interrupt, Noted, Kill
<1> QED
  BY <1>1, <1>2, <1>3
     DEF Next, Undo, Reconcile, Apply, Trouble

\* The history keeps its shape: only a release is taken back, and the first commit is none.
LEMMA NextLogTyped ==
    ASSUME ReleaseInv, Next
    PROVE  LogTyped'
<1>0. /\ LogTyped /\ TagsTyped /\ TreeTyped /\ RunTyped /\ FlowsTyped /\ RelTyped /\ PlaceInv
      /\ ShapeInv /\ LogInv /\ WriteInv
  BY DEF ReleaseInv, ShapeInv
<1>1. CASE UNCHANGED log
  BY <1>1, <1>0 DEF LogTyped
<1>2. ASSUME NEW f \in Flows, NEW bump \in Bumps, Integrate(f, bump)
     PROVE  LogTyped'
  <2> QED
    BY <1>2, <1>0, MergeIs, AppendIs
<1>3. ASSUME Reset
     PROVE  LogTyped'
  <2>1. log' = Front(log) /\ Tip.kind = "release"
    BY <1>3, <1>0 DEF Reset, WriteInv, Ours
  <2> QED
    BY <2>1, <1>0, FrontIs
<1>4. ASSUME CommitReconcile
     PROVE  LogTyped'
  <2> QED
    BY <1>4, <1>0, ReleaseIs, AppendIs
<1> QED
  BY LogMoves, <1>1, <1>2, <1>3, <1>4

\* Tags name commits, and there are finitely many.
LEMMA NextTagsTyped ==
    ASSUME ReleaseInv, Next
    PROVE  TagsTyped'
<1>0. /\ LogTyped /\ TagsTyped /\ TreeTyped /\ RunTyped /\ FlowsTyped /\ RelTyped /\ PlaceInv
      /\ ShapeInv /\ LogInv /\ WriteInv
  BY DEF ReleaseInv, ShapeInv
<1>1. ASSUME \/ \E f \in Flows, bump \in Bumps : Integrate(f, bump)
             \/ \E f \in Flows : Begin(f)
             \/ \E f \in Flows : Approve(f)
             \/ \E f \in Flows : Reject(f)
             \/ \E p \in Owned : Edit(p)
             \/ UndoRefused
             \/ UndoBegins
             \/ Reset
     PROVE  UNCHANGED tags
  BY ONLY <1>1 DEF Integrate, Begin, Approve, Reject, Edit, UndoRefused, UndoBegins,
    Capture, Reset
<1>2. ASSUME \/ Restore
             \/ Restored
             \/ Recover
             \/ Recovered
             \/ NothingToDo
             \/ Collect
             \/ Derive
             \/ WriteVersion
     PROVE  UNCHANGED tags
  BY ONLY <1>2 DEF Restore, Restored, Recover, Recovered, NothingToDo, Collect,
    Capture, Derive, WriteVersion
<1>3. ASSUME \/ MergeChangelog
             \/ MarkConsumed
             \/ CommitReconcile
             \/ TagRefused
             \/ Detach
             \/ Detached
             \/ Reattach
             \/ Clear
     PROVE  UNCHANGED tags
  BY ONLY <1>3 DEF MergeChangelog, MarkConsumed, CommitReconcile, TagRefused,
    Detach, Detached, Reattach, Clear
<1>4. ASSUME \/ Failure
             \/ ReattachFailure
             \/ Interrupt
             \/ Kill
     PROVE  UNCHANGED tags
  BY ONLY <1>4 DEF Failure, Troubled, Noted, ReattachFailure, Interrupt, Kill
<1>5. CASE UNCHANGED tags
  BY <1>5, <1>0 DEF TagsTyped
<1>6. ASSUME Untag
     PROVE  TagsTyped'
  <2> QED
    BY <1>6, <1>0, FS_Subset DEF Untag, TagsTyped
<1>7. ASSUME CreateTag
     PROVE  TagsTyped'
  <2>1. run.target \in Version /\ Tip.id \in Nat
    BY <1>0, TipIs DEF RunTyped, Runs, Commits
  <2>2. CASE tags' = tags
    BY <2>2, <1>0 DEF TagsTyped
  <2>3. CASE tags' = tags \cup {[version |-> run.target, commit |-> Tip.id]}
    <3>1. IsFiniteSet(tags')
      BY <2>3, <1>0, FS_AddElement DEF TagsTyped
    <3>2. tags' \subseteq [version : Version, commit : Nat]
      BY <2>1, <2>3, <1>0 DEF TagsTyped
    <3> QED
      BY <3>1, <3>2 DEF TagsTyped
  <2> QED
    BY <2>2, <2>3, <1>7 DEF CreateTag
<1> QED
  BY <1>1, <1>2, <1>3, <1>4, <1>5, <1>6, <1>7
     DEF Next, Undo, Reconcile, Apply, Trouble

\* The tree has its three files, and the intents carry no edit.
LEMMA NextTreeTyped ==
    ASSUME ReleaseInv, Next
    PROVE  TreeTyped'
<1>0. /\ LogTyped /\ TagsTyped /\ TreeTyped /\ RunTyped /\ FlowsTyped /\ RelTyped /\ PlaceInv
      /\ ShapeInv /\ LogInv /\ WriteInv
  BY DEF ReleaseInv, ShapeInv
<1>1. CASE UNCHANGED tree
  BY <1>1, <1>0 DEF TreeTyped
<1>2. ASSUME NEW p \in Owned, Edit(p)
     PROVE  TreeTyped'
  <2> DEFINE e == spent'.edits
  <2>1. spent.edits \in Nat /\ spent.edits < MaxEdits /\ e = spent.edits + 1
    BY <1>2, <1>0 DEF Edit, FlowsTyped, Counts
  <2>2. e \in 1 .. MaxEdits
    BY <2>1, ReconcileAssumption
  <2>3. tree' = [tree EXCEPT ![p].edits = @ \cup {e}]
    BY <1>2 DEF Edit
  <2> HIDE DEF e
  <2>4. p \in Files /\ p # "intents"
    BY RelIs
  <2> QED
    BY <2>2, <2>3, <2>4, <1>0, RelIs DEF TreeTyped, Content
<1>3. ASSUME Restore
     PROVE  TreeTyped'
  <2>1. NextOf(run.todo) \in Files
    BY <1>3, <1>0, NextOfIs DEF Restore, RunTyped, Runs
  <2>2. At(NextOf(run.todo)) \in Content /\ At("intents").edits = {}
    BY <2>1, <1>0, TipIs, RelIs DEF LogInv, CommitsInv
  <2>3. tree' = [tree EXCEPT ![NextOf(run.todo)] = At(NextOf(run.todo))]
    BY <1>3 DEF Restore
  <2> QED
    BY <2>1, <2>2, <2>3, <1>0, RelIs DEF TreeTyped
<1>4. ASSUME Derive
     PROVE  TreeTyped'
  <2>1. tree' = tree \/ tree' = [tree EXCEPT !["intents"] = At("intents")]
    BY <1>4 DEF Derive
  <2>2. At("intents") \in Content /\ At("intents").edits = {}
    BY <1>0, TipIs, RelIs DEF LogInv, CommitsInv
  <2> QED
    BY <2>1, <2>2, <1>0, RelIs DEF TreeTyped
<1>5. ASSUME WriteVersion
     PROVE  TreeTyped'
  <2> DEFINE rel == {run.target}
  <2>1. tree' = [tree EXCEPT !["version"].rel = rel]
    BY <1>5 DEF WriteVersion
  <2>2. rel \subseteq Rel("version")
    BY <1>5, <1>0, RelIs DEF WriteVersion, RunTyped, Runs, PlaceInv, RelTyped, TreeRel,
       Applied
  <2> HIDE DEF rel
  <2>3. rel \subseteq AnyRel /\ "version" \in Files
    BY <2>2, RelIs
  <2> QED
    BY <2>1, <2>3, <1>0, RelIs DEF TreeTyped, Content
<1>6. ASSUME MergeChangelog
     PROVE  TreeTyped'
  <2> DEFINE rel == tree["docs"].rel \cup {<<run.flow, run.target>>}
  <2>1. tree' = [tree EXCEPT !["docs"].rel = rel]
    BY <1>6 DEF MergeChangelog
  <2>2. rel \subseteq Rel("docs")
    BY <1>6, <1>0, RelIs DEF MergeChangelog, RunTyped, Runs, PlaceInv, RelTyped, TreeRel,
       Applied
  <2> HIDE DEF rel
  <2>3. rel \subseteq AnyRel /\ "docs" \in Files
    BY <2>2, RelIs
  <2> QED
    BY <2>1, <2>3, <1>0, RelIs DEF TreeTyped, Content
<1>7. ASSUME MarkConsumed
     PROVE  TreeTyped'
  <2> DEFINE rel == tree["intents"].rel \cup {run.flow}
  <2>1. tree' = [tree EXCEPT !["intents"].rel = rel]
    BY <1>7 DEF MarkConsumed
  <2>2. rel \subseteq Rel("intents")
    BY <1>7, <1>0, RelIs DEF MarkConsumed, RunTyped, Runs, PlaceInv, RelTyped, TreeRel,
       Applied
  <2> HIDE DEF rel
  <2>3. rel \subseteq AnyRel /\ "intents" \in Files
    BY <2>2, RelIs
  <2> QED
    BY <2>1, <2>3, <1>0, RelIs DEF TreeTyped, Content
<1>8. ASSUME Detach
     PROVE  TreeTyped'
  <2>1. NextOf(run.todo) \in Files
    BY <1>8, <1>0, NextOfIs DEF Detach, RunTyped, Runs
  <2>2. At(NextOf(run.todo)) \in Content /\ At("intents").edits = {}
    BY <2>1, <1>0, TipIs, RelIs DEF LogInv, CommitsInv
  <2>3. tree' = [tree EXCEPT ![NextOf(run.todo)] = At(NextOf(run.todo))]
    BY <1>8 DEF Detach
  <2> QED
    BY <2>1, <2>2, <2>3, <1>0, RelIs DEF TreeTyped
<1>9. ASSUME Reattach
     PROVE  TreeTyped'
  <2>1. /\ NextOf(run.todo) \in DOMAIN Snapshots /\ Snapshots \in Snaps
    BY <1>9, <1>0, NextOfIs DEF Reattach, Reattaching, Snapshots, RunTyped, Runs, PlaceInv
  <2>2. /\ NextOf(run.todo) \in Owned /\ Snapshots[NextOf(run.todo)].head \in Content
        /\ Snapshots[NextOf(run.todo)].other \in Content
    BY <2>1, SnapsIs
  <2>3. tree' = [tree EXCEPT ![NextOf(run.todo)] = Merged(@, Snapshots[NextOf(run.todo)])]
    BY <1>9 DEF Reattach
  <2>4. NextOf(run.todo) \in Files /\ NextOf(run.todo) # "intents"
    BY <2>2, RelIs
  <2>5. Merged(tree[NextOf(run.todo)], Snapshots[NextOf(run.todo)]) \in Content
    BY <2>2, <2>4, <1>0, MergedIs DEF TreeTyped
  <2> QED
    BY <2>3, <2>4, <2>5, <1>0, RelIs DEF TreeTyped
<1> QED
  BY TreeMoves, <1>1, <1>2, <1>3, <1>4, <1>5, <1>6, <1>7, <1>8, <1>9

\* The process and its snapshots keep their shape.
LEMMA NextRunTyped ==
    ASSUME ReleaseInv, Next
    PROVE  RunTyped'
<1>0. /\ LogTyped /\ TagsTyped /\ TreeTyped /\ RunTyped /\ FlowsTyped /\ RelTyped /\ PlaceInv
      /\ ShapeInv /\ LogInv /\ WriteInv
  BY DEF ReleaseInv, ShapeInv
<1>1. ASSUME \/ \E f \in Flows, bump \in Bumps : Integrate(f, bump)
             \/ \E f \in Flows : Approve(f)
             \/ \E f \in Flows : Reject(f)
             \/ \E p \in Owned : Edit(p)
     PROVE  UNCHANGED <<run, saved>>
  BY ONLY <1>1 DEF Integrate, Approve, Reject, Edit
<1>2. CASE UNCHANGED <<run, saved>>
  BY <1>2, <1>0 DEF RunTyped
<1>3. ASSUME NEW f \in Flows, Begin(f)
     PROVE  RunTyped'
  <2>1. run' = Entered(f, "undo") \/ run' = Entered(f, "recover")
    BY <1>3 DEF Begin
  <2> QED
    BY <1>3, <2>1, <1>0, EnteredIs DEF Begin, Before, RunTyped
<1>4. ASSUME UndoRefused
     PROVE  RunTyped'
  <2>1. run' = Idle \/ run' = Entered(run.flow, "recover")
    BY <1>4 DEF UndoRefused
  <2>2. run.flow \in Flows
    BY <1>4, <1>0 DEF UndoRefused, PlaceInv
  <2> QED
    BY <1>4, <2>1, <2>2, <1>0, EnteredIs, IdleIs DEF UndoRefused, Before, RunTyped
<1>5. ASSUME UndoBegins
     PROVE  RunTyped'
  <2>1. Captured \in Snaps /\ DOMAIN Captured \subseteq Files
    BY <1>0, CapturedIs, SnapsIs DEF Files
  <2>2. saved' \in Snaps
    BY <1>5, <2>1, <1>0 DEF UndoBegins, Capture, RunTyped
  <2>3. run' = [run EXCEPT !.undoing = TRUE, !.undone = [id |-> Tip.id, tag |-> Tip.tag],
                       !.pc = "detach", !.mem = Captured, !.todo = DOMAIN Captured]
    BY <1>5 DEF UndoBegins, Capture
  <2>4. [id |-> Tip.id, tag |-> Tip.tag] \in [id : Nat, tag : Version]
    BY <1>0, TipIs DEF Commits
  <2> QED
    BY <2>1, <2>2, <2>3, <2>4, <1>0 DEF RunTyped, Runs, Places
<1>6. ASSUME Reset
     PROVE  RunTyped'
  BY <1>6, <1>0 DEF Reset, RunTyped, Runs, Places
<1>7. ASSUME Restore
     PROVE  RunTyped'
  BY <1>7, <1>0, NextOfIs DEF Restore, RunTyped, Runs
<1>8. ASSUME Restored
     PROVE  RunTyped'
  BY <1>8, <1>0, ReattachedIs DEF Restored, RunTyped, Runs, Places
<1>9. ASSUME Untag
     PROVE  RunTyped'
  BY <1>9, <1>0, ReattachedIs DEF Untag, RunTyped, Runs, Places
<1>10. ASSUME Recover
     PROVE  RunTyped'
  <2>1. DOMAIN saved \subseteq Files
    BY <1>0, SnapsIs DEF RunTyped, Files
  <2> QED
    BY <1>10, <2>1, <1>0 DEF Recover, RunTyped, Runs, Places, Before
<1>11. ASSUME Recovered
     PROVE  RunTyped'
  <2>1. saved' \in Snaps
    BY <1>11, <1>0, Constants DEF Recovered, Cleared, RunTyped
  <2>2. run' = Idle \/ run' = [run EXCEPT !.pc = "collect"]
    BY <1>11 DEF Recovered
  <2> QED
    BY <2>1, <2>2, <1>0, IdleIs DEF RunTyped, Runs, Places, Before
<1>12. ASSUME NothingToDo
     PROVE  RunTyped'
  BY <1>12, <1>0, IdleIs DEF NothingToDo, RunTyped
<1>13. ASSUME Collect
     PROVE  RunTyped'
  <2>1. Captured \in Snaps /\ DOMAIN Captured \subseteq Files
    BY <1>0, CapturedIs, SnapsIs DEF Files
  <2>2. saved' \in Snaps
    BY <1>13, <2>1, <1>0 DEF Collect, Capture, RunTyped
  <2>3. run' = [run EXCEPT !.pc = "detach", !.mem = Captured, !.todo = DOMAIN Captured]
    BY <1>13 DEF Collect, Capture
  <2> QED
    BY <2>1, <2>2, <2>3, <1>0 DEF RunTyped, Runs, Places
<1>14. ASSUME Derive
     PROVE  RunTyped'
  <2>1. VersionAt(tree) \in Version /\ Bump \in Bumps
    <3>1. tree["version"] = At("version")
      BY <1>14, <1>0, RelIs DEF Derive, WriteInv
    <3>2. \E v \in Version : At("version").rel = {v}
      BY <1>0, TipIs, RelIs DEF LogInv, CommitsInv
    <3>3. PICK v \in Version : tree["version"].rel = {v}
      BY <3>1, <3>2
    <3>4. VersionAt(tree) \in Version
      BY <3>3, VersionAtIs
    <3>5. Bump \in Bumps
      BY <1>14, <1>0 DEF Derive, PlaceInv, Bump, FlowsTyped, Stages
    <3> QED
      BY <3>4, <3>5
  <2>2. Bumped(VersionAt(tree), Bump) \in Version
    BY <2>1, BumpedIs
  <2>3. PICK pc \in {"version", "mark"} :
          run' = [run EXCEPT !.pc = pc, !.target = Bumped(VersionAt(tree), Bump)]
    BY <1>14 DEF Derive
  <2> QED
    BY <1>14, <2>2, <2>3, <1>0 DEF Derive, RunTyped, Runs, Places, Applied
<1>15. ASSUME WriteVersion
     PROVE  RunTyped'
  BY <1>15, <1>0 DEF WriteVersion, RunTyped, Runs, Places, Applied
<1>16. ASSUME MergeChangelog
     PROVE  RunTyped'
  BY <1>16, <1>0 DEF MergeChangelog, RunTyped, Runs, Places, Applied
<1>17. ASSUME MarkConsumed
     PROVE  RunTyped'
  BY <1>17, <1>0 DEF MarkConsumed, RunTyped, Runs, Places, Applied
<1>18. ASSUME CommitReconcile
     PROVE  RunTyped'
  BY <1>18, <1>0 DEF CommitReconcile, RunTyped, Runs, Places, Applied
<1>19. ASSUME CreateTag
     PROVE  RunTyped'
  BY <1>19, <1>0, ReattachedIs DEF CreateTag, RunTyped, Runs, Places
<1>20. ASSUME TagRefused
     PROVE  RunTyped'
  BY <1>20, <1>0, RollBackIs DEF TagRefused, RunTyped
<1>21. ASSUME Detach
     PROVE  RunTyped'
  BY <1>21, <1>0, NextOfIs DEF Detach, RunTyped, Runs
<1>22. ASSUME Detached
     PROVE  RunTyped'
  BY <1>22, <1>0, ReattachedIs DEF Detached, RunTyped, Runs, Places
<1>23. ASSUME Reattach
     PROVE  RunTyped'
  BY <1>23, <1>0, NextOfIs DEF Reattach, RunTyped, Runs
<1>24. ASSUME Clear
     PROVE  RunTyped'
  <2>1. saved' \in Snaps
    BY <1>24, <1>0, Constants DEF Clear, Cleared, RunTyped
  <2>2. run.flow \in Flows
    BY <1>24, <1>0 DEF Clear, PlaceInv
  <2>3. run' = Idle \/ run' = Entered(run.flow, "recover")
    BY <1>24 DEF Clear
  <2> QED
    BY <2>1, <2>2, <2>3, <1>0, IdleIs, EnteredIs DEF RunTyped, Before
<1>25. ASSUME Failure
     PROVE  RunTyped'
  BY <1>25, <1>0, ErringIs, RollBackIs, IdleIs DEF Failure, Troubled, Noted,
    RunTyped
<1>26. ASSUME ReattachFailure
     PROVE  RunTyped'
  BY <1>26, <1>0, NextOfIs DEF ReattachFailure, Troubled, RunTyped, Runs
<1>27. ASSUME Interrupt
     PROVE  RunTyped'
  BY <1>27, <1>0, ErringIs DEF Interrupt, Troubled, Noted, RunTyped
<1>28. ASSUME Kill
     PROVE  RunTyped'
  BY <1>28, <1>0, IdleIs DEF Kill, Troubled, Noted, RunTyped
<1> QED
  BY <1>1, <1>2, <1>3, <1>4, <1>5, <1>6, <1>7, <1>8, <1>9, <1>10, <1>11, <1>12,
    <1>13, <1>14, <1>15, <1>16, <1>17, <1>18, <1>19, <1>20, <1>21, <1>22, <1>23,
    <1>24, <1>25, <1>26, <1>27, <1>28
     DEF Next, Undo, Reconcile, Apply, Trouble

\* What the flows reach, the edits and the events that are counted keep their shape.
LEMMA NextFlowsTyped ==
    ASSUME ReleaseInv, Next
    PROVE  FlowsTyped'
<1>0. /\ LogTyped /\ TagsTyped /\ TreeTyped /\ RunTyped /\ FlowsTyped /\ RelTyped /\ PlaceInv
      /\ ShapeInv /\ LogInv /\ WriteInv
  BY DEF ReleaseInv, ShapeInv
<1>1. ASSUME \/ \E f \in Flows : Begin(f)
             \/ UndoRefused
             \/ Reset
             \/ Restore
             \/ Restored
             \/ Untag
             \/ Recover
             \/ Recovered
     PROVE  UNCHANGED <<stage, edited, spent, ghost>>
  BY ONLY <1>1 DEF Begin, UndoRefused, Reset, Restore, Restored, Untag, Recover,
    Recovered
<1>2. ASSUME \/ Collect
             \/ Derive
             \/ WriteVersion
             \/ MergeChangelog
             \/ MarkConsumed
             \/ CommitReconcile
             \/ CreateTag
             \/ TagRefused
     PROVE  UNCHANGED <<stage, edited, spent, ghost>>
  BY ONLY <1>2 DEF Collect, Capture, Derive, WriteVersion, MergeChangelog,
    MarkConsumed, CommitReconcile, CreateTag, TagRefused
<1>3. ASSUME \/ Detach
             \/ Detached
             \/ Reattach
     PROVE  UNCHANGED <<stage, edited, spent, ghost>>
  BY ONLY <1>3 DEF Detach, Detached, Reattach
<1>4. CASE UNCHANGED <<stage, edited, spent, ghost>>
  BY <1>4, <1>0, ZenonT(30) DEF FlowsTyped
<1>5. ASSUME NEW f \in Flows, NEW bump \in Bumps, Integrate(f, bump)
     PROVE  FlowsTyped'
  <2>1. stage' \in [Flows -> Stages]
    BY <1>5, <1>0 DEF Integrate, FlowsTyped, Stages
  <2>2. edited' = edited /\ spent' = spent /\ ghost' = ghost
    BY <1>5 DEF Integrate
  <2> QED
    BY <2>1, <2>2, <1>0, ZenonT(30) DEF FlowsTyped
<1>6. ASSUME NEW f \in Flows, Approve(f)
     PROVE  FlowsTyped'
  <2>1. stage' \in [Flows -> Stages]
    BY <1>6, <1>0 DEF Approve, FlowsTyped, Stages
  <2>2. edited' = edited /\ spent' = spent /\ ghost' = ghost
    BY <1>6 DEF Approve
  <2> QED
    BY <2>1, <2>2, <1>0, ZenonT(30) DEF FlowsTyped
<1>7. ASSUME NEW f \in Flows, Reject(f)
     PROVE  FlowsTyped'
  <2>1. ReleaseOf(f) \in Nat
    BY <1>0, ReleaseOfIs
  <2>2. spent.rejects \in Nat /\ spent' = [spent EXCEPT !.rejects = spent.rejects + 1]
        /\ spent.rejects < MaxRejects
    BY <1>7, <1>0 DEF Reject, FlowsTyped, Counts
  <2>3. stage' \in [Flows -> Stages]
    BY <1>7, <2>1, <1>0 DEF Reject, FlowsTyped, Stages
  <2>4. spent' \in Counts
    BY <2>2, <1>0, ReconcileAssumption DEF FlowsTyped, Counts
  <2> QED
    BY <1>7, <2>3, <2>4, <1>0 DEF Reject, FlowsTyped
<1>8. ASSUME NEW p \in Owned, Edit(p)
     PROVE  FlowsTyped'
  <2>1. spent.edits \in Nat /\ spent' = [spent EXCEPT !.edits = spent.edits + 1]
        /\ spent.edits < MaxEdits
    BY <1>8, <1>0 DEF Edit, FlowsTyped, Counts
  <2>2. spent' \in Counts
        /\ spent'.edits \in 1 .. MaxEdits
    BY <2>1, <1>0, ReconcileAssumption DEF FlowsTyped, Counts
  <2>3. edited' \in [Owned -> SUBSET (1 .. MaxEdits)]
    BY <1>8, <2>2, <1>0 DEF Edit, FlowsTyped
  <2> QED
    BY <1>8, <2>2, <2>3, <1>0 DEF Edit, FlowsTyped
<1>9. ASSUME UndoBegins
     PROVE  FlowsTyped'
  <2>1. ghost' \in [blind : BOOLEAN, torn : BOOLEAN, residue : BOOLEAN]
    BY <1>9, <1>0 DEF UndoBegins, FlowsTyped
  <2> QED
    BY <1>9, <2>1, <1>0 DEF UndoBegins, FlowsTyped
<1>10. ASSUME NothingToDo
     PROVE  FlowsTyped'
  <2>1. stage' \in [Flows -> Stages]
    BY <1>10, <1>0 DEF NothingToDo, FlowsTyped, Stages
  <2>2. edited' = edited /\ spent' = spent /\ ghost' = ghost
    BY <1>10 DEF NothingToDo
  <2> QED
    BY <2>1, <2>2, <1>0, ZenonT(30) DEF FlowsTyped
<1>11. ASSUME Clear
     PROVE  FlowsTyped'
  <2>1. stage' \in [Flows -> Stages]
    BY <1>11, <1>0 DEF Clear, FlowsTyped, Stages
  <2>2. edited' = edited /\ spent' = spent /\ ghost' = ghost
    BY <1>11 DEF Clear
  <2> QED
    BY <2>1, <2>2, <1>0, ZenonT(30) DEF FlowsTyped
<1>12. ASSUME Failure
     PROVE  FlowsTyped'
  <2>1. spent.troubles \in Nat /\ spent' = [spent EXCEPT !.troubles = spent.troubles + 1]
        /\ spent.troubles < MaxTroubles /\ UNCHANGED <<edited, stage>>
    BY <1>12, <1>0 DEF Failure, Troubled, FlowsTyped, Counts
  <2>2. spent' \in Counts
    BY <2>1, <1>0, ReconcileAssumption DEF FlowsTyped, Counts
  <2>3. ghost' \in [blind : BOOLEAN, torn : BOOLEAN, residue : BOOLEAN]
    BY <1>12, <1>0 DEF Failure, Noted, FlowsTyped, Torn, Applying
  <2> QED
    BY <2>1, <2>2, <2>3, <1>0 DEF FlowsTyped
<1>13. ASSUME ReattachFailure
     PROVE  FlowsTyped'
  <2>1. spent.troubles \in Nat /\ spent' = [spent EXCEPT !.troubles = spent.troubles + 1]
        /\ spent.troubles < MaxTroubles /\ UNCHANGED <<edited, stage>>
    BY <1>13, <1>0 DEF ReattachFailure, Troubled, FlowsTyped, Counts
  <2>2. spent' \in Counts
    BY <2>1, <1>0, ReconcileAssumption DEF FlowsTyped, Counts
  <2>3. ghost' \in [blind : BOOLEAN, torn : BOOLEAN, residue : BOOLEAN]
    BY <1>13, <1>0 DEF ReattachFailure, Noted, FlowsTyped, Torn, Applying
  <2> QED
    BY <2>1, <2>2, <2>3, <1>0 DEF FlowsTyped
<1>14. ASSUME Interrupt
     PROVE  FlowsTyped'
  <2>1. spent.troubles \in Nat /\ spent' = [spent EXCEPT !.troubles = spent.troubles + 1]
        /\ spent.troubles < MaxTroubles /\ UNCHANGED <<edited, stage>>
    BY <1>14, <1>0 DEF Interrupt, Troubled, FlowsTyped, Counts
  <2>2. spent' \in Counts
    BY <2>1, <1>0, ReconcileAssumption DEF FlowsTyped, Counts
  <2>3. ghost' \in [blind : BOOLEAN, torn : BOOLEAN, residue : BOOLEAN]
    BY <1>14, <1>0 DEF Interrupt, Noted, FlowsTyped, Torn, Applying
  <2> QED
    BY <2>1, <2>2, <2>3, <1>0 DEF FlowsTyped
<1>15. ASSUME Kill
     PROVE  FlowsTyped'
  <2>1. spent.troubles \in Nat /\ spent' = [spent EXCEPT !.troubles = spent.troubles + 1]
        /\ spent.troubles < MaxTroubles /\ UNCHANGED <<edited, stage>>
    BY <1>15, <1>0 DEF Kill, Troubled, FlowsTyped, Counts
  <2>2. spent' \in Counts
    BY <2>1, <1>0, ReconcileAssumption DEF FlowsTyped, Counts
  <2>3. ghost' \in [blind : BOOLEAN, torn : BOOLEAN, residue : BOOLEAN]
    BY <1>15, <1>0 DEF Kill, Noted, FlowsTyped, Torn, Applying
  <2> QED
    BY <2>1, <2>2, <2>3, <1>0 DEF FlowsTyped
<1> QED
  BY <1>1, <1>2, <1>3, <1>4, <1>5, <1>6, <1>7, <1>8, <1>9, <1>10, <1>11, <1>12,
    <1>13, <1>14, <1>15
     DEF Next, Undo, Reconcile, Apply, Trouble

\* A commit holds of each file what releases put into it.
LEMMA NextLogRel ==
    ASSUME ReleaseInv, Next
    PROVE  LogRel'
<1>0. /\ LogTyped /\ TagsTyped /\ TreeTyped /\ RunTyped /\ FlowsTyped /\ RelTyped /\ PlaceInv
      /\ ShapeInv /\ LogInv /\ WriteInv
  BY DEF ReleaseInv, ShapeInv
<1>1. CASE UNCHANGED log
  BY <1>1, <1>0 DEF LogRel, RelTyped
<1>2. ASSUME NEW f \in Flows, NEW bump \in Bumps, Integrate(f, bump)
     PROVE  LogRel'
  <2>1. PICK c \in Commits : log' = Append(log, c) /\ c.files = Tip.files
    BY <1>2, <1>0, MergeIs
  <2> QED
    BY <2>1, <1>0, AppendIs, TipIs DEF LogRel, RelTyped
<1>3. ASSUME Reset
     PROVE  LogRel'
  <2>1. log' = Front(log) /\ Tip.kind = "release"
    BY <1>3, <1>0 DEF Reset, WriteInv, Ours
  <2> QED
    BY <2>1, <1>0, FrontIs DEF LogRel, RelTyped
<1>4. ASSUME CommitReconcile
     PROVE  LogRel'
  <2>1. PICK c \in Commits : log' = Append(log, c) /\ c.files = tree
    BY <1>4, <1>0, ReleaseIs
  <2> QED
    BY <2>1, <1>0, AppendIs DEF LogRel, TreeRel, RelTyped
<1> QED
  BY LogMoves, <1>1, <1>2, <1>3, <1>4

\* What HEAD holds of each file.
LEMMA TipRelIs ==
    ASSUME LogTyped, LogRel, NEW p \in Files
    PROVE  At(p).rel \subseteq Rel(p)
  BY TipIs DEF LogRel

\* The tree holds of each file what releases put into it.
LEMMA NextTreeRel ==
    ASSUME ReleaseInv, Next
    PROVE  TreeRel'
<1>0. /\ LogTyped /\ TagsTyped /\ TreeTyped /\ RunTyped /\ FlowsTyped /\ RelTyped /\ PlaceInv
      /\ ShapeInv /\ LogInv /\ WriteInv
  BY DEF ReleaseInv, ShapeInv
<1>1. CASE UNCHANGED tree
  BY <1>1, <1>0 DEF TreeRel, RelTyped
<1>2. ASSUME NEW p \in Owned, Edit(p)
     PROVE  TreeRel'
  <2>1. \A q \in Files : tree'[q].rel = tree[q].rel
    BY <1>2, <1>0, RelIs DEF Edit, TreeTyped, Content
  <2> QED
    BY <2>1, <1>0 DEF TreeRel, RelTyped
<1>3. ASSUME Restore
     PROVE  TreeRel'
  <2>1. NextOf(run.todo) \in Files
    BY <1>3, <1>0, NextOfIs DEF Restore, RunTyped, Runs
  <2>2. At(NextOf(run.todo)).rel \subseteq Rel(NextOf(run.todo))
    BY <2>1, <1>0, TipRelIs DEF RelTyped
  <2>3. tree' = [tree EXCEPT ![NextOf(run.todo)] = At(NextOf(run.todo))]
    BY <1>3 DEF Restore
  <2> QED
    BY <2>1, <2>2, <2>3, <1>0 DEF TreeTyped, TreeRel, RelTyped
<1>4. ASSUME Derive
     PROVE  TreeRel'
  <2>1. tree' = tree \/ tree' = [tree EXCEPT !["intents"] = At("intents")]
    BY <1>4 DEF Derive
  <2>2. At("intents").rel \subseteq Rel("intents")
    BY <1>0, TipRelIs, RelIs DEF RelTyped
  <2> QED
    BY <2>1, <2>2, <1>0, RelIs DEF TreeTyped, TreeRel, RelTyped
<1>5. ASSUME WriteVersion
     PROVE  TreeRel'
  <2> DEFINE rel == {run.target}
  <2>1. tree' = [tree EXCEPT !["version"].rel = rel]
    BY <1>5 DEF WriteVersion
  <2>2. rel \subseteq Rel("version")
    BY <1>5, <1>0, RelIs DEF WriteVersion, RunTyped, Runs, PlaceInv, RelTyped, TreeRel,
       Applied
  <2> HIDE DEF rel
  <2> QED
    BY <2>1, <2>2, <1>0, RelIs DEF TreeTyped, Content, TreeRel, RelTyped
<1>6. ASSUME MergeChangelog
     PROVE  TreeRel'
  <2> DEFINE rel == tree["docs"].rel \cup {<<run.flow, run.target>>}
  <2>1. tree' = [tree EXCEPT !["docs"].rel = rel]
    BY <1>6 DEF MergeChangelog
  <2>2. rel \subseteq Rel("docs")
    BY <1>6, <1>0, RelIs DEF MergeChangelog, RunTyped, Runs, PlaceInv, RelTyped, TreeRel,
       Applied
  <2> HIDE DEF rel
  <2> QED
    BY <2>1, <2>2, <1>0, RelIs DEF TreeTyped, Content, TreeRel, RelTyped
<1>7. ASSUME MarkConsumed
     PROVE  TreeRel'
  <2> DEFINE rel == tree["intents"].rel \cup {run.flow}
  <2>1. tree' = [tree EXCEPT !["intents"].rel = rel]
    BY <1>7 DEF MarkConsumed
  <2>2. rel \subseteq Rel("intents")
    BY <1>7, <1>0, RelIs DEF MarkConsumed, RunTyped, Runs, PlaceInv, RelTyped, TreeRel,
       Applied
  <2> HIDE DEF rel
  <2> QED
    BY <2>1, <2>2, <1>0, RelIs DEF TreeTyped, Content, TreeRel, RelTyped
<1>8. ASSUME Detach
     PROVE  TreeRel'
  <2>1. NextOf(run.todo) \in Files
    BY <1>8, <1>0, NextOfIs DEF Detach, RunTyped, Runs
  <2>2. At(NextOf(run.todo)).rel \subseteq Rel(NextOf(run.todo))
    BY <2>1, <1>0, TipRelIs DEF RelTyped
  <2>3. tree' = [tree EXCEPT ![NextOf(run.todo)] = At(NextOf(run.todo))]
    BY <1>8 DEF Detach
  <2> QED
    BY <2>1, <2>2, <2>3, <1>0 DEF TreeTyped, TreeRel, RelTyped
<1>9. ASSUME Reattach
     PROVE  TreeRel'
  <2> DEFINE p == NextOf(run.todo)
  <2>1. p \in DOMAIN Snapshots /\ Snapshots \in Snaps /\ SnapsRel(Snapshots)
    BY <1>9, <1>0, NextOfIs DEF Reattach, Reattaching, Snapshots, RunTyped, Runs, PlaceInv,
       RelTyped
  <2>2. /\ p \in Owned /\ Snapshots[p].head \in Content /\ Snapshots[p].other \in Content
        /\ Snapshots[p].other.rel \subseteq Rel(p)
    BY <2>1, SnapsIs DEF SnapsRel
  <2>3. tree' = [tree EXCEPT ![p] = Merged(@, Snapshots[p])]
    BY <1>9 DEF Reattach
  <2> HIDE DEF p
  <2>4. p \in Files /\ tree[p] \in Content /\ tree[p].rel \subseteq Rel(p)
    BY <2>2, <1>0, RelIs DEF TreeTyped, TreeRel, RelTyped
  <2>5. Merged(tree[p], Snapshots[p]).rel \subseteq Rel(p)
    BY <2>2, <2>4, MergedIs
  <2> QED
    BY <2>3, <2>4, <2>5, <1>0 DEF TreeTyped, TreeRel, RelTyped
<1> QED
  BY TreeMoves, <1>1, <1>2, <1>3, <1>4, <1>5, <1>6, <1>7, <1>8, <1>9

\* What a step does to the snapshots: it keeps or drops them, or it takes them.
KeepsSnaps == /\ run'.mem = run.mem \/ run'.mem = Nothing
              /\ saved' = saved \/ saved' = Nothing
TakesSnaps == /\ run'.mem = Captured
              /\ saved' = saved \/ saved' = Captured

\* A step keeps a snapshot, drops it, or takes it of the tree as it is.
LEMMA SnapsStep ==
    ASSUME ReleaseInv, Next
    PROVE  /\ run'.mem \in {run.mem, Nothing, Captured}
           /\ saved' \in {saved, Nothing, Captured}
<1>0. /\ LogTyped /\ TagsTyped /\ TreeTyped /\ RunTyped /\ FlowsTyped /\ RelTyped /\ PlaceInv
      /\ ShapeInv /\ LogInv /\ WriteInv
  BY DEF ReleaseInv, ShapeInv
<1>1. ASSUME \/ \E g \in Flows, bump \in Bumps : Integrate(g, bump)
             \/ \E f \in Flows : Approve(f) \/ Reject(f)
             \/ \E p \in Owned : Edit(p)
     PROVE  KeepsSnaps
  BY <1>1 DEF Integrate, Approve, Reject, Edit, KeepsSnaps
<1>2. ASSUME \/ Reset
             \/ Restore
             \/ Recover
             \/ Derive
             \/ WriteVersion
             \/ MergeChangelog
     PROVE  KeepsSnaps
  BY <1>2, <1>0 DEF Reset, Restore, Recover, Derive, WriteVersion, MergeChangelog,
    RunTyped, Runs, KeepsSnaps
<1>3. ASSUME \/ MarkConsumed
             \/ CommitReconcile
             \/ Detach
             \/ Detached
             \/ Reattach
             \/ ReattachFailure
     PROVE  KeepsSnaps
  BY <1>3, <1>0 DEF MarkConsumed, CommitReconcile, Detach, Detached, Reattach,
    ReattachFailure, Troubled, RunTyped, Runs, KeepsSnaps
<1>4. ASSUME \/ Restored
             \/ Untag
             \/ CreateTag
             \/ TagRefused
             \/ Interrupt
     PROVE  KeepsSnaps
  BY <1>4, <1>0, ReattachedIs, ErringIs, RollBackIs DEF Restored, Untag, CreateTag,
    TagRefused, Interrupt, Troubled, Noted, RunTyped, Runs, KeepsSnaps
<1>5. ASSUME \/ NothingToDo
             \/ Failure
             \/ Kill
     PROVE  KeepsSnaps
  BY <1>5, <1>0, IdleIs, ErringIs, RollBackIs DEF NothingToDo, Failure, Troubled,
    Noted, Kill, RunTyped, Runs, KeepsSnaps
<1>6. ASSUME \/ \E f \in Flows : Begin(f)
             \/ UndoRefused
     PROVE  KeepsSnaps
  BY <1>6, <1>0, IdleIs, EnteredIs DEF Begin, UndoRefused, Before, PlaceInv,
    KeepsSnaps
<1>7. ASSUME \/ Recovered
             \/ Clear
     PROVE  KeepsSnaps
  BY <1>7, <1>0, IdleIs, EnteredIs DEF Recovered, Clear, Before, PlaceInv, Cleared,
    RunTyped, Runs, KeepsSnaps
<1>8. ASSUME UndoBegins \/ Collect
     PROVE  TakesSnaps
  <2>1. run'.mem = Captured
    BY <1>8, <1>0 DEF UndoBegins, Collect, Capture, RunTyped, Runs
  <2>2. saved' = saved \/ saved' = Captured
    BY <1>8 DEF UndoBegins, Collect, Capture
  <2> QED
    BY <2>1, <2>2 DEF TakesSnaps
<1>9. KeepsSnaps \/ (TakesSnaps /\ (UndoBegins \/ Collect))
  BY <1>1, <1>2, <1>3, <1>4, <1>5, <1>6, <1>7, <1>8
     DEF Next, Undo, Reconcile, Apply, Trouble
<1> QED
  BY <1>9 DEF KeepsSnaps, TakesSnaps

\* The snapshots hold of each file what releases put into it.
LEMMA NextSnapsRel ==
    ASSUME ReleaseInv, Next
    PROVE  SnapsRel(saved)' /\ SnapsRel(run.mem)'
<1>0. /\ LogTyped /\ TagsTyped /\ TreeTyped /\ RunTyped /\ FlowsTyped /\ RelTyped /\ PlaceInv
      /\ ShapeInv /\ LogInv /\ WriteInv
  BY DEF ReleaseInv, ShapeInv
<1>1. SnapsRel(Nothing)
  BY Constants DEF SnapsRel
<1>2. SnapsRel(Captured)
  <2>1. ASSUME NEW p \in DOMAIN Captured
        PROVE  Captured[p].head.rel \subseteq Rel(p) /\ Captured[p].other.rel \subseteq Rel(p)
    <3>1. p \in Files /\ Captured[p].head = At(p) /\ Captured[p].other = tree[p]
      BY <2>1, <1>0, CapturedIs, RelIs
    <3> QED
      BY <3>1, <1>0, TipRelIs DEF RelTyped, TreeRel
  <2> QED
    BY <2>1 DEF SnapsRel
<1>3. \A s \in {saved, run.mem, Nothing, Captured} : SnapsRel(s)
  BY <1>0, <1>1, <1>2 DEF RelTyped
<1>4. SnapsRel(saved') /\ SnapsRel(run'.mem)
  BY <1>3, SnapsStep
<1> QED
  BY <1>4 DEF SnapsRel

\* The types of what releases write.
LEMMA NextRelTyped ==
    ASSUME ReleaseInv, Next
    PROVE  RelTyped'
  BY NextLogRel, NextTreeRel, NextSnapsRel DEF RelTyped

\* The process is what its place says.
LEMMA NextPlaceInv ==
    ASSUME ReleaseInv, Next
    PROVE  PlaceInv'
<1>0. /\ LogTyped /\ TagsTyped /\ TreeTyped /\ RunTyped /\ FlowsTyped /\ RelTyped /\ PlaceInv
      /\ ShapeInv /\ LogInv /\ WriteInv
  BY DEF ReleaseInv, ShapeInv
<1>1. ASSUME \/ \E p \in Owned : Edit(p)
     PROVE  UNCHANGED <<run, stage, saved>>
  BY ONLY <1>1 DEF Edit
<1>2. CASE UNCHANGED <<run, stage, saved>>
  BY <1>2, <1>0 DEF PlaceInv
<1>3. ASSUME NEW f \in Flows, NEW bump \in Bumps, Integrate(f, bump)
     PROVE  PlaceInv'
  BY <1>3, <1>0 DEF Integrate, PlaceInv, Before, Applied, FlowsTyped, Stages
<1>4. ASSUME NEW f \in Flows, Begin(f)
     PROVE  PlaceInv'
  BY <1>4, <1>0, IdleIs, EnteredIs DEF Begin, PlaceInv, Before, Applied
<1>5. ASSUME NEW f \in Flows, Approve(f)
     PROVE  PlaceInv'
  BY <1>5, <1>0 DEF Approve, PlaceInv, Before, Applied, FlowsTyped, Stages
<1>6. ASSUME NEW f \in Flows, Reject(f)
     PROVE  PlaceInv'
  BY <1>6, <1>0 DEF Reject, PlaceInv, Before, Applied, FlowsTyped, Stages
<1>7. ASSUME UndoRefused
     PROVE  PlaceInv'
  BY <1>7, <1>0, IdleIs, EnteredIs DEF UndoRefused, PlaceInv, Before, Applied
<1>8. ASSUME UndoBegins
     PROVE  PlaceInv'
  <2>1. run' = [run EXCEPT !.undoing = TRUE, !.undone = [id |-> Tip.id, tag |-> Tip.tag],
                       !.pc = "detach", !.mem = Captured, !.todo = DOMAIN Captured]
    BY <1>8 DEF UndoBegins, Capture
  <2>2. run.pc = "undo" /\ stage' = stage
    BY <1>8 DEF UndoBegins
  <2> QED
    BY <2>1, <2>2, <1>0 DEF PlaceInv, Before, Applied, RunTyped, Runs
<1>9. ASSUME Reset
     PROVE  PlaceInv'
  BY <1>9, <1>0 DEF Reset, PlaceInv, Before, Applied, RunTyped, Runs
<1>10. ASSUME Restore
     PROVE  PlaceInv'
  BY <1>10, <1>0, NextOfIs DEF Restore, PlaceInv, Before, Applied, RunTyped, Runs
<1>11. ASSUME Restored
     PROVE  PlaceInv'
  BY <1>11, <1>0, ReattachedIs DEF Restored, PlaceInv, Before, Applied
<1>12. ASSUME Untag
     PROVE  PlaceInv'
  BY <1>12, <1>0, ReattachedIs DEF Untag, PlaceInv, Before, Applied
<1>13. ASSUME Recover
     PROVE  PlaceInv'
  BY <1>13, <1>0 DEF Recover, PlaceInv, Before, Applied, RunTyped, Runs
<1>14. ASSUME Recovered
     PROVE  PlaceInv'
  <2>1. CASE run.unplayed
    BY <1>14, <2>1, <1>0, IdleIs DEF Recovered, PlaceInv, Before, Applied
  <2>2. CASE ~run.unplayed
    BY <1>14, <2>2, <1>0 DEF Recovered, PlaceInv, Before, Applied, RunTyped, Runs
  <2> QED
    BY <2>1, <2>2
<1>15. ASSUME NothingToDo
     PROVE  PlaceInv'
  BY <1>15, <1>0, IdleIs DEF NothingToDo, PlaceInv, Before, Applied
<1>16. ASSUME Collect
     PROVE  PlaceInv'
  <2>1. run' = [run EXCEPT !.pc = "detach", !.mem = Captured, !.todo = DOMAIN Captured]
    BY <1>16 DEF Collect, Capture
  <2>2. run.pc = "collect" /\ stage' = stage
    BY <1>16 DEF Collect
  <2> QED
    BY <2>1, <2>2, <1>0 DEF PlaceInv, Before, Applied, RunTyped, Runs
<1>17. ASSUME Derive
     PROVE  PlaceInv'
  BY <1>17, <1>0 DEF Derive, PlaceInv, Before, Applied, RunTyped, Runs
<1>18. ASSUME WriteVersion
     PROVE  PlaceInv'
  BY <1>18, <1>0 DEF WriteVersion, PlaceInv, Before, Applied, RunTyped, Runs
<1>19. ASSUME MergeChangelog
     PROVE  PlaceInv'
  BY <1>19, <1>0 DEF MergeChangelog, PlaceInv, Before, Applied, RunTyped, Runs
<1>20. ASSUME MarkConsumed
     PROVE  PlaceInv'
  BY <1>20, <1>0 DEF MarkConsumed, PlaceInv, Before, Applied, RunTyped, Runs
<1>21. ASSUME CommitReconcile
     PROVE  PlaceInv'
  BY <1>21, <1>0 DEF CommitReconcile, PlaceInv, Before, Applied, RunTyped, Runs
<1>22. ASSUME CreateTag
     PROVE  PlaceInv'
  BY <1>22, <1>0, ReattachedIs DEF CreateTag, PlaceInv, Before, Applied
<1>23. ASSUME TagRefused
     PROVE  PlaceInv'
  BY <1>23, <1>0, RollBackIs DEF TagRefused, PlaceInv, Before, Applied
<1>24. ASSUME Detach
     PROVE  PlaceInv'
  BY <1>24, <1>0, NextOfIs DEF Detach, PlaceInv, Before, Applied, RunTyped, Runs
<1>25. ASSUME Detached
     PROVE  PlaceInv'
  BY <1>25, <1>0 DEF Detached, PlaceInv, Before, Applied, RunTyped, Runs
<1>26. ASSUME Reattach
     PROVE  PlaceInv'
  BY <1>26, <1>0, NextOfIs DEF Reattach, PlaceInv, Before, Applied, RunTyped, Runs,
    Reattaching
<1>27. ASSUME Clear
     PROVE  PlaceInv'
  <2>1. CASE run.undoing /\ ~run.error /\ ~run.unplayed
    BY <1>27, <2>1, <1>0, EnteredIs DEF Clear, PlaceInv, Before, Applied
  <2>2. CASE ~(run.undoing /\ ~run.error /\ ~run.unplayed)
    BY <1>27, <2>2, <1>0, IdleIs DEF Clear, PlaceInv, Before, Applied
  <2> QED
    BY <2>1, <2>2
<1>28. ASSUME Failure
     PROVE  PlaceInv'
  BY <1>28, <1>0, ErringIs, RollBackIs, IdleIs DEF Failure, Troubled, Noted,
    PlaceInv, Before, Applied, InTry, Applying, Outside
<1>29. ASSUME ReattachFailure
     PROVE  PlaceInv'
  BY <1>29, <1>0, NextOfIs DEF ReattachFailure, Troubled, PlaceInv, Before, Applied,
    RunTyped, Runs, Reattaching
<1>30. ASSUME Interrupt
     PROVE  PlaceInv'
  BY <1>30, <1>0, ErringIs DEF Interrupt, Troubled, Noted, PlaceInv, Before,
    Applied, InTry, Applying
<1>31. ASSUME Kill
     PROVE  PlaceInv'
  BY <1>31, <1>0, IdleIs DEF Kill, Troubled, Noted, PlaceInv, Before, Applied
<1> QED
  BY <1>1, <1>2, <1>3, <1>4, <1>5, <1>6, <1>7, <1>8, <1>9, <1>10, <1>11, <1>12,
    <1>13, <1>14, <1>15, <1>16, <1>17, <1>18, <1>19, <1>20, <1>21, <1>22, <1>23,
    <1>24, <1>25, <1>26, <1>27, <1>28, <1>29, <1>30, <1>31
     DEF Next, Undo, Reconcile, Apply, Trouble

\* The types, together.
LEMMA NextShapeInv ==
    ASSUME ReleaseInv, Next
    PROVE  ShapeInv'
  BY NextLogTyped, NextTagsTyped, NextTreeTyped, NextRunTyped, NextFlowsTyped, NextRelTyped,
     NextPlaceInv DEF ShapeInv

-----------------------------------------------------------------------------
(* The history.                                                            *)

\* A merge releases nothing.
LEMMA MergeReleases ==
    ASSUME LogTyped, OnceInv, NEW c \in Commits, c.kind = "merge", log' = Append(log, c), NEW f
    PROVE  (Released(f)' <=> Released(f)) /\ ReleaseOf(f)' = ReleaseOf(f)
<1>1. RelIn(log', f) = RelIn(log, f)
  BY AppendIs DEF RelIn
<1>2. \A i \in RelIn(log, f) : log'[i] = log[i]
  BY AppendIs DEF RelIn
<1> QED
  BY <1>1, <1>2, SameReleases

\* A release is its flow's, and no other's.
LEMMA CommitReleases ==
    ASSUME LogTyped, OnceInv, NEW c \in Commits, c.kind = "release", log' = Append(log, c),
           NEW f
    PROVE  /\ f # c.flow => (Released(f)' <=> Released(f)) /\ ReleaseOf(f)' = ReleaseOf(f)
           /\ f = c.flow => Released(f)'
           /\ f = c.flow /\ ~Released(f) => ReleaseOf(f)' = c.id
<1>1. ASSUME f # c.flow
      PROVE  (Released(f)' <=> Released(f)) /\ ReleaseOf(f)' = ReleaseOf(f)
  <2>1. RelIn(log', f) = RelIn(log, f)
    BY <1>1, AppendIs DEF RelIn
  <2>2. \A i \in RelIn(log, f) : log'[i] = log[i]
    BY AppendIs DEF RelIn
  <2> QED
    BY <2>1, <2>2, SameReleases
<1>2. ASSUME f = c.flow
      PROVE  Len(log') \in RelIn(log', f) /\ log'[Len(log')] = c
  BY <1>2, AppendIs, TipIs DEF RelIn
<1>3. ASSUME f = c.flow, ~Released(f)
      PROVE  ReleaseOf(f)' = c.id
  <2>1. RelIn(log, f) = {}
    BY <1>3, InIs
  <2>2. \A j \in RelIn(log', f) : j = Len(log')
    BY <2>1, AppendIs DEF RelIn
  <2>3. IdIn(log', f) = c.id
    BY <1>2, <1>3, <2>2, IdInIs
  <2> QED
    BY <2>3, InIs
<1> QED
  BY <1>1, <1>2, <1>3, InIs

\* A release that is taken back was its flow's only one.
LEMMA ResetReleases ==
    ASSUME LogTyped, OnceInv, Tip.kind = "release", log' = Front(log), NEW f
    PROVE  /\ f # Tip.flow => (Released(f)' <=> Released(f)) /\ ReleaseOf(f)' = ReleaseOf(f)
           /\ f = Tip.flow => ~Released(f)'
<1>1. ASSUME f # Tip.flow
      PROVE  (Released(f)' <=> Released(f)) /\ ReleaseOf(f)' = ReleaseOf(f)
  <2>1. RelIn(log', f) = RelIn(log, f)
    BY <1>1, FrontIs, TipIs DEF RelIn
  <2>2. \A i \in RelIn(log, f) : log'[i] = log[i]
    BY <2>1, FrontIs DEF RelIn
  <2> QED
    BY <2>1, <2>2, SameReleases
<1>2. ASSUME f = Tip.flow
      PROVE  RelIn(log', f) = {}
  BY <1>2, FrontIs, TipIs DEF RelIn, OnceInv
<1> QED
  BY <1>1, <1>2, InIs

\* The version that the tree names and the one that a release comes to.
LEMMA TargetIs ==
    ASSUME LogTyped, CommitsInv, FlowsTyped, run.flow \in Flows
    PROVE  Target \in Version /\ Bump \in Bumps /\ Bump = stage[run.flow].bump
<1>1. PICK v \in Version : Tip.files["version"].rel = {v}
  BY TipIs DEF CommitsInv
<1>2. VersionAt(Tip.files) \in Version
  BY <1>1, VersionAtIs
<1>3. Bump \in Bumps /\ Bump = stage[run.flow].bump
  BY DEF Bump, FlowsTyped, Stages
<1> QED
  BY <1>2, <1>3, BumpedIs DEF Target

\* The tree when a release is committed.
LEMMA CommittedTree ==
    ASSUME ReleaseInv, run.pc = "commit"
    PROVE  /\ Written /\ ~Released(run.flow) /\ run.flow \in Flows
           /\ \A p \in Files : tree[p].edits = {}
           /\ \E v \in Version : tree["version"].rel = {v}
           /\ Target \in Version /\ Bump = stage[run.flow].bump
<1>0. LogTyped /\ TreeTyped /\ FlowsTyped /\ PlaceInv /\ LogInv /\ WriteInv /\ EditInv
  BY DEF ReleaseInv, ShapeInv
<1>1. Written /\ ~Released(run.flow) /\ run.flow \in Flows
  BY <1>0 DEF WriteInv, PlaceInv, Applied
<1>2. \A p \in Files : tree[p].edits = {}
  BY <1>0 DEF EditInv, CleanInv, Detached0, Applied, TreeTyped, Files
<1>3. Target \in Version /\ Bump = stage[run.flow].bump
  BY <1>0, <1>1, TargetIs DEF LogInv
<1>4. \E v \in Version : At("version").rel = {v}
  BY <1>0, TipIs, RelIs DEF LogInv, CommitsInv
<1>5. \E v \in Version : tree["version"].rel = {v}
  BY <1>1, <1>3, <1>4 DEF Written
<1> QED
  BY <1>1, <1>2, <1>3, <1>5

\* The commits name one version, and carry no edit of the operator.
LEMMA NextCommitsInv ==
    ASSUME ReleaseInv, Next
    PROVE  CommitsInv'
<1>0. /\ LogTyped /\ TagsTyped /\ TreeTyped /\ RunTyped /\ FlowsTyped /\ RelTyped /\ PlaceInv
      /\ ShapeInv /\ LogInv /\ WriteInv
      /\ CommitsInv /\ FollowInv /\ OnceInv /\ WorkInv
  BY DEF ReleaseInv, LogInv, ShapeInv
<1>1. CASE UNCHANGED log
  BY <1>1, <1>0 DEF CommitsInv
<1>2. ASSUME NEW f \in Flows, NEW bump \in Bumps, Integrate(f, bump)
     PROVE  CommitsInv'
  <2>1. PICK c \in Commits : log' = Append(log, c) /\ c.files = Tip.files
                             /\ c.kind = "merge" /\ c.flow = f /\ c.id # 0 /\ c.id \notin Named
    BY <1>2, <1>0, MergeIs
  <2>2. /\ \A p \in Files : c.files[p].edits = {}
        /\ \E v \in Version : c.files["version"].rel = {v}
    BY <2>1, <1>0, TipIs DEF CommitsInv
  <2> QED
    BY <2>1, <2>2, <1>0, AppendIs DEF CommitsInv
<1>3. ASSUME Reset
     PROVE  CommitsInv'
  <2>1. log' = Front(log) /\ Tip.kind = "release"
    BY <1>3, <1>0 DEF Reset, WriteInv, Ours
  <2> QED
    BY <2>1, <1>0, FrontIs DEF CommitsInv
<1>4. ASSUME CommitReconcile
     PROVE  CommitsInv'
  <2>1. PICK c \in Commits : log' = Append(log, c) /\ c.files = tree
                             /\ c.kind = "release" /\ c.flow = run.flow
                             /\ c.id # 0 /\ c.id \notin Named
    BY <1>4, <1>0, ReleaseIs
  <2>2. run.pc = "commit"
    BY <1>4 DEF CommitReconcile
  <2>3. /\ \A p \in Files : c.files[p].edits = {}
        /\ \E v \in Version : c.files["version"].rel = {v}
        /\ run.flow \in Flows
    BY <2>1, <2>2, CommittedTree
  <2> QED
    BY <2>1, <2>3, <1>0, AppendIs DEF CommitsInv
<1> QED
  BY LogMoves, <1>1, <1>2, <1>3, <1>4

\* Commits are told apart, and a flow is released once.
LEMMA NextOnceInv ==
    ASSUME ReleaseInv, Next
    PROVE  OnceInv'
<1>0. /\ LogTyped /\ TagsTyped /\ TreeTyped /\ RunTyped /\ FlowsTyped /\ RelTyped /\ PlaceInv
      /\ ShapeInv /\ LogInv /\ WriteInv
      /\ CommitsInv /\ FollowInv /\ OnceInv /\ WorkInv
  BY DEF ReleaseInv, LogInv, ShapeInv
<1>1. CASE UNCHANGED log
  BY <1>1, <1>0 DEF OnceInv
<1>2. ASSUME NEW f \in Flows, NEW bump \in Bumps, Integrate(f, bump)
     PROVE  OnceInv'
  <2>1. PICK c \in Commits : log' = Append(log, c) /\ c.files = Tip.files
                             /\ c.kind = "merge" /\ c.flow = f /\ c.id # 0 /\ c.id \notin Named
    BY <1>2, <1>0, MergeIs
  <2>2. \A i \in 1 .. Len(log) : log[i].id # c.id
    BY <2>1 DEF Named
  <2> QED
    BY <2>1, <2>2, <1>0, AppendIs DEF OnceInv
<1>3. ASSUME Reset
     PROVE  OnceInv'
  <2>1. log' = Front(log) /\ Tip.kind = "release"
    BY <1>3, <1>0 DEF Reset, WriteInv, Ours
  <2> QED
    BY <2>1, <1>0, FrontIs DEF OnceInv
<1>4. ASSUME CommitReconcile
     PROVE  OnceInv'
  <2>1. PICK c \in Commits : log' = Append(log, c) /\ c.files = tree
                             /\ c.kind = "release" /\ c.flow = run.flow
                             /\ c.id # 0 /\ c.id \notin Named
    BY <1>4, <1>0, ReleaseIs
  <2>2. run.pc = "commit"
    BY <1>4 DEF CommitReconcile
  <2>3. RelIn(log, run.flow) = {}
    BY <2>2, CommittedTree, InIs
  <2>4. \A i \in 1 .. Len(log) : /\ log[i].id # c.id
                                 /\ ~(log[i].kind = "release" /\ log[i].flow = c.flow)
    BY <2>1, <2>3 DEF Named, RelIn
  <2> QED
    BY <2>1, <2>4, <1>0, AppendIs DEF OnceInv
<1> QED
  BY LogMoves, <1>1, <1>2, <1>3, <1>4

\* A flow is not released before it is merged.
LEMMA NextWorkInv ==
    ASSUME ReleaseInv, Next
    PROVE  WorkInv'
<1>0. /\ LogTyped /\ TagsTyped /\ TreeTyped /\ RunTyped /\ FlowsTyped /\ RelTyped /\ PlaceInv
      /\ ShapeInv /\ LogInv /\ WriteInv
      /\ CommitsInv /\ FollowInv /\ OnceInv /\ WorkInv
  BY DEF ReleaseInv, LogInv, ShapeInv
<1>1. CASE UNCHANGED <<log, stage>>
  BY <1>1, <1>0, LogStays DEF WorkInv
<1>2. ASSUME NEW f \in Flows, NEW bump \in Bumps, Integrate(f, bump)
     PROVE  WorkInv'
  <2>1. PICK c \in Commits : log' = Append(log, c) /\ c.files = Tip.files
                             /\ c.kind = "merge" /\ c.flow = f /\ c.id # 0 /\ c.id \notin Named
    BY <1>2, <1>0, MergeIs
  <2>2. \A g \in Flows : Released(g)' <=> Released(g)
    BY <2>1, <1>0, MergeReleases
  <2> QED
    BY <1>2, <2>2, <1>0 DEF Integrate, WorkInv, FlowsTyped, Stages
<1>3. ASSUME NEW f \in Flows, Approve(f)
     PROVE  WorkInv'
  BY <1>3, <1>0, LogStays DEF Approve, WorkInv, FlowsTyped, Stages
<1>4. ASSUME NEW f \in Flows, Reject(f)
     PROVE  WorkInv'
  BY <1>4, <1>0, LogStays DEF Reject, WorkInv, FlowsTyped, Stages
<1>5. ASSUME Reset
     PROVE  WorkInv'
  <2>1. log' = Front(log) /\ Tip.kind = "release"
    BY <1>5, <1>0 DEF Reset, WriteInv, Ours
  <2>2. \A g \in Flows : Released(g)' => Released(g)
    BY <2>1, <1>0, ResetReleases
  <2> QED
    BY <1>5, <2>2, <1>0 DEF Reset, WorkInv
<1>6. ASSUME NothingToDo
     PROVE  WorkInv'
  BY <1>6, <1>0, LogStays DEF NothingToDo, WorkInv, FlowsTyped, Stages
<1>7. ASSUME CommitReconcile
     PROVE  WorkInv'
  <2>1. PICK c \in Commits : log' = Append(log, c) /\ c.files = tree
                             /\ c.kind = "release" /\ c.flow = run.flow
                             /\ c.id # 0 /\ c.id \notin Named
    BY <1>7, <1>0, ReleaseIs
  <2>2. \A g \in Flows : g # run.flow => (Released(g)' <=> Released(g))
    BY <2>1, <1>0, CommitReleases
  <2>3. stage[run.flow].at = "integrated" /\ stage' = stage
    BY <1>7, <1>0 DEF CommitReconcile, PlaceInv
  <2> QED
    BY <2>2, <2>3, <1>0 DEF WorkInv
<1>8. ASSUME Clear
     PROVE  WorkInv'
  BY <1>8, <1>0, LogStays DEF Clear, WorkInv, FlowsTyped, Stages
<1> QED
  BY HistoryMoves, <1>1, <1>2, <1>3, <1>4, <1>5, <1>6, <1>7, <1>8

\* What is merged follows HEAD.
LEMMA MergeFollows ==
    ASSUME LogTyped, CommitsInv, NEW c \in Commits, c.files = Tip.files
    PROVE  Follows("none", Tip, c)
<1>1. PICK v \in Version : Tip.files["version"].rel = {v}
  BY TipIs DEF CommitsInv
<1>2. Bumped(VersionAt(Tip.files), "none") = v
  BY <1>1, VersionAtIs, BumpedIs DEF Bumps
<1>3. Tip.files["version"] \in Content /\ Tip.files["docs"] \in Content
      /\ Tip.files["version"].edits = {}
  BY TipIs, RelIs DEF CommitsInv
<1>4. Tip.files["version"] = [rel |-> {v}, edits |-> {}]
  BY <1>1, <1>3 DEF Content
<1>5. Tip.files["docs"] = [Tip.files["docs"] EXCEPT !.rel = @]
  BY <1>3 DEF Content
<1> QED
  BY <1>2, <1>4, <1>5 DEF Follows

\* A release follows HEAD by its flow's own bump.
LEMMA ReleaseFollows ==
    ASSUME LogTyped, CommitsInv, Written, Bump = stage[run.flow].bump,
           NEW c \in Commits, c.files = tree, c.flow = run.flow
    PROVE  Follows(Bump, Tip, c)
<1>1. CASE Bump = "none"
  <2>1. tree["version"] = Tip.files["version"] /\ tree["docs"] = Tip.files["docs"]
    BY <1>1, TipIs, RelIs DEF Written, Publishes
  <2>2. Follows("none", Tip, [c EXCEPT !.files = Tip.files])
    <3>1. /\ [c EXCEPT !.files = Tip.files] \in Commits
          /\ [c EXCEPT !.files = Tip.files].files = Tip.files
      BY TipIs DEF Commits
    <3> QED
      BY <3>1, MergeFollows
  <2>3. [c EXCEPT !.files = Tip.files].files = Tip.files
    BY DEF Commits
  <2> QED
    BY <1>1, <2>1, <2>2, <2>3 DEF Follows
<1>2. CASE Bump # "none"
  BY <1>2, TipIs, RelIs DEF Written, Publishes, Follows, Target
<1> QED
  BY <1>1, <1>2

\* Every commit follows the one before it.
LEMMA NextFollowInv ==
    ASSUME ReleaseInv, Next
    PROVE  FollowInv'
<1>0. /\ LogTyped /\ TagsTyped /\ TreeTyped /\ RunTyped /\ FlowsTyped /\ RelTyped /\ PlaceInv
      /\ ShapeInv /\ LogInv /\ WriteInv
      /\ CommitsInv /\ FollowInv /\ OnceInv /\ WorkInv
  BY DEF ReleaseInv, LogInv, ShapeInv
<1>1. CASE UNCHANGED <<log, stage>>
  BY <1>1, <1>0 DEF FollowInv, BumpOf
<1>2. ASSUME NEW f \in Flows, NEW bump \in Bumps, Integrate(f, bump)
     PROVE  FollowInv'
  <2>1. PICK c \in Commits : log' = Append(log, c) /\ c.files = Tip.files
                             /\ c.kind = "merge" /\ c.flow = f /\ c.id # 0 /\ c.id \notin Named
    BY <1>2, <1>0, MergeIs
  <2>2. ~Released(f) /\ \A g \in Flows : g # f => stage'[g].bump = stage[g].bump
    BY <1>2, <1>0 DEF Integrate, WorkInv, FlowsTyped, Stages
  <2>3. RelIn(log, f) = {}
    BY <2>2, InIs
  <2>4. ASSUME NEW i \in 2 .. Len(log)
        PROVE  Follows(BumpOf(log[i]), log[i - 1], log[i])'
    <3>1. i \in 1 .. Len(log) /\ i - 1 \in 1 .. Len(log)
      BY <1>0, TipIs
    <3>2. log'[i] = log[i] /\ log'[i - 1] = log[i - 1]
      BY <2>1, <3>1, <1>0, AppendIs
    <3>3. log[i].kind = "release" => log[i].flow \in Flows /\ log[i].flow # f
      BY <2>3, <3>1, <1>0 DEF RelIn, CommitsInv
    <3>4. BumpOf(log[i])' = BumpOf(log[i])
      BY <2>2, <3>2, <3>3 DEF BumpOf
    <3> QED
      BY <3>2, <3>4, <1>0 DEF FollowInv
  <2>5. Follows(BumpOf(c)', Tip, c)
    BY <2>1, <1>0, MergeFollows DEF BumpOf
  <2>6. \A i \in 2 .. Len(log') :
          i - 1 \in 1 .. Len(log) /\ (i \in 2 .. Len(log) \/ i = Len(log'))
    BY <2>1, <1>0, TipIs, AppendIs
  <2>7. log'[Len(log')] = c /\ log'[Len(log') - 1] = Tip
    BY <2>1, <1>0, AppendIs, TipIs
  <2>8. BumpOf(log[Len(log)])' = BumpOf(c)'
    BY <2>7 DEF BumpOf
  <2> QED
    BY <2>4, <2>5, <2>6, <2>7, <2>8 DEF FollowInv
<1>3. ASSUME NEW f \in Flows, Approve(f)
     PROVE  FollowInv'
  <2>1. log' = log /\ \A g \in Flows : stage'[g].bump = stage[g].bump
    BY <1>3, <1>0 DEF Approve, FlowsTyped, Stages
  <2>2. \A i \in 2 .. Len(log) : i \in 1 .. Len(log) /\ BumpOf(log[i])' = BumpOf(log[i])
    BY <2>1, <1>0, TipIs DEF BumpOf, CommitsInv
  <2> QED
    BY <2>1, <2>2, <1>0 DEF FollowInv
<1>4. ASSUME NEW f \in Flows, Reject(f)
     PROVE  FollowInv'
  <2>1. log' = log /\ \A g \in Flows : stage'[g].bump = stage[g].bump
    BY <1>4, <1>0 DEF Reject, FlowsTyped, Stages
  <2>2. \A i \in 2 .. Len(log) : i \in 1 .. Len(log) /\ BumpOf(log[i])' = BumpOf(log[i])
    BY <2>1, <1>0, TipIs DEF BumpOf, CommitsInv
  <2> QED
    BY <2>1, <2>2, <1>0 DEF FollowInv
<1>5. ASSUME Reset
     PROVE  FollowInv'
  <2>1. log' = Front(log) /\ Tip.kind = "release"
    BY <1>5, <1>0 DEF Reset, WriteInv, Ours
  <2>2. stage' = stage
    BY <1>5 DEF Reset
  <2>3. \A i \in 2 .. Len(log') : /\ log'[i] = log[i] /\ log'[i - 1] = log[i - 1]
                                 /\ i \in 2 .. Len(log)
    BY <2>1, <1>0, FrontIs, TipIs
  <2> QED
    BY <2>2, <2>3, <1>0 DEF FollowInv, BumpOf
<1>6. ASSUME NothingToDo
     PROVE  FollowInv'
  <2>1. log' = log /\ \A g \in Flows : stage'[g].bump = stage[g].bump
    BY <1>6, <1>0 DEF NothingToDo, FlowsTyped, Stages
  <2>2. \A i \in 2 .. Len(log) : i \in 1 .. Len(log) /\ BumpOf(log[i])' = BumpOf(log[i])
    BY <2>1, <1>0, TipIs DEF BumpOf, CommitsInv
  <2> QED
    BY <2>1, <2>2, <1>0 DEF FollowInv
<1>7. ASSUME CommitReconcile
     PROVE  FollowInv'
  <2>1. PICK c \in Commits : log' = Append(log, c) /\ c.files = tree
                             /\ c.kind = "release" /\ c.flow = run.flow
                             /\ c.id # 0 /\ c.id \notin Named
    BY <1>7, <1>0, ReleaseIs
  <2>2. run.pc = "commit" /\ stage' = stage
    BY <1>7 DEF CommitReconcile
  <2>3. Written /\ Bump = stage[run.flow].bump
    BY <2>2, CommittedTree
  <2>4. ASSUME NEW i \in 2 .. Len(log)
        PROVE  Follows(BumpOf(log[i]), log[i - 1], log[i])'
    <3>1. i \in 1 .. Len(log) /\ i - 1 \in 1 .. Len(log)
      BY <1>0, TipIs
    <3>2. log'[i] = log[i] /\ log'[i - 1] = log[i - 1]
      BY <2>1, <3>1, <1>0, AppendIs
    <3>3. BumpOf(log[i])' = BumpOf(log[i])
      BY <2>2, <3>2 DEF BumpOf
    <3> QED
      BY <3>2, <3>3, <1>0 DEF FollowInv
  <2>5. Follows(Bump, Tip, c)
    BY <2>1, <2>3, <1>0, ReleaseFollows
  <2>6. \A i \in 2 .. Len(log') :
          i - 1 \in 1 .. Len(log) /\ (i \in 2 .. Len(log) \/ i = Len(log'))
    BY <2>1, <1>0, TipIs, AppendIs
  <2>7. log'[Len(log')] = c /\ log'[Len(log') - 1] = Tip
    BY <2>1, <1>0, AppendIs, TipIs
  <2>8. BumpOf(log[Len(log)])' = Bump
    BY <2>1, <2>2, <2>3, <2>7 DEF BumpOf
  <2> QED
    BY <2>4, <2>5, <2>6, <2>7, <2>8 DEF FollowInv
<1>8. ASSUME Clear
     PROVE  FollowInv'
  <2>1. log' = log /\ \A g \in Flows : stage'[g].bump = stage[g].bump
    BY <1>8, <1>0 DEF Clear, FlowsTyped, Stages
  <2>2. \A i \in 2 .. Len(log) : i \in 1 .. Len(log) /\ BumpOf(log[i])' = BumpOf(log[i])
    BY <2>1, <1>0, TipIs DEF BumpOf, CommitsInv
  <2> QED
    BY <2>1, <2>2, <1>0 DEF FollowInv
<1> QED
  BY HistoryMoves, <1>1, <1>2, <1>3, <1>4, <1>5, <1>6, <1>7, <1>8

\* The history, together.
LEMMA NextLogInv ==
    ASSUME ReleaseInv, Next
    PROVE  LogInv'
  BY NextCommitsInv, NextFollowInv, NextOnceInv, NextWorkInv DEF LogInv

-----------------------------------------------------------------------------
(* What a release has written.                                             *)

\* Where nothing is said of what is written.
Elsewhere == {"idle", "undo", "recover", "replay", "collect", "restore", "untag", "reattach"}
LEMMA Unwritten ==
    ASSUME run'.pc \in Elsewhere
    PROVE  WriteInv'
  BY DEF WriteInv, Applied, Elsewhere

\* The steps that lead to such a place.
LEMMA LeadElsewhere ==
    ASSUME ReleaseInv,
           \/ \E f \in Flows : Begin(f)
           \/ UndoRefused \/ Reset \/ Restore \/ Restored \/ Untag \/ Recover \/ Recovered
           \/ NothingToDo \/ CreateTag \/ TagRefused \/ Reattach \/ Clear \/ Failure
           \/ ReattachFailure \/ Interrupt \/ Kill
    PROVE  run'.pc \in Elsewhere
<1>0. RunTyped /\ PlaceInv
  BY DEF ReleaseInv, ShapeInv
<1>1. CASE \/ \E f \in Flows : Begin(f)
           \/ UndoRefused
  BY <1>1, <1>0, IdleIs, EnteredIs DEF Begin, UndoRefused, PlaceInv, Before, Elsewhere
<1>2. CASE \/ Reset \/ Restore \/ Recover \/ Reattach \/ ReattachFailure
  BY <1>2, <1>0 DEF Reset, Restore, Recover, Reattach, ReattachFailure, Reattaching,
     RunTyped, Runs, Elsewhere
<1>3. CASE \/ Restored \/ Untag \/ CreateTag \/ TagRefused
  BY <1>3, <1>0, ReattachedIs, RollBackIs DEF Restored, Untag, CreateTag, TagRefused,
     RunTyped, Runs, Elsewhere
<1>4. CASE \/ NothingToDo \/ Failure \/ Interrupt \/ Kill
  BY <1>4, <1>0, IdleIs, ErringIs, RollBackIs DEF NothingToDo, Failure, Interrupt, Kill,
     Elsewhere
<1>5. CASE \/ Recovered \/ Clear
  BY <1>5, <1>0, IdleIs, EnteredIs DEF Recovered, Clear, PlaceInv, Before, RunTyped, Runs,
     Elsewhere
<1> QED
  BY <1>1, <1>2, <1>3, <1>4, <1>5

\* What a release comes to stays while HEAD and the intent of its flow do.
LEMMA TargetStays ==
    ASSUME UNCHANGED log, run'.flow = run.flow, stage'[run.flow].bump = stage[run.flow].bump
    PROVE  /\ Target' = Target /\ Bump' = Bump /\ (Publishes' <=> Publishes)
           /\ (Tagging' <=> Tagging) /\ (Ours' <=> Ours)
<1>1. Tip' = Tip
  BY LogStays
<1>2. Bump' = Bump
  BY DEF Bump
<1> QED
  BY <1>1, <1>2 DEF Target, Publishes, Tagging, Ours

\* A release has written what its place says.
LEMMA NextWriteInv ==
    ASSUME ReleaseInv, Next
    PROVE  WriteInv'
<1>0. /\ LogTyped /\ TagsTyped /\ TreeTyped /\ RunTyped /\ FlowsTyped /\ RelTyped /\ PlaceInv
      /\ ShapeInv /\ LogInv /\ WriteInv
      /\ CommitsInv /\ FollowInv /\ OnceInv /\ WorkInv
  BY DEF ReleaseInv, LogInv, ShapeInv
<1>1. ASSUME NEW f \in Flows, NEW bump \in Bumps, Integrate(f, bump)
     PROVE  WriteInv'
  <2> QED
    BY <1>1, Unwritten DEF Integrate, Elsewhere
<1>2. ASSUME NEW f \in Flows, Begin(f)
     PROVE  WriteInv'
  <2> QED
    BY <1>2, LeadElsewhere, Unwritten
<1>3. ASSUME NEW f \in Flows, Approve(f)
     PROVE  WriteInv'
  <2>1. stage'[run.flow].bump = stage[run.flow].bump \/ run.pc = "idle"
    BY <1>3, <1>0 DEF Approve, FlowsTyped, Stages, PlaceInv
  <2>2. CASE run.pc = "idle"
    BY <1>3, <2>2, Unwritten DEF Approve, Elsewhere
  <2>3. CASE run.pc # "idle"
    <3>1. UNCHANGED <<log, tree, run>>
      BY <1>3 DEF Approve
    <3>2. /\ Target' = Target /\ (Publishes' <=> Publishes)
          /\ (Tagging' <=> Tagging) /\ (Ours' <=> Ours)
      BY <3>1, <2>1, <2>3, TargetStays
    <3>3. Tip' = Tip /\ (Released(run.flow)' <=> Released(run.flow)) /\ \A p : At(p)' = At(p)
      BY <3>1, InIs, LogStays
    <3>4. Written' <=> Written
      BY <3>1, <3>2, <3>3 DEF Written
    <3> QED
      BY <3>1, <3>2, <3>3, <3>4, <1>0 DEF WriteInv
  <2> QED
    BY <2>2, <2>3
<1>4. ASSUME NEW f \in Flows, Reject(f)
     PROVE  WriteInv'
  <2>1. stage'[run.flow].bump = stage[run.flow].bump \/ run.pc = "idle"
    BY <1>4, <1>0 DEF Reject, FlowsTyped, Stages, PlaceInv
  <2>2. CASE run.pc = "idle"
    BY <1>4, <2>2, Unwritten DEF Reject, Elsewhere
  <2>3. CASE run.pc # "idle"
    <3>1. UNCHANGED <<log, tree, run>>
      BY <1>4 DEF Reject
    <3>2. /\ Target' = Target /\ (Publishes' <=> Publishes)
          /\ (Tagging' <=> Tagging) /\ (Ours' <=> Ours)
      BY <3>1, <2>1, <2>3, TargetStays
    <3>3. Tip' = Tip /\ (Released(run.flow)' <=> Released(run.flow)) /\ \A p : At(p)' = At(p)
      BY <3>1, InIs, LogStays
    <3>4. Written' <=> Written
      BY <3>1, <3>2, <3>3 DEF Written
    <3> QED
      BY <3>1, <3>2, <3>3, <3>4, <1>0 DEF WriteInv
  <2> QED
    BY <2>2, <2>3
<1>5. ASSUME NEW p \in Owned, Edit(p)
     PROVE  WriteInv'
  <2> QED
    BY <1>5, Unwritten DEF Edit, Elsewhere
<1>6. ASSUME UndoRefused
     PROVE  WriteInv'
  <2> QED
    BY <1>6, LeadElsewhere, Unwritten
<1>7. ASSUME UndoBegins
     PROVE  WriteInv'
  <2>1. UNCHANGED <<log, stage, tree>> /\ run.pc = "undo" /\ Ours
    BY <1>7 DEF UndoBegins
  <2>2. run' = [run EXCEPT !.undoing = TRUE, !.undone = [id |-> Tip.id, tag |-> Tip.tag],
                       !.pc = "detach", !.mem = Captured, !.todo = DOMAIN Captured]
    BY <1>7 DEF UndoBegins, Capture
  <2>3. /\ run'.pc = "detach" /\ run'.undoing = TRUE /\ run'.todo = DOMAIN Captured
        /\ run'.undone = [id |-> Tip.id, tag |-> Tip.tag] /\ run'.flow = run.flow
    BY <2>2, <1>0 DEF RunTyped, Runs
  <2>4. Tip' = Tip /\ (Ours' <=> Ours) /\ \A p : At(p)' = At(p)
    BY <2>1, <2>3, LogStays, TargetStays
  <2>5. \A p \in Owned \ DOMAIN Captured : tree[p] = At(p)
    BY <1>0, CapturedIs
  <2> QED
    BY <2>1, <2>3, <2>4, <2>5 DEF WriteInv, Applied
<1>8. ASSUME Reset
     PROVE  WriteInv'
  <2> QED
    BY <1>8, LeadElsewhere, Unwritten
<1>9. ASSUME Restore
     PROVE  WriteInv'
  <2> QED
    BY <1>9, LeadElsewhere, Unwritten
<1>10. ASSUME Restored
     PROVE  WriteInv'
  <2> QED
    BY <1>10, LeadElsewhere, Unwritten
<1>11. ASSUME Untag
     PROVE  WriteInv'
  <2> QED
    BY <1>11, LeadElsewhere, Unwritten
<1>12. ASSUME Recover
     PROVE  WriteInv'
  <2> QED
    BY <1>12, LeadElsewhere, Unwritten
<1>13. ASSUME Recovered
     PROVE  WriteInv'
  <2> QED
    BY <1>13, LeadElsewhere, Unwritten
<1>14. ASSUME NothingToDo
     PROVE  WriteInv'
  <2> QED
    BY <1>14, LeadElsewhere, Unwritten
<1>15. ASSUME Collect
     PROVE  WriteInv'
  <2>1. UNCHANGED <<log, stage, tree>> /\ run.pc = "collect" /\ ~Released(run.flow)
    BY <1>15 DEF Collect, Outstanding
  <2>2. run' = [run EXCEPT !.pc = "detach", !.mem = Captured, !.todo = DOMAIN Captured]
    BY <1>15 DEF Collect, Capture
  <2>3. /\ run'.pc = "detach" /\ ~run'.undoing /\ run'.todo = DOMAIN Captured
        /\ run'.flow = run.flow
    BY <2>1, <2>2, <1>0 DEF RunTyped, Runs, PlaceInv, Before
  <2>4. (Released(run.flow)' <=> Released(run.flow)) /\ \A p : At(p)' = At(p)
    BY <2>1, <2>3, LogStays, InIs
  <2>5. \A p \in Owned \ DOMAIN Captured : tree[p] = At(p)
    BY <1>0, CapturedIs
  <2> QED
    BY <2>1, <2>3, <2>4, <2>5 DEF WriteInv, Applied
<1>16. ASSUME Derive
     PROVE  WriteInv'
  <2>1. UNCHANGED <<log, stage>> /\ run'.flow = run.flow
    BY <1>16, <1>0 DEF Derive, RunTyped, Runs
  <2>2. /\ Target' = Target /\ (Publishes' <=> Publishes)
        /\ (Tagging' <=> Tagging) /\ (Ours' <=> Ours)
    BY <2>1, TargetStays
  <2>3. Tip' = Tip /\ (Released(run.flow)' <=> Released(run.flow)) /\ \A p : At(p)' = At(p)
        /\ \A g : Released(g)' <=> Released(g)
    BY <2>1, InIs, LogStays
  <2>4. \A p \in Owned : tree[p] = At(p)
    BY <1>16, <1>0 DEF Derive, WriteInv
  <2>5. \A p \in Owned : tree'[p] = tree[p]
    BY <1>16, <1>0, RelIs DEF Derive, TreeTyped
  <2>6. run.flow \in Flows /\ ~Released(run.flow)
    BY <1>16, <1>0 DEF Derive, WriteInv, PlaceInv
  <2>7. VersionAt(tree) = VersionAt(Tip.files)
    BY <2>4, RelIs DEF VersionAt, At
  <2>8. run'.pc = (IF Publishes THEN "version" ELSE "mark") /\ run'.target = Target
    BY <1>16, <2>7, <1>0 DEF Derive, RunTyped, Runs, Target
  <2>9. CASE Publishes
    BY <2>1, <2>2, <2>3, <2>4, <2>5, <2>6, <2>8, <2>9 DEF WriteInv, Applied
  <2>10. CASE ~Publishes
    <3>1. Written'
      BY <2>1, <2>2, <2>3, <2>4, <2>5, <2>10, RelIs DEF Written
    <3> QED
      BY <3>1, <2>1, <2>2, <2>3, <2>6, <2>8, <2>10 DEF WriteInv, Applied
  <2> QED
    BY <2>9, <2>10
<1>17. ASSUME WriteVersion
     PROVE  WriteInv'
  <2>1. UNCHANGED <<log, stage>> /\ run'.flow = run.flow
    BY <1>17, <1>0 DEF WriteVersion, RunTyped, Runs
  <2>2. /\ Target' = Target /\ (Publishes' <=> Publishes)
        /\ (Tagging' <=> Tagging) /\ (Ours' <=> Ours)
    BY <2>1, TargetStays
  <2>3. Tip' = Tip /\ (Released(run.flow)' <=> Released(run.flow)) /\ \A p : At(p)' = At(p)
        /\ \A g : Released(g)' <=> Released(g)
    BY <2>1, InIs, LogStays
  <2>4. /\ run.pc = "version" /\ run.target = Target /\ Publishes /\ ~Released(run.flow)
        /\ tree["version"].edits = {} /\ tree["docs"] = At("docs")
    BY <1>17, <1>0, TipIs, RelIs DEF WriteVersion, WriteInv, Applied, CommitsInv
  <2>5. tree' = [tree EXCEPT !["version"].rel = {Target}]
    BY <1>17, <2>4 DEF WriteVersion
  <2>6. tree'["version"] = [rel |-> {Target}, edits |-> {}] /\ tree'["docs"] = At("docs")
    BY <2>4, <2>5, <1>0, RelIs DEF TreeTyped, Content
  <2>7. run'.pc = "changelog" /\ run'.target = run.target
    BY <1>17, <1>0 DEF WriteVersion, RunTyped, Runs
  <2> QED
    BY <2>1, <2>2, <2>3, <2>4, <2>6, <2>7 DEF WriteInv, Applied
<1>18. ASSUME MergeChangelog
     PROVE  WriteInv'
  <2>1. UNCHANGED <<log, stage>> /\ run'.flow = run.flow
    BY <1>18, <1>0 DEF MergeChangelog, RunTyped, Runs
  <2>2. /\ Target' = Target /\ (Publishes' <=> Publishes)
        /\ (Tagging' <=> Tagging) /\ (Ours' <=> Ours)
    BY <2>1, TargetStays
  <2>3. Tip' = Tip /\ (Released(run.flow)' <=> Released(run.flow)) /\ \A p : At(p)' = At(p)
        /\ \A g : Released(g)' <=> Released(g)
    BY <2>1, InIs, LogStays
  <2>4. /\ run.pc = "changelog" /\ run.target = Target /\ Publishes /\ ~Released(run.flow)
        /\ tree["version"] = [rel |-> {Target}, edits |-> {}] /\ tree["docs"] = At("docs")
    BY <1>18, <1>0 DEF MergeChangelog, WriteInv, Applied
  <2>5. tree' = [tree EXCEPT
                   !["docs"] = [tree["docs"] EXCEPT !.rel = @ \cup {<<run.flow, Target>>}]]
    BY <1>18, <2>4 DEF MergeChangelog
  <2>6. /\ tree'["version"] = tree["version"]
        /\ tree'["docs"] = [At("docs") EXCEPT !.rel = @ \cup {<<run.flow, Target>>}]
    BY <2>4, <2>5, <1>0, RelIs DEF TreeTyped
  <2>7. run'.pc = "mark" /\ run'.target = run.target
    BY <1>18, <1>0 DEF MergeChangelog, RunTyped, Runs
  <2>8. Written'
    BY <2>1, <2>2, <2>3, <2>4, <2>6 DEF Written
  <2> QED
    BY <2>1, <2>2, <2>3, <2>4, <2>7, <2>8 DEF WriteInv, Applied
<1>19. ASSUME MarkConsumed
     PROVE  WriteInv'
  <2>1. UNCHANGED <<log, stage>> /\ run'.flow = run.flow
    BY <1>19, <1>0 DEF MarkConsumed, RunTyped, Runs
  <2>2. /\ Target' = Target /\ (Publishes' <=> Publishes)
        /\ (Tagging' <=> Tagging) /\ (Ours' <=> Ours)
    BY <2>1, TargetStays
  <2>3. Tip' = Tip /\ (Released(run.flow)' <=> Released(run.flow)) /\ \A p : At(p)' = At(p)
        /\ \A g : Released(g)' <=> Released(g)
    BY <2>1, InIs, LogStays
  <2>4. run.pc = "mark" /\ run.target = Target /\ Written /\ ~Released(run.flow)
    BY <1>19, <1>0 DEF MarkConsumed, WriteInv, Applied
  <2>5. tree'["version"] = tree["version"] /\ tree'["docs"] = tree["docs"]
    BY <1>19, <1>0, RelIs DEF MarkConsumed, TreeTyped
  <2>6. run'.pc = "commit" /\ run'.target = run.target
    BY <1>19, <1>0 DEF MarkConsumed, RunTyped, Runs
  <2>7. Written'
    BY <2>1, <2>2, <2>3, <2>4, <2>5 DEF Written
  <2> QED
    BY <2>1, <2>2, <2>3, <2>4, <2>6, <2>7 DEF WriteInv, Applied
<1>20. ASSUME CommitReconcile
     PROVE  WriteInv'
  <2>1. PICK c \in Commits : log' = Append(log, c) /\ c.files = tree
                             /\ c.kind = "release" /\ c.flow = run.flow
                             /\ c.tag = IF Tagging THEN run.target ELSE NoTag
    BY <1>20, <1>0, ReleaseIs
  <2>2. /\ run'.pc = "tag" /\ run'.flow = run.flow /\ run'.target = run.target
        /\ UNCHANGED <<tree, stage>>
    BY <1>20, <1>0 DEF CommitReconcile, RunTyped, Runs
  <2>3. Tip' = c
    BY <2>1, <1>0, AppendIs
  <2>4. (Tagging' <=> Tagging) /\ \A p : At(p)' = tree[p]
    BY <2>1, <2>2, <2>3 DEF Tagging, Bump, At
  <2> QED
    BY <2>1, <2>2, <2>3, <2>4 DEF WriteInv, Applied
<1>21. ASSUME CreateTag
     PROVE  WriteInv'
  <2> QED
    BY <1>21, LeadElsewhere, Unwritten
<1>22. ASSUME TagRefused
     PROVE  WriteInv'
  <2> QED
    BY <1>22, LeadElsewhere, Unwritten
<1>23. ASSUME Detach
     PROVE  WriteInv'
  <2>1. UNCHANGED <<log, stage>> /\ run'.flow = run.flow
    BY <1>23, <1>0 DEF Detach, RunTyped, Runs
  <2>2. /\ Target' = Target /\ (Publishes' <=> Publishes)
        /\ (Tagging' <=> Tagging) /\ (Ours' <=> Ours)
    BY <2>1, TargetStays
  <2>3. Tip' = Tip /\ (Released(run.flow)' <=> Released(run.flow)) /\ \A p : At(p)' = At(p)
        /\ \A g : Released(g)' <=> Released(g)
    BY <2>1, InIs, LogStays
  <2>4. NextOf(run.todo) \in run.todo /\ run.todo \subseteq Owned
    BY <1>23, <1>0, NextOfIs, SnapsIs DEF Detach, RunTyped, Runs, PlaceInv
  <2>5. /\ run.pc = "detach" /\ run'.pc = "detach" /\ run'.undoing = run.undoing
        /\ run'.todo = run.todo \ {NextOf(run.todo)} /\ run'.undone = run.undone
        /\ tree' = [tree EXCEPT ![NextOf(run.todo)] = At(NextOf(run.todo))]
    BY <1>23, <1>0 DEF Detach, RunTyped, Runs
  <2>6. \A p \in Owned \ run'.todo : tree'[p] = At(p)
    BY <2>4, <2>5, <1>0, RelIs DEF WriteInv, TreeTyped
  <2> QED
    BY <2>1, <2>2, <2>3, <2>5, <2>6, <1>0 DEF WriteInv, Applied
<1>24. ASSUME Detached
     PROVE  WriteInv'
  <2>1. UNCHANGED <<log, stage>> /\ run'.flow = run.flow
    BY <1>24, <1>0 DEF Detached, RunTyped, Runs
  <2>2. /\ Target' = Target /\ (Publishes' <=> Publishes)
        /\ (Tagging' <=> Tagging) /\ (Ours' <=> Ours)
    BY <2>1, TargetStays
  <2>3. Tip' = Tip /\ (Released(run.flow)' <=> Released(run.flow)) /\ \A p : At(p)' = At(p)
        /\ \A g : Released(g)' <=> Released(g)
    BY <2>1, InIs, LogStays
  <2>5. /\ run.pc = "detach" /\ run'.pc = (IF run.undoing THEN "reset" ELSE "flags")
        /\ run.todo = {} /\ run'.undoing = run.undoing /\ run'.undone = run.undone
        /\ tree' = tree
    BY <1>24, <1>0 DEF Detached, RunTyped, Runs
  <2>6. \A p \in Owned : tree[p] = At(p)
    BY <2>5, <1>0 DEF WriteInv
  <2>7. run.undoing => Ours /\ run.undone = [id |-> Tip.id, tag |-> Tip.tag]
    BY <2>5, <1>0 DEF WriteInv
  <2>8. ~run.undoing => ~Released(run.flow)
    BY <2>5, <1>0 DEF WriteInv
  <2>9. CASE run.undoing
    BY <2>1, <2>2, <2>3, <2>5, <2>6, <2>7, <2>9 DEF WriteInv, Applied
  <2>10. CASE ~run.undoing
    BY <2>1, <2>2, <2>3, <2>5, <2>6, <2>8, <2>10 DEF WriteInv, Applied
  <2> QED
    BY <2>9, <2>10
<1>25. ASSUME Reattach
     PROVE  WriteInv'
  <2> QED
    BY <1>25, LeadElsewhere, Unwritten
<1>26. ASSUME Clear
     PROVE  WriteInv'
  <2> QED
    BY <1>26, LeadElsewhere, Unwritten
<1>27. ASSUME Failure
     PROVE  WriteInv'
  <2> QED
    BY <1>27, LeadElsewhere, Unwritten
<1>28. ASSUME ReattachFailure
     PROVE  WriteInv'
  <2> QED
    BY <1>28, LeadElsewhere, Unwritten
<1>29. ASSUME Interrupt
     PROVE  WriteInv'
  <2> QED
    BY <1>29, LeadElsewhere, Unwritten
<1>30. ASSUME Kill
     PROVE  WriteInv'
  <2> QED
    BY <1>30, LeadElsewhere, Unwritten
<1> QED
  BY <1>1, <1>2, <1>3, <1>4, <1>5, <1>6, <1>7, <1>8, <1>9, <1>10, <1>11, <1>12,
    <1>13, <1>14, <1>15, <1>16, <1>17, <1>18, <1>19, <1>20, <1>21, <1>22, <1>23,
    <1>24, <1>25, <1>26, <1>27, <1>28, <1>29, <1>30
     DEF Next, Undo, Reconcile, Apply, Trouble

-----------------------------------------------------------------------------
(* The operator's edits.                                                   *)

\* A capture holds every edit of the tree.
LEMMA HeldIs ==
    ASSUME LogTyped, TreeTyped, CommitsInv, NEW p \in Owned
    PROVE  Held(Captured, p) = tree[p].edits /\ At(p).edits = {}
<1>1. At(p).edits = {}
  BY TipIs, RelIs DEF CommitsInv
<1>2. CASE p \in DOMAIN Captured
  BY <1>1, <1>2, CapturedIs DEF Held
<1>3. CASE p \notin DOMAIN Captured
  BY <1>1, <1>3, CapturedIs DEF Held
<1> QED
  BY <1>1, <1>2, <1>3

\* Between the detach and the reattach the tree carries no edit, and during the
\* detach none that is not held.
LEMMA Unclean ==
    ASSUME run'.pc \notin Detached0 \cup {"detach"}
    PROVE  CleanInv'
  BY DEF CleanInv

\* No edit is in the tree while a release writes there.
LEMMA NextCleanInv ==
    ASSUME ReleaseInv, Next
    PROVE  CleanInv'
<1>0. /\ LogTyped /\ TagsTyped /\ TreeTyped /\ RunTyped /\ FlowsTyped /\ RelTyped /\ PlaceInv
      /\ ShapeInv /\ LogInv /\ WriteInv
      /\ CommitsInv /\ FollowInv /\ CleanInv /\ KeepInv /\ OnceInv /\ WorkInv
  BY DEF ReleaseInv, LogInv, EditInv, ShapeInv
<1>1. ASSUME \/ \E f \in Flows, bump \in Bumps : Integrate(f, bump)
             \/ \E f \in Flows : Approve(f)
             \/ \E f \in Flows : Reject(f)
     PROVE  UNCHANGED <<run, tree>>
  BY ONLY <1>1 DEF Integrate, Approve, Reject
<1>2. CASE UNCHANGED <<run, tree>>
  BY <1>2, <1>0 DEF CleanInv
<1>3. ASSUME NEW f \in Flows, Begin(f)
     PROVE  CleanInv'
  <2>1. run'.pc \notin Detached0 \cup {"detach"}
    BY <1>3, <1>0, EnteredIs DEF Begin, Before, Detached0, Applied
  <2> QED
    BY <2>1, Unclean
<1>4. ASSUME NEW p \in Owned, Edit(p)
     PROVE  CleanInv'
  <2>1. run'.pc \notin Detached0 \cup {"detach"}
    BY <1>4, <1>0 DEF Edit, Detached0, Applied
  <2> QED
    BY <2>1, Unclean
<1>5. ASSUME UndoRefused
     PROVE  CleanInv'
  <2>1. run'.pc \notin Detached0 \cup {"detach"}
    BY <1>5, <1>0, EnteredIs, IdleIs DEF UndoRefused, PlaceInv, Before, Detached0, Applied
  <2> QED
    BY <2>1, Unclean
<1>6. ASSUME UndoBegins
     PROVE  CleanInv'
  <2>1. run'.pc = "detach" /\ run'.mem = Captured /\ tree' = tree
    BY <1>6, <1>0 DEF UndoBegins, Capture, RunTyped, Runs
  <2>2. \A p \in Owned : Held(Captured, p) = tree[p].edits
    BY <1>0, HeldIs
  <2> QED
    BY <2>1, <2>2 DEF CleanInv, Detached0, Applied
<1>7. ASSUME Reset
     PROVE  CleanInv'
  <2>1. run.pc \in Detached0 /\ tree' = tree /\ run'.pc \in Detached0 \cup {"reattach"}
    BY <1>7, <1>0 DEF Reset, RunTyped, Runs, Detached0, Applied
  <2> QED
    BY <2>1, <1>0 DEF CleanInv, Detached0, Applied
<1>8. ASSUME Restore
     PROVE  CleanInv'
  <2>1. run.pc = "restore" /\ run'.pc = "restore" /\ NextOf(run.todo) \in Files
        /\ tree' = [tree EXCEPT ![NextOf(run.todo)] = At(NextOf(run.todo))]
    BY <1>8, <1>0, NextOfIs DEF Restore, RunTyped, Runs
  <2>2. \A p \in Owned : tree'[p].edits = {}
    BY <2>1, <1>0, HeldIs, RelIs DEF CleanInv, Detached0, TreeTyped
  <2> QED
    BY <2>1, <2>2 DEF CleanInv
<1>9. ASSUME Restored
     PROVE  CleanInv'
  <2>1. run.pc \in Detached0 /\ tree' = tree /\ run'.pc \in Detached0 \cup {"reattach"}
    BY <1>9, <1>0, ReattachedIs DEF Restored, RunTyped, Runs, Detached0, Applied
  <2> QED
    BY <2>1, <1>0 DEF CleanInv, Detached0, Applied
<1>10. ASSUME Untag
     PROVE  CleanInv'
  <2>1. run'.pc \notin Detached0 \cup {"detach"}
    BY <1>10, <1>0, ReattachedIs DEF Untag, Detached0, Applied
  <2> QED
    BY <2>1, Unclean
<1>11. ASSUME Recover
     PROVE  CleanInv'
  <2>1. run'.pc \notin Detached0 \cup {"detach"}
    BY <1>11, <1>0 DEF Recover, RunTyped, Runs, Detached0, Applied
  <2> QED
    BY <2>1, Unclean
<1>12. ASSUME Recovered
     PROVE  CleanInv'
  <2>1. run'.pc \notin Detached0 \cup {"detach"}
    BY <1>12, <1>0, IdleIs DEF Recovered, RunTyped, Runs, Detached0, Applied
  <2> QED
    BY <2>1, Unclean
<1>13. ASSUME NothingToDo
     PROVE  CleanInv'
  <2>1. run'.pc \notin Detached0 \cup {"detach"}
    BY <1>13, <1>0, IdleIs DEF NothingToDo, Detached0, Applied
  <2> QED
    BY <2>1, Unclean
<1>14. ASSUME Collect
     PROVE  CleanInv'
  <2>1. run'.pc = "detach" /\ run'.mem = Captured /\ tree' = tree
    BY <1>14, <1>0 DEF Collect, Capture, RunTyped, Runs
  <2>2. \A p \in Owned : Held(Captured, p) = tree[p].edits
    BY <1>0, HeldIs
  <2> QED
    BY <2>1, <2>2 DEF CleanInv, Detached0, Applied
<1>15. ASSUME Derive
     PROVE  CleanInv'
  <2>1. run.pc \in Detached0 /\ run'.pc \in Detached0 /\ run'.pc # "detach"
    BY <1>15, <1>0 DEF Derive, RunTyped, Runs, Detached0, Applied
  <2>2. \A p \in Owned : tree'[p].edits = tree[p].edits
    BY <1>15, <1>0, RelIs DEF Derive, TreeTyped, Content
  <2> QED
    BY <2>1, <2>2, <1>0 DEF CleanInv
<1>16. ASSUME WriteVersion
     PROVE  CleanInv'
  <2>1. run.pc \in Detached0 /\ run'.pc \in Detached0 /\ run'.pc # "detach"
    BY <1>16, <1>0 DEF WriteVersion, RunTyped, Runs, Detached0, Applied
  <2>2. \A p \in Owned : tree'[p].edits = tree[p].edits
    BY <1>16, <1>0, RelIs DEF WriteVersion, TreeTyped, Content
  <2> QED
    BY <2>1, <2>2, <1>0 DEF CleanInv
<1>17. ASSUME MergeChangelog
     PROVE  CleanInv'
  <2>1. run.pc \in Detached0 /\ run'.pc \in Detached0 /\ run'.pc # "detach"
    BY <1>17, <1>0 DEF MergeChangelog, RunTyped, Runs, Detached0, Applied
  <2>2. \A p \in Owned : tree'[p].edits = tree[p].edits
    BY <1>17, <1>0, RelIs DEF MergeChangelog, TreeTyped, Content
  <2> QED
    BY <2>1, <2>2, <1>0 DEF CleanInv
<1>18. ASSUME MarkConsumed
     PROVE  CleanInv'
  <2>1. run.pc \in Detached0 /\ run'.pc \in Detached0 /\ run'.pc # "detach"
    BY <1>18, <1>0 DEF MarkConsumed, RunTyped, Runs, Detached0, Applied
  <2>2. \A p \in Owned : tree'[p].edits = tree[p].edits
    BY <1>18, <1>0, RelIs DEF MarkConsumed, TreeTyped, Content
  <2> QED
    BY <2>1, <2>2, <1>0 DEF CleanInv
<1>19. ASSUME CommitReconcile
     PROVE  CleanInv'
  <2>1. run.pc \in Detached0 /\ tree' = tree /\ run'.pc \in Detached0 \cup {"reattach"}
    BY <1>19, <1>0 DEF CommitReconcile, RunTyped, Runs, Detached0, Applied
  <2> QED
    BY <2>1, <1>0 DEF CleanInv, Detached0, Applied
<1>20. ASSUME CreateTag
     PROVE  CleanInv'
  <2>1. run'.pc \notin Detached0 \cup {"detach"}
    BY <1>20, <1>0, ReattachedIs DEF CreateTag, Detached0, Applied
  <2> QED
    BY <2>1, Unclean
<1>21. ASSUME TagRefused
     PROVE  CleanInv'
  <2>1. run.pc \in Detached0 /\ tree' = tree /\ run'.pc \in Detached0 \cup {"reattach"}
    BY <1>21, <1>0, RollBackIs DEF TagRefused, RunTyped, Runs, Detached0, Applied
  <2> QED
    BY <2>1, <1>0 DEF CleanInv, Detached0, Applied
<1>22. ASSUME Detach
     PROVE  CleanInv'
  <2>1. /\ run.pc = "detach" /\ run'.pc = "detach" /\ NextOf(run.todo) \in Files
        /\ run'.mem = run.mem
        /\ tree' = [tree EXCEPT ![NextOf(run.todo)] = At(NextOf(run.todo))]
    BY <1>22, <1>0, NextOfIs DEF Detach, RunTyped, Runs
  <2>2. \A p \in Owned : tree'[p].edits \subseteq Held(run.mem, p)
    BY <2>1, <1>0, HeldIs, RelIs DEF CleanInv, TreeTyped
  <2> QED
    BY <2>1, <2>2 DEF CleanInv, Detached0, Applied
<1>23. ASSUME Detached
     PROVE  CleanInv'
  <2>1. run.pc = "detach" /\ run.todo = {} /\ tree' = tree /\ run'.pc \in Detached0 \ {"detach"}
    BY <1>23, <1>0 DEF Detached, RunTyped, Runs, Detached0, Applied
  <2>2. \A p \in Owned : tree[p].edits = {}
    BY <2>1, <1>0, HeldIs DEF WriteInv
  <2> QED
    BY <2>1, <2>2 DEF CleanInv
<1>24. ASSUME Reattach
     PROVE  CleanInv'
  <2>1. run'.pc \notin Detached0 \cup {"detach"}
    BY <1>24, <1>0 DEF Reattach, Reattaching, RunTyped, Runs, Detached0, Applied
  <2> QED
    BY <2>1, Unclean
<1>25. ASSUME Clear
     PROVE  CleanInv'
  <2>1. run'.pc \notin Detached0 \cup {"detach"}
    BY <1>25, <1>0, IdleIs, EnteredIs DEF Clear, PlaceInv, Before, Detached0, Applied
  <2> QED
    BY <2>1, Unclean
<1>26. ASSUME Failure
     PROVE  CleanInv'
  <2>1. CASE run' = RollBack /\ Applying
    <3>1. run.pc \in Detached0 /\ tree' = tree /\ run'.pc \in Detached0 /\ run'.pc # "detach"
      BY <1>26, <2>1, <1>0, RollBackIs DEF Failure, Applying, Detached0, Applied
    <3> QED
      BY <3>1, <1>0 DEF CleanInv
  <2>2. CASE run' = Erring \/ run' = Idle
    BY <2>2, <1>0, ErringIs, IdleIs, Unclean DEF Detached0, Applied
  <2> QED
    BY <1>26, <2>1, <2>2 DEF Failure
<1>27. ASSUME ReattachFailure
     PROVE  CleanInv'
  <2>1. run'.pc \notin Detached0 \cup {"detach"}
    BY <1>27, <1>0 DEF ReattachFailure, Reattaching, RunTyped, Runs, Detached0, Applied
  <2> QED
    BY <2>1, Unclean
<1>28. ASSUME Interrupt
     PROVE  CleanInv'
  <2>1. run'.pc \notin Detached0 \cup {"detach"}
    BY <1>28, <1>0, ErringIs DEF Interrupt, Detached0, Applied
  <2> QED
    BY <2>1, Unclean
<1>29. ASSUME Kill
     PROVE  CleanInv'
  <2>1. run'.pc \notin Detached0 \cup {"detach"}
    BY <1>29, <1>0, IdleIs DEF Kill, Detached0, Applied
  <2> QED
    BY <2>1, Unclean
<1> QED
  BY <1>1, <1>2, <1>3, <1>4, <1>5, <1>6, <1>7, <1>8, <1>9, <1>10, <1>11, <1>12,
    <1>13, <1>14, <1>15, <1>16, <1>17, <1>18, <1>19, <1>20, <1>21, <1>22, <1>23,
    <1>24, <1>25, <1>26, <1>27, <1>28, <1>29
     DEF Next, Undo, Reconcile, Apply, Trouble

\* An edit is in the tree or in the snapshot on disk.
LEMMA NextKeepInv ==
    ASSUME ReleaseInv, Next
    PROVE  KeepInv'
<1>0. /\ LogTyped /\ TagsTyped /\ TreeTyped /\ RunTyped /\ FlowsTyped /\ RelTyped /\ PlaceInv
      /\ ShapeInv /\ LogInv /\ WriteInv
      /\ CommitsInv /\ FollowInv /\ CleanInv /\ KeepInv /\ OnceInv /\ WorkInv
  BY DEF ReleaseInv, LogInv, EditInv, ShapeInv
<1>1. ASSUME \/ \E f \in Flows, bump \in Bumps : Integrate(f, bump)
             \/ \E f \in Flows : Approve(f)
             \/ \E f \in Flows : Reject(f)
     PROVE  UNCHANGED <<run, tree, saved, edited, ghost>>
  BY ONLY <1>1 DEF Integrate, Approve, Reject
<1>2. CASE UNCHANGED <<run, tree, saved, edited, ghost>>
  BY <1>2, <1>0 DEF KeepInv
<1>3. ASSUME NEW f \in Flows, Begin(f)
     PROVE  KeepInv'
  <2>0. SUFFICES ASSUME ~ghost'.blind PROVE KeepInv'
    BY DEF KeepInv
  <2>1. ~ghost.blind /\ saved' = saved /\ edited' = edited
    BY <1>3, <2>0, <1>0 DEF Begin
  <2>2. tree' = tree /\ run'.pc \in {"idle", "undo", "recover"}
    BY <1>3, <1>0, EnteredIs DEF Begin, Before
  <2> QED
    BY <2>1, <2>2, <1>0 DEF KeepInv, Detached0, Applied
<1>4. ASSUME NEW p \in Owned, Edit(p)
     PROVE  KeepInv'
  <2>0. SUFFICES ASSUME ~ghost'.blind PROVE KeepInv'
    BY DEF KeepInv
  <2>1. ~ghost.blind /\ saved' = saved /\ run' = run /\ run.pc = "idle"
    BY <1>4, <2>0 DEF Edit
  <2>2. \A q \in Owned : edited'[q] \subseteq tree'[q].edits \cup Held(saved, q)
    <3>1. edited' = [edited EXCEPT ![p] = @ \cup {spent'.edits}]
          /\ tree' = [tree EXCEPT ![p].edits = @ \cup {spent'.edits}]
      BY <1>4 DEF Edit
    <3>2. ASSUME NEW q \in Owned
          PROVE  edited'[q] \subseteq tree'[q].edits \cup Held(saved, q)
      <4>1. CASE q = p
        BY <3>1, <4>1, <2>1, <1>0, RelIs DEF KeepInv, FlowsTyped, TreeTyped, Content
      <4>2. CASE q # p
        BY <3>1, <4>2, <2>1, <1>0, RelIs DEF KeepInv, FlowsTyped, TreeTyped, Content
      <4> QED
        BY <4>1, <4>2
    <3> QED
      BY <3>2
  <2> QED
    BY <2>1, <2>2 DEF KeepInv, Detached0, Applied
<1>5. ASSUME UndoRefused
     PROVE  KeepInv'
  <2>0. SUFFICES ASSUME ~ghost'.blind PROVE KeepInv'
    BY DEF KeepInv
  <2>1. ~ghost.blind /\ saved' = saved /\ edited' = edited
    BY <1>5, <2>0, <1>0 DEF UndoRefused
  <2>2. tree' = tree /\ run'.pc \in {"idle", "undo", "recover"}
    BY <1>5, <1>0, EnteredIs, IdleIs DEF UndoRefused, PlaceInv, Before
  <2> QED
    BY <2>1, <2>2, <1>0 DEF KeepInv, Detached0, Applied
<1>6. ASSUME UndoBegins
     PROVE  KeepInv'
  <2>0. SUFFICES ASSUME ~ghost'.blind PROVE KeepInv'
    BY DEF KeepInv
  <2>1. /\ ~ghost.blind /\ edited' = edited /\ tree' = tree
        /\ run'.pc = "detach" /\ run'.mem = Captured
        /\ saved' = (IF DOMAIN Captured = {} THEN saved ELSE Captured)
    BY <1>6, <2>0, <1>0 DEF UndoBegins, Capture, RunTyped, Runs, FlowsTyped
  <2>2. \A p \in Owned : Held(saved, p) = {}
    BY <1>6, <2>0, <1>0 DEF UndoBegins, FlowsTyped, Held
  <2>3. \A p \in Owned : Held(Captured, p) = tree[p].edits
    BY <1>0, HeldIs
  <2>4. \A p \in Owned : Held(saved', p) = Held(Captured, p)
    BY <2>1, <2>2 DEF Held
  <2> QED
    BY <2>1, <2>2, <2>3, <2>4, <1>0 DEF KeepInv, Detached0, Applied
<1>7. ASSUME Reset
     PROVE  KeepInv'
  <2>0. SUFFICES ASSUME ~ghost'.blind PROVE KeepInv'
    BY DEF KeepInv
  <2>1. ~ghost.blind /\ saved' = saved /\ edited' = edited
    BY <1>7, <2>0, <1>0 DEF Reset
  <2>2. /\ tree' = tree /\ run.pc \in Detached0 \cup {"detach"} /\ run'.mem = run.mem
        /\ run'.pc \in Detached0 \/ (run'.pc = "reattach" /\ run'.todo = DOMAIN run.mem)
    BY <1>7, <1>0 DEF Reset, RunTyped, Runs, Detached0, Applied
  <2>3. \A p \in Owned \ DOMAIN run.mem : Held(run.mem, p) = {}
    BY DEF Held
  <2> QED
    BY <2>1, <2>2, <2>3, <1>0 DEF KeepInv, Detached0, Applied
<1>8. ASSUME Restore
     PROVE  KeepInv'
  <2>0. SUFFICES ASSUME ~ghost'.blind PROVE KeepInv'
    BY DEF KeepInv
  <2>1. ~ghost.blind /\ saved' = saved /\ edited' = edited
    BY <1>8, <2>0, <1>0 DEF Restore
  <2>2. run.pc \in Detached0 /\ run'.pc \in Detached0 /\ run'.mem = run.mem
    BY <1>8, <1>0 DEF Restore, RunTyped, Runs, Detached0, Applied
  <2>3. \A p \in Owned : edited[p] \subseteq Held(saved, p)
    BY <2>1, <2>2, <1>0 DEF KeepInv, CleanInv
  <2> QED
    BY <2>1, <2>2, <2>3, <1>0 DEF KeepInv, Detached0, Applied
<1>9. ASSUME Restored
     PROVE  KeepInv'
  <2>0. SUFFICES ASSUME ~ghost'.blind PROVE KeepInv'
    BY DEF KeepInv
  <2>1. ~ghost.blind /\ saved' = saved /\ edited' = edited
    BY <1>9, <2>0, <1>0 DEF Restored
  <2>2. /\ tree' = tree /\ run.pc \in Detached0 \cup {"detach"} /\ run'.mem = run.mem
        /\ run'.pc \in Detached0 \/ (run'.pc = "reattach" /\ run'.todo = DOMAIN run.mem)
    BY <1>9, <1>0, ReattachedIs DEF Restored, RunTyped, Runs, Detached0, Applied
  <2>3. \A p \in Owned \ DOMAIN run.mem : Held(run.mem, p) = {}
    BY DEF Held
  <2> QED
    BY <2>1, <2>2, <2>3, <1>0 DEF KeepInv, Detached0, Applied
<1>10. ASSUME Untag
     PROVE  KeepInv'
  <2>0. SUFFICES ASSUME ~ghost'.blind PROVE KeepInv'
    BY DEF KeepInv
  <2>1. ~ghost.blind /\ saved' = saved /\ edited' = edited
    BY <1>10, <2>0, <1>0 DEF Untag
  <2>2. /\ tree' = tree /\ run.pc \in Detached0 \cup {"detach"} /\ run'.mem = run.mem
        /\ run'.pc \in Detached0 \/ (run'.pc = "reattach" /\ run'.todo = DOMAIN run.mem)
    BY <1>10, <1>0, ReattachedIs DEF Untag, Detached0, Applied
  <2>3. \A p \in Owned \ DOMAIN run.mem : Held(run.mem, p) = {}
    BY DEF Held
  <2> QED
    BY <2>1, <2>2, <2>3, <1>0 DEF KeepInv, Detached0, Applied
<1>11. ASSUME Recover
     PROVE  KeepInv'
  <2>0. SUFFICES ASSUME ~ghost'.blind PROVE KeepInv'
    BY DEF KeepInv
  <2>1. ~ghost.blind /\ saved' = saved /\ edited' = edited
    BY <1>11, <2>0, <1>0 DEF Recover
  <2>2. tree' = tree /\ run'.pc = "replay" /\ run'.todo = DOMAIN saved
    BY <1>11, <1>0 DEF Recover, RunTyped, Runs
  <2>3. \A p \in Owned \ DOMAIN saved : Held(saved, p) = {}
    BY DEF Held
  <2> QED
    BY <2>1, <2>2, <2>3, <1>0 DEF KeepInv, Detached0, Applied
<1>12. ASSUME Recovered
     PROVE  KeepInv'
  <2>0. SUFFICES ASSUME ~ghost'.blind PROVE KeepInv'
    BY DEF KeepInv
  <2>1. /\ ~ghost.blind /\ edited' = edited /\ tree' = tree /\ run.todo = {} /\ saved' = Cleared
        /\ run.pc \in {"replay", "reattach"}
    BY <1>12, <2>0 DEF Recovered
  <2>2. \A p \in Owned : edited[p] \subseteq tree[p].edits \cup Held(saved', p)
    <3>1. CASE run.unplayed
      BY <2>1, <3>1, <1>0 DEF KeepInv, Cleared
    <3>2. CASE ~run.unplayed
      BY <2>1, <3>2, <1>0 DEF KeepInv, Cleared
    <3> QED
      BY <3>1, <3>2
  <2>3. run'.pc \in {"idle", "collect"} /\ (run'.pc = "collect" => saved' = Nothing)
    BY <1>12, <1>0, IdleIs DEF Recovered, Cleared, RunTyped, Runs
  <2> QED
    BY <2>1, <2>2, <2>3, Constants DEF KeepInv, Detached0, Applied
<1>13. ASSUME NothingToDo
     PROVE  KeepInv'
  <2>0. SUFFICES ASSUME ~ghost'.blind PROVE KeepInv'
    BY DEF KeepInv
  <2>1. ~ghost.blind /\ saved' = saved /\ edited' = edited
    BY <1>13, <2>0, <1>0 DEF NothingToDo
  <2>2. tree' = tree /\ run'.pc \in {"idle", "undo", "recover"}
    BY <1>13, <1>0, IdleIs DEF NothingToDo
  <2> QED
    BY <2>1, <2>2, <1>0 DEF KeepInv, Detached0, Applied
<1>14. ASSUME Collect
     PROVE  KeepInv'
  <2>0. SUFFICES ASSUME ~ghost'.blind PROVE KeepInv'
    BY DEF KeepInv
  <2>1. /\ ~ghost.blind /\ edited' = edited /\ tree' = tree
        /\ run'.pc = "detach" /\ run'.mem = Captured
        /\ saved' = (IF DOMAIN Captured = {} THEN saved ELSE Captured)
    BY <1>14, <2>0, <1>0 DEF Collect, Capture, RunTyped, Runs, FlowsTyped
  <2>2. \A p \in Owned : Held(saved, p) = {}
    BY <1>14, <2>1, <1>0 DEF Collect, KeepInv
  <2>3. \A p \in Owned : Held(Captured, p) = tree[p].edits
    BY <1>0, HeldIs
  <2>4. \A p \in Owned : Held(saved', p) = Held(Captured, p)
    BY <2>1, <2>2 DEF Held
  <2> QED
    BY <2>1, <2>2, <2>3, <2>4, <1>0 DEF KeepInv, Detached0, Applied
<1>15. ASSUME Derive
     PROVE  KeepInv'
  <2>0. SUFFICES ASSUME ~ghost'.blind PROVE KeepInv'
    BY DEF KeepInv
  <2>1. ~ghost.blind /\ saved' = saved /\ edited' = edited
    BY <1>15, <2>0, <1>0 DEF Derive
  <2>2. run.pc \in Detached0 /\ run'.pc \in Detached0 /\ run'.mem = run.mem
    BY <1>15, <1>0 DEF Derive, RunTyped, Runs, Detached0, Applied
  <2>3. \A p \in Owned : tree'[p].edits = tree[p].edits
    BY <1>15, <1>0, RelIs DEF Derive, TreeTyped, Content
  <2> QED
    BY <2>1, <2>2, <2>3, <1>0 DEF KeepInv, Detached0, Applied
<1>16. ASSUME WriteVersion
     PROVE  KeepInv'
  <2>0. SUFFICES ASSUME ~ghost'.blind PROVE KeepInv'
    BY DEF KeepInv
  <2>1. ~ghost.blind /\ saved' = saved /\ edited' = edited
    BY <1>16, <2>0, <1>0 DEF WriteVersion
  <2>2. run.pc \in Detached0 /\ run'.pc \in Detached0 /\ run'.mem = run.mem
    BY <1>16, <1>0 DEF WriteVersion, RunTyped, Runs, Detached0, Applied
  <2>3. \A p \in Owned : tree'[p].edits = tree[p].edits
    BY <1>16, <1>0, RelIs DEF WriteVersion, TreeTyped, Content
  <2> QED
    BY <2>1, <2>2, <2>3, <1>0 DEF KeepInv, Detached0, Applied
<1>17. ASSUME MergeChangelog
     PROVE  KeepInv'
  <2>0. SUFFICES ASSUME ~ghost'.blind PROVE KeepInv'
    BY DEF KeepInv
  <2>1. ~ghost.blind /\ saved' = saved /\ edited' = edited
    BY <1>17, <2>0, <1>0 DEF MergeChangelog
  <2>2. run.pc \in Detached0 /\ run'.pc \in Detached0 /\ run'.mem = run.mem
    BY <1>17, <1>0 DEF MergeChangelog, RunTyped, Runs, Detached0, Applied
  <2>3. \A p \in Owned : tree'[p].edits = tree[p].edits
    BY <1>17, <1>0, RelIs DEF MergeChangelog, TreeTyped, Content
  <2> QED
    BY <2>1, <2>2, <2>3, <1>0 DEF KeepInv, Detached0, Applied
<1>18. ASSUME MarkConsumed
     PROVE  KeepInv'
  <2>0. SUFFICES ASSUME ~ghost'.blind PROVE KeepInv'
    BY DEF KeepInv
  <2>1. ~ghost.blind /\ saved' = saved /\ edited' = edited
    BY <1>18, <2>0, <1>0 DEF MarkConsumed
  <2>2. run.pc \in Detached0 /\ run'.pc \in Detached0 /\ run'.mem = run.mem
    BY <1>18, <1>0 DEF MarkConsumed, RunTyped, Runs, Detached0, Applied
  <2>3. \A p \in Owned : tree'[p].edits = tree[p].edits
    BY <1>18, <1>0, RelIs DEF MarkConsumed, TreeTyped, Content
  <2> QED
    BY <2>1, <2>2, <2>3, <1>0 DEF KeepInv, Detached0, Applied
<1>19. ASSUME CommitReconcile
     PROVE  KeepInv'
  <2>0. SUFFICES ASSUME ~ghost'.blind PROVE KeepInv'
    BY DEF KeepInv
  <2>1. ~ghost.blind /\ saved' = saved /\ edited' = edited
    BY <1>19, <2>0, <1>0 DEF CommitReconcile
  <2>2. /\ tree' = tree /\ run.pc \in Detached0 \cup {"detach"} /\ run'.mem = run.mem
        /\ run'.pc \in Detached0 \/ (run'.pc = "reattach" /\ run'.todo = DOMAIN run.mem)
    BY <1>19, <1>0 DEF CommitReconcile, RunTyped, Runs, Detached0, Applied
  <2>3. \A p \in Owned \ DOMAIN run.mem : Held(run.mem, p) = {}
    BY DEF Held
  <2> QED
    BY <2>1, <2>2, <2>3, <1>0 DEF KeepInv, Detached0, Applied
<1>20. ASSUME CreateTag
     PROVE  KeepInv'
  <2>0. SUFFICES ASSUME ~ghost'.blind PROVE KeepInv'
    BY DEF KeepInv
  <2>1. ~ghost.blind /\ saved' = saved /\ edited' = edited
    BY <1>20, <2>0, <1>0 DEF CreateTag
  <2>2. /\ tree' = tree /\ run.pc \in Detached0 \cup {"detach"} /\ run'.mem = run.mem
        /\ run'.pc \in Detached0 \/ (run'.pc = "reattach" /\ run'.todo = DOMAIN run.mem)
    BY <1>20, <1>0, ReattachedIs DEF CreateTag, Detached0, Applied
  <2>3. \A p \in Owned \ DOMAIN run.mem : Held(run.mem, p) = {}
    BY DEF Held
  <2> QED
    BY <2>1, <2>2, <2>3, <1>0 DEF KeepInv, Detached0, Applied
<1>21. ASSUME TagRefused
     PROVE  KeepInv'
  <2>0. SUFFICES ASSUME ~ghost'.blind PROVE KeepInv'
    BY DEF KeepInv
  <2>1. ~ghost.blind /\ saved' = saved /\ edited' = edited
    BY <1>21, <2>0, <1>0 DEF TagRefused
  <2>2. /\ tree' = tree /\ run.pc \in Detached0 \cup {"detach"} /\ run'.mem = run.mem
        /\ run'.pc \in Detached0 \/ (run'.pc = "reattach" /\ run'.todo = DOMAIN run.mem)
    BY <1>21, <1>0, RollBackIs DEF TagRefused, Detached0, Applied
  <2>3. \A p \in Owned \ DOMAIN run.mem : Held(run.mem, p) = {}
    BY DEF Held
  <2> QED
    BY <2>1, <2>2, <2>3, <1>0 DEF KeepInv, Detached0, Applied
<1>22. ASSUME Detach
     PROVE  KeepInv'
  <2>0. SUFFICES ASSUME ~ghost'.blind PROVE KeepInv'
    BY DEF KeepInv
  <2>1. ~ghost.blind /\ saved' = saved /\ edited' = edited
    BY <1>22, <2>0, <1>0 DEF Detach
  <2>2. run.pc = "detach" /\ run'.pc = "detach" /\ run'.mem = run.mem
    BY <1>22, <1>0 DEF Detach, RunTyped, Runs
  <2>3. \A p \in Owned : edited[p] \subseteq Held(saved, p)
    BY <2>1, <2>2, <1>0 DEF KeepInv, CleanInv
  <2> QED
    BY <2>1, <2>2, <2>3, <1>0 DEF KeepInv, Detached0, Applied
<1>23. ASSUME Detached
     PROVE  KeepInv'
  <2>0. SUFFICES ASSUME ~ghost'.blind PROVE KeepInv'
    BY DEF KeepInv
  <2>1. ~ghost.blind /\ saved' = saved /\ edited' = edited
    BY <1>23, <2>0, <1>0 DEF Detached
  <2>2. /\ tree' = tree /\ run.pc \in Detached0 \cup {"detach"} /\ run'.mem = run.mem
        /\ run'.pc \in Detached0 \/ (run'.pc = "reattach" /\ run'.todo = DOMAIN run.mem)
    BY <1>23, <1>0 DEF Detached, RunTyped, Runs, Detached0, Applied
  <2>3. \A p \in Owned \ DOMAIN run.mem : Held(run.mem, p) = {}
    BY DEF Held
  <2> QED
    BY <2>1, <2>2, <2>3, <1>0 DEF KeepInv, Detached0, Applied
<1>24. ASSUME Reattach
     PROVE  KeepInv'
  <2>0. SUFFICES ASSUME ~ghost'.blind PROVE KeepInv'
    BY DEF KeepInv
  <2>1. ~ghost.blind /\ saved' = saved /\ edited' = edited
    BY <1>24, <2>0, <1>0 DEF Reattach
  <2> DEFINE n == NextOf(run.todo)
  <2>2. /\ run.pc \in {"replay", "reattach"} /\ run'.pc = run.pc /\ run'.mem = run.mem
        /\ run'.unplayed = run.unplayed /\ run'.todo = run.todo \ {n}
    BY <1>24, <1>0 DEF Reattach, Reattaching, RunTyped, Runs
  <2>3. /\ n \in DOMAIN Snapshots /\ Snapshots \in Snaps
    BY <1>24, <1>0, NextOfIs DEF Reattach, Reattaching, Snapshots, RunTyped, Runs, PlaceInv
  <2>4. /\ n \in Owned /\ Snapshots[n].head \in Content /\ Snapshots[n].other \in Content
        /\ Snapshots[n].other.edits = Held(Snapshots, n)
    BY <2>3, SnapsIs DEF Held
  <2>5. tree' = [tree EXCEPT ![n] = Merged(@, Snapshots[n])]
    BY <1>24 DEF Reattach
  <2> HIDE DEF n
  <2>6. n \in Files /\ tree[n] \in Content
    BY <2>4, <1>0, RelIs DEF TreeTyped
  <2>7. Merged(tree[n], Snapshots[n]).edits = tree[n].edits \cup Held(Snapshots, n)
    BY <2>4, <2>6, MergedIs
  <2>8. Held(Snapshots, n) = Held(saved, n)
    BY <2>1, <2>2, <2>4, <1>0 DEF KeepInv, Snapshots
  <2>9. /\ tree'[n].edits = tree[n].edits \cup Held(saved, n)
        /\ \A p \in Owned : p # n => tree'[p] = tree[p]
    BY <2>5, <2>6, <2>7, <2>8, <1>0, RelIs DEF TreeTyped
  <2> QED
    BY <2>1, <2>2, <2>9, <1>0 DEF KeepInv, Detached0, Applied
<1>25. ASSUME Clear
     PROVE  KeepInv'
  <2>0. SUFFICES ASSUME ~ghost'.blind PROVE KeepInv'
    BY DEF KeepInv
  <2>1. /\ ~ghost.blind /\ edited' = edited /\ tree' = tree /\ run.todo = {} /\ saved' = Cleared
        /\ run.pc \in {"replay", "reattach"}
    BY <1>25, <2>0 DEF Clear
  <2>2. \A p \in Owned : edited[p] \subseteq tree[p].edits \cup Held(saved', p)
    <3>1. CASE run.unplayed
      BY <2>1, <3>1, <1>0 DEF KeepInv, Cleared
    <3>2. CASE ~run.unplayed
      BY <2>1, <3>2, <1>0 DEF KeepInv, Cleared
    <3> QED
      BY <3>1, <3>2
  <2>3. run'.pc \in {"idle", "recover"}
    BY <1>25, <1>0, IdleIs, EnteredIs DEF Clear, PlaceInv, Before
  <2> QED
    BY <2>1, <2>2, <2>3 DEF KeepInv, Detached0, Applied
<1>26. ASSUME Failure
     PROVE  KeepInv'
  <2>0. SUFFICES ASSUME ~ghost'.blind PROVE KeepInv'
    BY DEF KeepInv
  <2>1. ~ghost.blind /\ saved' = saved /\ edited' = edited
    BY <1>26, <2>0, <1>0 DEF Failure, Troubled, Noted, FlowsTyped
  <2>2. tree' = tree
    BY <1>26 DEF Failure
  <2>3. CASE run' = Idle
    BY <2>1, <2>2, <2>3, <1>0, IdleIs DEF KeepInv, Detached0, Applied
  <2>4. CASE (Applying /\ run' = RollBack) \/ (InTry /\ run' = Erring)
    <3>1. /\ run.pc \in Detached0 \cup {"detach"} /\ run'.mem = run.mem
          /\ run'.pc \in Detached0 \/ (run'.pc = "reattach" /\ run'.todo = DOMAIN run.mem)
      BY <2>4, <1>0, ErringIs, RollBackIs DEF Applying, InTry, Detached0, Applied
    <3>2. \A p \in Owned \ DOMAIN run.mem : Held(run.mem, p) = {}
      BY DEF Held
    <3> QED
      BY <2>1, <2>2, <3>1, <3>2, <1>0 DEF KeepInv, Detached0, Applied
  <2> QED
    BY <1>26, <2>3, <2>4 DEF Failure
<1>27. ASSUME ReattachFailure
     PROVE  KeepInv'
  <2>0. SUFFICES ASSUME ~ghost'.blind PROVE KeepInv'
    BY DEF KeepInv
  <2>1. ~ghost.blind /\ saved' = saved /\ edited' = edited
    BY <1>27, <2>0, <1>0 DEF ReattachFailure, Troubled
  <2>2. /\ tree' = tree /\ run.pc \in {"replay", "reattach"} /\ run'.pc = run.pc
        /\ run'.mem = run.mem /\ run'.unplayed = TRUE
    BY <1>27, <1>0 DEF ReattachFailure, Reattaching, RunTyped, Runs
  <2> QED
    BY <2>1, <2>2, <1>0 DEF KeepInv, Detached0, Applied
<1>28. ASSUME Interrupt
     PROVE  KeepInv'
  <2>0. SUFFICES ASSUME ~ghost'.blind PROVE KeepInv'
    BY DEF KeepInv
  <2>1. ~ghost.blind /\ saved' = saved /\ edited' = edited
    BY <1>28, <2>0, <1>0 DEF Interrupt, Troubled, Noted, FlowsTyped
  <2>2. /\ tree' = tree /\ run.pc \in Detached0 \cup {"detach"} /\ run'.mem = run.mem
        /\ run'.pc \in Detached0 \/ (run'.pc = "reattach" /\ run'.todo = DOMAIN run.mem)
    BY <1>28, <1>0, ErringIs DEF Interrupt, Applying, InTry, Detached0, Applied
  <2>3. \A p \in Owned \ DOMAIN run.mem : Held(run.mem, p) = {}
    BY DEF Held
  <2> QED
    BY <2>1, <2>2, <2>3, <1>0 DEF KeepInv, Detached0, Applied
<1>29. ASSUME Kill
     PROVE  KeepInv'
  <2>0. SUFFICES ASSUME ~ghost'.blind PROVE KeepInv'
    BY DEF KeepInv
  <2>1. ~ghost.blind /\ saved' = saved /\ edited' = edited
    BY <1>29, <2>0, <1>0 DEF Kill, Troubled, Noted, FlowsTyped
  <2>2. tree' = tree /\ run'.pc \in {"idle", "undo", "recover"}
    BY <1>29, <1>0, IdleIs DEF Kill
  <2> QED
    BY <2>1, <2>2, <1>0 DEF KeepInv, Detached0, Applied
<1> QED
  BY <1>1, <1>2, <1>3, <1>4, <1>5, <1>6, <1>7, <1>8, <1>9, <1>10, <1>11, <1>12,
    <1>13, <1>14, <1>15, <1>16, <1>17, <1>18, <1>19, <1>20, <1>21, <1>22, <1>23,
    <1>24, <1>25, <1>26, <1>27, <1>28, <1>29
     DEF Next, Undo, Reconcile, Apply, Trouble

\* The edits, together.
LEMMA NextEditInv ==
    ASSUME ReleaseInv, Next
    PROVE  EditInv'
  BY NextCleanInv, NextKeepInv DEF EditInv

-----------------------------------------------------------------------------
(* What a release leaves behind.                                           *)

\* Where the tree may hold a part of a release.
Half == {"restore", "changelog", "mark", "commit"}
\* The same, as the invariant has it.
LEMMA HalfIs == {"restore"} \cup (Applied \ {"version", "tag"}) = Half
  BY DEF Half, Applied

\* A capture of a tree that holds of releases what HEAD does is even.
LEMMA EvenIs ==
    ASSUME LogTyped, TreeTyped, \A p \in Files : tree[p].rel = At(p).rel
    PROVE  EvenSnaps(Captured) /\ EvenSnaps(Nothing)
<1>1. \A p \in DOMAIN Captured : p \in Files
  BY CapturedIs, RelIs
<1> QED
  BY <1>1, CapturedIs, Constants DEF EvenSnaps

\* A step that leaves the tree and HEAD, from where the tree is whole.
LEMMA Whole ==
    ASSUME UNCHANGED <<log, tree>>, EvenSnaps(saved'), EvenSnaps(run'.mem),
           \/ ghost'.residue
           \/ /\ run'.pc # "restore"
              /\ run'.pc \notin Half => \A p \in Files : tree[p].rel = At(p).rel
           \/ run'.pc = "restore" /\ run'.todo = Files
    PROVE  ResidueInv'
  BY LogStays, HalfIs DEF ResidueInv, EvenSnaps, Half

\* A release that was not cut short leaves nothing of itself in the tree.
LEMMA NextResidueInv ==
    ASSUME ReleaseInv, Next
    PROVE  ResidueInv'
<1>0. /\ LogTyped /\ TagsTyped /\ TreeTyped /\ RunTyped /\ FlowsTyped /\ RelTyped /\ PlaceInv
      /\ ShapeInv /\ LogInv /\ WriteInv
      /\ CommitsInv /\ FollowInv /\ CleanInv /\ KeepInv /\ ResidueInv /\ OnceInv /\ WorkInv
  BY DEF ReleaseInv, LogInv, EditInv, ShapeInv
<1>1. ASSUME \/ \E f \in Flows : Approve(f)
             \/ \E f \in Flows : Reject(f)
     PROVE  UNCHANGED <<log, run, tree, saved, ghost>>
  BY ONLY <1>1 DEF Approve, Reject
<1>2. CASE UNCHANGED <<log, run, tree, saved, ghost>>
  BY <1>2, <1>0, LogStays DEF ResidueInv, EvenSnaps
<1>3. ASSUME NEW f \in Flows, NEW bump \in Bumps, Integrate(f, bump)
     PROVE  ResidueInv'
  <2>0. SUFFICES ASSUME ~ghost'.residue PROVE ResidueInv'
    BY DEF ResidueInv
  <2>1. ~ghost.residue
    BY <1>3, <2>0 DEF Integrate
  <2>2. EvenSnaps(saved') /\ EvenSnaps(run'.mem)
    BY <1>3, <2>1, <1>0 DEF Integrate, ResidueInv
  <2>3. PICK c \in Commits : log' = Append(log, c) /\ c.files = Tip.files
    BY <1>3, <1>0, MergeIs
  <2>4. Tip' = c /\ \A p \in Files : At(p)' = At(p)
    BY <2>3, <1>0, AppendIs, TipIs DEF At
  <2>5. run.pc = "idle" /\ run' = run /\ tree' = tree
    BY <1>3 DEF Integrate
  <2>6. \A p \in Files : tree[p].rel = At(p).rel
    BY <2>1, <2>5, <1>0, HalfIs DEF ResidueInv, Half
  <2> QED
    BY <2>2, <2>4, <2>5, <2>6, HalfIs DEF ResidueInv, EvenSnaps, Half
<1>4. ASSUME NEW f \in Flows, Begin(f)
     PROVE  ResidueInv'
  <2>0. SUFFICES ASSUME ~ghost'.residue PROVE ResidueInv'
    BY DEF ResidueInv
  <2>1. ~ghost.residue /\ UNCHANGED <<log, tree>>
    BY <1>4, <2>0, <1>0 DEF Begin
  <2>2. EvenSnaps(saved') /\ EvenSnaps(run'.mem)
    BY <1>4, <2>1, <1>0, Constants, EnteredIs DEF Begin, ResidueInv, EvenSnaps, Before
  <2>3. run.pc \notin Half /\ run'.pc # "restore"
    BY <1>4, <2>0, <1>0, EnteredIs DEF Begin, Half, Applied, Before
  <2>4. \A p \in Files : tree[p].rel = At(p).rel
    BY <2>1, <2>3, <1>0, HalfIs DEF ResidueInv, Half
  <2> QED
    BY <2>1, <2>2, <2>3, <2>4, Whole DEF Half
<1>5. ASSUME NEW p \in Owned, Edit(p)
     PROVE  ResidueInv'
  <2>0. SUFFICES ASSUME ~ghost'.residue PROVE ResidueInv'
    BY DEF ResidueInv
  <2>1. ~ghost.residue
    BY <1>5, <2>0 DEF Edit
  <2>2. EvenSnaps(saved') /\ EvenSnaps(run'.mem)
    BY <1>5, <2>1, <1>0 DEF Edit, ResidueInv
  <2>3. run.pc = "idle" /\ run' = run /\ \A q : At(q)' = At(q)
    BY <1>5, LogStays DEF Edit
  <2>4. \A q \in Files : tree'[q].rel = tree[q].rel
    BY <1>5, <1>0, RelIs DEF Edit, TreeTyped, Content
  <2>5. \A q \in Files : tree[q].rel = At(q).rel
    BY <2>1, <2>3, <1>0, HalfIs DEF ResidueInv, Half
  <2> QED
    BY <2>2, <2>3, <2>4, <2>5, HalfIs DEF ResidueInv, EvenSnaps, Half
<1>6. ASSUME UndoRefused
     PROVE  ResidueInv'
  <2>0. SUFFICES ASSUME ~ghost'.residue PROVE ResidueInv'
    BY DEF ResidueInv
  <2>1. ~ghost.residue /\ UNCHANGED <<log, tree>>
    BY <1>6, <2>0, <1>0 DEF UndoRefused
  <2>2. EvenSnaps(saved') /\ EvenSnaps(run'.mem)
    BY <1>6, <2>1, <1>0, Constants, EnteredIs, IdleIs DEF UndoRefused, ResidueInv,
       EvenSnaps, PlaceInv, Before
  <2>3. run.pc \notin Half /\ run'.pc # "restore"
    BY <1>6, <2>0, <1>0, EnteredIs, IdleIs DEF UndoRefused, Half, Applied, PlaceInv, Before
  <2>4. \A p \in Files : tree[p].rel = At(p).rel
    BY <2>1, <2>3, <1>0, HalfIs DEF ResidueInv, Half
  <2> QED
    BY <2>1, <2>2, <2>3, <2>4, Whole DEF Half
<1>7. ASSUME UndoBegins
     PROVE  ResidueInv'
  <2>0. SUFFICES ASSUME ~ghost'.residue PROVE ResidueInv'
    BY DEF ResidueInv
  <2>1. ~ghost.residue /\ UNCHANGED <<log, tree>> /\ run.pc \in {"undo", "collect"}
    BY <1>7, <2>0, <1>0 DEF UndoBegins, FlowsTyped
  <2>2. \A p \in Files : tree[p].rel = At(p).rel
    BY <2>1, <1>0, HalfIs DEF ResidueInv, Half
  <2>3. /\ run'.pc = "detach" /\ run'.mem = Captured
        /\ saved' = saved \/ saved' = Captured
    BY <1>7, <1>0 DEF UndoBegins, Capture, RunTyped, Runs
  <2>4. EvenSnaps(saved') /\ EvenSnaps(run'.mem)
    BY <2>1, <2>2, <2>3, <1>0, EvenIs DEF ResidueInv
  <2> QED
    BY <2>1, <2>2, <2>3, <2>4, Whole
<1>8. ASSUME Reset
     PROVE  ResidueInv'
  <2>0. SUFFICES ASSUME ~ghost'.residue PROVE ResidueInv'
    BY DEF ResidueInv
  <2>1. ~ghost.residue
    BY <1>8, <2>0 DEF Reset
  <2>2. EvenSnaps(saved') /\ EvenSnaps(run'.mem)
    BY <1>8, <2>1, <1>0 DEF Reset, ResidueInv, RunTyped, Runs
  <2>3. run'.pc = "restore" /\ run'.todo = Files
    BY <1>8, <1>0 DEF Reset, RunTyped, Runs
  <2> QED
    BY <2>2, <2>3, HalfIs DEF ResidueInv, EvenSnaps, Half
<1>9. ASSUME Restore
     PROVE  ResidueInv'
  <2>0. SUFFICES ASSUME ~ghost'.residue PROVE ResidueInv'
    BY DEF ResidueInv
  <2>1. ~ghost.residue
    BY <1>9, <2>0 DEF Restore
  <2>2. EvenSnaps(saved') /\ EvenSnaps(run'.mem)
    BY <1>9, <2>1, <1>0 DEF Restore, ResidueInv, RunTyped, Runs
  <2>3. /\ run.pc = "restore" /\ run'.pc = "restore" /\ NextOf(run.todo) \in Files
        /\ run'.todo = run.todo \ {NextOf(run.todo)}
        /\ tree' = [tree EXCEPT ![NextOf(run.todo)] = At(NextOf(run.todo))]
        /\ \A q : At(q)' = At(q)
    BY <1>9, <1>0, NextOfIs, LogStays DEF Restore, RunTyped, Runs
  <2>4. \A p \in Files \ run.todo : tree[p].rel = At(p).rel
    BY <2>1, <2>3, <1>0 DEF ResidueInv
  <2>5. \A p \in Files \ run'.todo : tree'[p].rel = At(p).rel
    BY <2>3, <2>4, <1>0 DEF TreeTyped
  <2> QED
    BY <2>2, <2>3, <2>5, HalfIs DEF ResidueInv, EvenSnaps, Half
<1>10. ASSUME Restored
     PROVE  ResidueInv'
  <2>0. SUFFICES ASSUME ~ghost'.residue PROVE ResidueInv'
    BY DEF ResidueInv
  <2>1. ~ghost.residue
    BY <1>10, <2>0 DEF Restored
  <2>2. EvenSnaps(saved') /\ EvenSnaps(run'.mem)
    BY <1>10, <2>1, <1>0, ReattachedIs DEF Restored, ResidueInv, RunTyped, Runs
  <2>3. run.pc = "restore" /\ run.todo = {} /\ UNCHANGED <<log, tree>>
    BY <1>10 DEF Restored
  <2>4. \A p \in Files : tree[p].rel = At(p).rel
    BY <2>1, <2>3, <1>0 DEF ResidueInv
  <2>5. run'.pc # "restore"
    BY <1>10, <1>0, ReattachedIs DEF Restored, RunTyped, Runs
  <2> QED
    BY <2>2, <2>3, <2>4, <2>5, Whole
<1>11. ASSUME Untag
     PROVE  ResidueInv'
  <2>0. SUFFICES ASSUME ~ghost'.residue PROVE ResidueInv'
    BY DEF ResidueInv
  <2>1. ~ghost.residue /\ UNCHANGED <<log, tree>>
    BY <1>11, <2>0, <1>0 DEF Untag
  <2>2. EvenSnaps(saved') /\ EvenSnaps(run'.mem)
    BY <1>11, <2>1, <1>0, Constants, ReattachedIs DEF Untag, ResidueInv, EvenSnaps
  <2>3. run.pc \notin Half /\ run'.pc # "restore"
    BY <1>11, <2>0, <1>0, ReattachedIs DEF Untag, Half, Applied
  <2>4. \A p \in Files : tree[p].rel = At(p).rel
    BY <2>1, <2>3, <1>0, HalfIs DEF ResidueInv, Half
  <2> QED
    BY <2>1, <2>2, <2>3, <2>4, Whole DEF Half
<1>12. ASSUME Recover
     PROVE  ResidueInv'
  <2>0. SUFFICES ASSUME ~ghost'.residue PROVE ResidueInv'
    BY DEF ResidueInv
  <2>1. ~ghost.residue /\ UNCHANGED <<log, tree>>
    BY <1>12, <2>0, <1>0 DEF Recover
  <2>2. EvenSnaps(saved') /\ EvenSnaps(run'.mem)
    BY <1>12, <2>1, <1>0, Constants DEF Recover, ResidueInv, EvenSnaps, RunTyped, Runs
  <2>3. run.pc \notin Half /\ run'.pc # "restore"
    BY <1>12, <2>0, <1>0 DEF Recover, Half, Applied, RunTyped, Runs
  <2>4. \A p \in Files : tree[p].rel = At(p).rel
    BY <2>1, <2>3, <1>0, HalfIs DEF ResidueInv, Half
  <2> QED
    BY <2>1, <2>2, <2>3, <2>4, Whole DEF Half
<1>13. ASSUME Recovered
     PROVE  ResidueInv'
  <2>0. SUFFICES ASSUME ~ghost'.residue PROVE ResidueInv'
    BY DEF ResidueInv
  <2>1. ~ghost.residue /\ UNCHANGED <<log, tree>>
    BY <1>13, <2>0, <1>0 DEF Recovered
  <2>2. EvenSnaps(saved') /\ EvenSnaps(run'.mem)
    BY <1>13, <2>1, <1>0, Constants, IdleIs DEF Recovered, ResidueInv, EvenSnaps, Cleared,
       RunTyped, Runs
  <2>3. run.pc \notin Half /\ run'.pc # "restore"
    BY <1>13, <2>0, <1>0, IdleIs DEF Recovered, Half, Applied, Cleared, RunTyped, Runs
  <2>4. \A p \in Files : tree[p].rel = At(p).rel
    BY <2>1, <2>3, <1>0, HalfIs DEF ResidueInv, Half
  <2> QED
    BY <2>1, <2>2, <2>3, <2>4, Whole DEF Half
<1>14. ASSUME NothingToDo
     PROVE  ResidueInv'
  <2>0. SUFFICES ASSUME ~ghost'.residue PROVE ResidueInv'
    BY DEF ResidueInv
  <2>1. ~ghost.residue /\ UNCHANGED <<log, tree>>
    BY <1>14, <2>0, <1>0 DEF NothingToDo
  <2>2. EvenSnaps(saved') /\ EvenSnaps(run'.mem)
    BY <1>14, <2>1, <1>0, Constants, IdleIs DEF NothingToDo, ResidueInv, EvenSnaps
  <2>3. run.pc \notin Half /\ run'.pc # "restore"
    BY <1>14, <2>0, <1>0, IdleIs DEF NothingToDo, Half, Applied
  <2>4. \A p \in Files : tree[p].rel = At(p).rel
    BY <2>1, <2>3, <1>0, HalfIs DEF ResidueInv, Half
  <2> QED
    BY <2>1, <2>2, <2>3, <2>4, Whole DEF Half
<1>15. ASSUME Collect
     PROVE  ResidueInv'
  <2>0. SUFFICES ASSUME ~ghost'.residue PROVE ResidueInv'
    BY DEF ResidueInv
  <2>1. ~ghost.residue /\ UNCHANGED <<log, tree>> /\ run.pc \in {"undo", "collect"}
    BY <1>15, <2>0, <1>0 DEF Collect, FlowsTyped
  <2>2. \A p \in Files : tree[p].rel = At(p).rel
    BY <2>1, <1>0, HalfIs DEF ResidueInv, Half
  <2>3. /\ run'.pc = "detach" /\ run'.mem = Captured
        /\ saved' = saved \/ saved' = Captured
    BY <1>15, <1>0 DEF Collect, Capture, RunTyped, Runs
  <2>4. EvenSnaps(saved') /\ EvenSnaps(run'.mem)
    BY <2>1, <2>2, <2>3, <1>0, EvenIs DEF ResidueInv
  <2> QED
    BY <2>1, <2>2, <2>3, <2>4, Whole
<1>16. ASSUME Derive
     PROVE  ResidueInv'
  <2>0. SUFFICES ASSUME ~ghost'.residue PROVE ResidueInv'
    BY DEF ResidueInv
  <2>1. ~ghost.residue
    BY <1>16, <2>0 DEF Derive
  <2>2. EvenSnaps(saved') /\ EvenSnaps(run'.mem)
    BY <1>16, <2>1, <1>0 DEF Derive, ResidueInv, RunTyped, Runs
  <2>3. /\ run.pc = "flags" /\ run'.pc # "restore" /\ \A q : At(q)' = At(q)
    BY <1>16, <1>0, LogStays DEF Derive, RunTyped, Runs
  <2>4. \A p \in Files : tree[p].rel = At(p).rel
    BY <2>1, <2>3, <1>0, HalfIs DEF ResidueInv, Half
  <2>5. tree' = tree \/ tree' = [tree EXCEPT !["intents"] = At("intents")]
    BY <1>16 DEF Derive
  <2>6. \A p \in Files : tree'[p].rel = At(p).rel
    BY <2>4, <2>5, <1>0, RelIs DEF TreeTyped
  <2> QED
    BY <2>2, <2>3, <2>6, HalfIs DEF ResidueInv, EvenSnaps, Half
<1>17. ASSUME WriteVersion
     PROVE  ResidueInv'
  <2>0. SUFFICES ASSUME ~ghost'.residue PROVE ResidueInv'
    BY DEF ResidueInv
  <2>1. ~ghost.residue
    BY <1>17, <2>0 DEF WriteVersion
  <2>2. EvenSnaps(saved') /\ EvenSnaps(run'.mem)
    BY <1>17, <2>1, <1>0 DEF WriteVersion, ResidueInv, RunTyped, Runs
  <2>3. run'.pc \in Half \ {"restore"}
    BY <1>17, <1>0 DEF WriteVersion, RunTyped, Runs, Half
  <2> QED
    BY <2>2, <2>3, HalfIs DEF ResidueInv, EvenSnaps, Half
<1>18. ASSUME MergeChangelog
     PROVE  ResidueInv'
  <2>0. SUFFICES ASSUME ~ghost'.residue PROVE ResidueInv'
    BY DEF ResidueInv
  <2>1. ~ghost.residue
    BY <1>18, <2>0 DEF MergeChangelog
  <2>2. EvenSnaps(saved') /\ EvenSnaps(run'.mem)
    BY <1>18, <2>1, <1>0 DEF MergeChangelog, ResidueInv, RunTyped, Runs
  <2>3. run'.pc \in Half \ {"restore"}
    BY <1>18, <1>0 DEF MergeChangelog, RunTyped, Runs, Half
  <2> QED
    BY <2>2, <2>3, HalfIs DEF ResidueInv, EvenSnaps, Half
<1>19. ASSUME MarkConsumed
     PROVE  ResidueInv'
  <2>0. SUFFICES ASSUME ~ghost'.residue PROVE ResidueInv'
    BY DEF ResidueInv
  <2>1. ~ghost.residue
    BY <1>19, <2>0 DEF MarkConsumed
  <2>2. EvenSnaps(saved') /\ EvenSnaps(run'.mem)
    BY <1>19, <2>1, <1>0 DEF MarkConsumed, ResidueInv, RunTyped, Runs
  <2>3. run'.pc \in Half \ {"restore"}
    BY <1>19, <1>0 DEF MarkConsumed, RunTyped, Runs, Half
  <2> QED
    BY <2>2, <2>3, HalfIs DEF ResidueInv, EvenSnaps, Half
<1>20. ASSUME CommitReconcile
     PROVE  ResidueInv'
  <2>0. SUFFICES ASSUME ~ghost'.residue PROVE ResidueInv'
    BY DEF ResidueInv
  <2>1. ~ghost.residue
    BY <1>20, <2>0 DEF CommitReconcile
  <2>2. EvenSnaps(saved') /\ EvenSnaps(run'.mem)
    BY <1>20, <2>1, <1>0 DEF CommitReconcile, ResidueInv, RunTyped, Runs
  <2>3. PICK c \in Commits : log' = Append(log, c) /\ c.files = tree
    BY <1>20, <1>0, ReleaseIs
  <2>4. tree' = tree /\ run'.pc = "tag" /\ Tip' = c
    BY <1>20, <2>3, <1>0, AppendIs DEF CommitReconcile, RunTyped, Runs
  <2>5. \A p \in Files : At(p)' = tree[p]
    BY <2>3, <2>4 DEF At
  <2> QED
    BY <2>2, <2>4, <2>5, HalfIs DEF ResidueInv, EvenSnaps, Half
<1>21. ASSUME CreateTag
     PROVE  ResidueInv'
  <2>0. SUFFICES ASSUME ~ghost'.residue PROVE ResidueInv'
    BY DEF ResidueInv
  <2>1. ~ghost.residue /\ UNCHANGED <<log, tree>>
    BY <1>21, <2>0, <1>0 DEF CreateTag
  <2>2. EvenSnaps(saved') /\ EvenSnaps(run'.mem)
    BY <1>21, <2>1, <1>0, Constants, ReattachedIs DEF CreateTag, ResidueInv, EvenSnaps
  <2>3. run.pc \notin Half /\ run'.pc # "restore"
    BY <1>21, <2>0, <1>0, ReattachedIs DEF CreateTag, Half, Applied
  <2>4. \A p \in Files : tree[p].rel = At(p).rel
    BY <2>1, <2>3, <1>0, HalfIs DEF ResidueInv, Half
  <2> QED
    BY <2>1, <2>2, <2>3, <2>4, Whole DEF Half
<1>22. ASSUME TagRefused
     PROVE  ResidueInv'
  <2>0. SUFFICES ASSUME ~ghost'.residue PROVE ResidueInv'
    BY DEF ResidueInv
  <2>1. ~ghost.residue /\ UNCHANGED <<log, tree, saved>> /\ run' = RollBack
    BY <1>22, <2>0 DEF TagRefused
  <2>2. EvenSnaps(saved') /\ EvenSnaps(run'.mem)
    BY <2>1, <1>0, RollBackIs DEF ResidueInv
  <2> QED
    BY <2>1, <2>2, <1>0, RollBackIs, Whole
<1>23. ASSUME Detach
     PROVE  ResidueInv'
  <2>0. SUFFICES ASSUME ~ghost'.residue PROVE ResidueInv'
    BY DEF ResidueInv
  <2>1. ~ghost.residue
    BY <1>23, <2>0 DEF Detach
  <2>2. EvenSnaps(saved') /\ EvenSnaps(run'.mem)
    BY <1>23, <2>1, <1>0 DEF Detach, ResidueInv, RunTyped, Runs
  <2>3. /\ run.pc = "detach" /\ run'.pc = "detach" /\ NextOf(run.todo) \in Files
        /\ tree' = [tree EXCEPT ![NextOf(run.todo)] = At(NextOf(run.todo))]
        /\ \A q : At(q)' = At(q)
    BY <1>23, <1>0, NextOfIs, LogStays DEF Detach, RunTyped, Runs
  <2>4. \A p \in Files : tree[p].rel = At(p).rel
    BY <2>1, <2>3, <1>0, HalfIs DEF ResidueInv, Half
  <2>5. \A p \in Files : tree'[p].rel = At(p).rel
    BY <2>3, <2>4, <1>0 DEF TreeTyped
  <2> QED
    BY <2>2, <2>3, <2>5, HalfIs DEF ResidueInv, EvenSnaps, Half
<1>24. ASSUME Detached
     PROVE  ResidueInv'
  <2>0. SUFFICES ASSUME ~ghost'.residue PROVE ResidueInv'
    BY DEF ResidueInv
  <2>1. ~ghost.residue /\ UNCHANGED <<log, tree>>
    BY <1>24, <2>0, <1>0 DEF Detached
  <2>2. EvenSnaps(saved') /\ EvenSnaps(run'.mem)
    BY <1>24, <2>1, <1>0, Constants DEF Detached, ResidueInv, EvenSnaps, RunTyped, Runs
  <2>3. run.pc \notin Half /\ run'.pc # "restore"
    BY <1>24, <2>0, <1>0 DEF Detached, Half, Applied, RunTyped, Runs
  <2>4. \A p \in Files : tree[p].rel = At(p).rel
    BY <2>1, <2>3, <1>0, HalfIs DEF ResidueInv, Half
  <2> QED
    BY <2>1, <2>2, <2>3, <2>4, Whole DEF Half
<1>25. ASSUME Reattach
     PROVE  ResidueInv'
  <2>0. SUFFICES ASSUME ~ghost'.residue PROVE ResidueInv'
    BY DEF ResidueInv
  <2>1. ~ghost.residue
    BY <1>25, <2>0 DEF Reattach
  <2>2. EvenSnaps(saved') /\ EvenSnaps(run'.mem)
    BY <1>25, <2>1, <1>0 DEF Reattach, ResidueInv, RunTyped, Runs
  <2> DEFINE n == NextOf(run.todo)
  <2>3. /\ n \in DOMAIN Snapshots /\ Snapshots \in Snaps /\ EvenSnaps(Snapshots)
        /\ run.pc \in {"replay", "reattach"} /\ run'.pc = run.pc
    BY <1>25, <2>1, <1>0, NextOfIs DEF Reattach, Reattaching, Snapshots, RunTyped, Runs,
       PlaceInv,
       ResidueInv
  <2>4. /\ n \in Owned /\ Snapshots[n].head \in Content /\ Snapshots[n].other \in Content
        /\ Snapshots[n].head.rel = Snapshots[n].other.rel
    BY <2>3, SnapsIs DEF EvenSnaps
  <2>5. tree' = [tree EXCEPT ![n] = Merged(@, Snapshots[n])] /\ \A q : At(q)' = At(q)
    BY <1>25, LogStays DEF Reattach
  <2> HIDE DEF n
  <2>6. n \in Files /\ tree[n] \in Content
    BY <2>4, <1>0, RelIs DEF TreeTyped
  <2>7. Merged(tree[n], Snapshots[n]).rel = tree[n].rel
    BY <2>4, <2>6, MergedIs
  <2>8. \A p \in Files : tree'[p].rel = tree[p].rel
    BY <2>5, <2>7, <1>0 DEF TreeTyped
  <2>9. \A p \in Files : tree[p].rel = At(p).rel
    BY <2>1, <2>3, <1>0, HalfIs DEF ResidueInv, Half
  <2> QED
    BY <2>2, <2>3, <2>5, <2>8, <2>9, HalfIs DEF ResidueInv, EvenSnaps, Half
<1>26. ASSUME Clear
     PROVE  ResidueInv'
  <2>0. SUFFICES ASSUME ~ghost'.residue PROVE ResidueInv'
    BY DEF ResidueInv
  <2>1. ~ghost.residue /\ UNCHANGED <<log, tree>>
    BY <1>26, <2>0, <1>0 DEF Clear
  <2>2. EvenSnaps(saved') /\ EvenSnaps(run'.mem)
    BY <1>26, <2>1, <1>0, Constants, IdleIs, EnteredIs DEF Clear, ResidueInv, EvenSnaps,
       Cleared, PlaceInv, Before, RunTyped, Runs
  <2>3. run.pc \notin Half /\ run'.pc # "restore"
    BY <1>26, <2>0, <1>0, IdleIs, EnteredIs DEF Clear, Half, Applied, Cleared, PlaceInv,
       Before, RunTyped, Runs
  <2>4. \A p \in Files : tree[p].rel = At(p).rel
    BY <2>1, <2>3, <1>0, HalfIs DEF ResidueInv, Half
  <2> QED
    BY <2>1, <2>2, <2>3, <2>4, Whole DEF Half
<1>27. ASSUME Failure
     PROVE  ResidueInv'
  <2>0. SUFFICES ASSUME ~ghost'.residue PROVE ResidueInv'
    BY DEF ResidueInv
  <2>1. ~ghost.residue /\ UNCHANGED <<log, tree, saved>>
    BY <1>27, <2>0, <1>0 DEF Failure, Troubled, Noted, FlowsTyped
  <2>2. EvenSnaps(saved') /\ EvenSnaps(run'.mem)
    BY <1>27, <2>1, <1>0, Constants, RollBackIs, ErringIs, IdleIs DEF Failure, ResidueInv,
       EvenSnaps
  <2>3. run.pc # "restore"
    BY <1>27, <2>0, <1>0 DEF Failure, Noted, FlowsTyped
  <2>4. CASE Applying /\ run' = RollBack
    BY <2>1, <2>2, <2>4, <1>0, RollBackIs, Whole
  <2>5. CASE (InTry /\ run' = Erring) \/ (Outside /\ run' = Idle)
    <3>1. run.pc \notin Half /\ run'.pc # "restore"
      BY <2>3, <2>5, <1>0, ErringIs, IdleIs DEF InTry, Outside, Half
    <3>2. \A p \in Files : tree[p].rel = At(p).rel
      BY <2>1, <3>1, <1>0, HalfIs DEF ResidueInv, Half
    <3> QED
      BY <2>1, <2>2, <3>1, <3>2, Whole
  <2> QED
    BY <1>27, <2>4, <2>5 DEF Failure
<1>28. ASSUME ReattachFailure
     PROVE  ResidueInv'
  <2>0. SUFFICES ASSUME ~ghost'.residue PROVE ResidueInv'
    BY DEF ResidueInv
  <2>1. ~ghost.residue /\ UNCHANGED <<log, tree>>
    BY <1>28, <2>0, <1>0 DEF ReattachFailure, Troubled
  <2>2. EvenSnaps(saved') /\ EvenSnaps(run'.mem)
    BY <1>28, <2>1, <1>0, Constants DEF ReattachFailure, ResidueInv, EvenSnaps,
       Reattaching, Troubled, RunTyped, Runs
  <2>3. run.pc \notin Half /\ run'.pc # "restore"
    BY <1>28, <2>0, <1>0 DEF ReattachFailure, Half, Applied, Reattaching, Troubled,
       RunTyped, Runs
  <2>4. \A p \in Files : tree[p].rel = At(p).rel
    BY <2>1, <2>3, <1>0, HalfIs DEF ResidueInv, Half
  <2> QED
    BY <2>1, <2>2, <2>3, <2>4, Whole DEF Half
<1>29. ASSUME Interrupt
     PROVE  ResidueInv'
  <2>0. SUFFICES ASSUME ~ghost'.residue PROVE ResidueInv'
    BY DEF ResidueInv
  <2>1. ~ghost.residue /\ UNCHANGED <<log, tree>>
    BY <1>29, <2>0, <1>0 DEF Interrupt, Troubled, Noted, FlowsTyped
  <2>2. EvenSnaps(saved') /\ EvenSnaps(run'.mem)
    BY <1>29, <2>1, <1>0, Constants, ErringIs DEF Interrupt, ResidueInv, EvenSnaps,
       Troubled, Noted, FlowsTyped, Applying, InTry
  <2>3. run.pc \notin Half /\ run'.pc # "restore"
    BY <1>29, <2>0, <1>0, ErringIs DEF Interrupt, Half, Applied, Troubled, Noted,
       FlowsTyped, Applying, InTry
  <2>4. \A p \in Files : tree[p].rel = At(p).rel
    BY <2>1, <2>3, <1>0, HalfIs DEF ResidueInv, Half
  <2> QED
    BY <2>1, <2>2, <2>3, <2>4, Whole DEF Half
<1>30. ASSUME Kill
     PROVE  ResidueInv'
  <2>0. SUFFICES ASSUME ~ghost'.residue PROVE ResidueInv'
    BY DEF ResidueInv
  <2>1. ~ghost.residue /\ UNCHANGED <<log, tree>>
    BY <1>30, <2>0, <1>0 DEF Kill, Troubled, Noted, FlowsTyped
  <2>2. EvenSnaps(saved') /\ EvenSnaps(run'.mem)
    BY <1>30, <2>1, <1>0, Constants, IdleIs DEF Kill, ResidueInv, EvenSnaps, Troubled,
       Noted, FlowsTyped, Applying
  <2>3. run.pc \notin Half /\ run'.pc # "restore"
    BY <1>30, <2>0, <1>0, IdleIs DEF Kill, Half, Applied, Troubled, Noted, FlowsTyped,
       Applying
  <2>4. \A p \in Files : tree[p].rel = At(p).rel
    BY <2>1, <2>3, <1>0, HalfIs DEF ResidueInv, Half
  <2> QED
    BY <2>1, <2>2, <2>3, <2>4, Whole DEF Half
<1> QED
  BY <1>1, <1>2, <1>3, <1>4, <1>5, <1>6, <1>7, <1>8, <1>9, <1>10, <1>11, <1>12,
    <1>13, <1>14, <1>15, <1>16, <1>17, <1>18, <1>19, <1>20, <1>21, <1>22, <1>23,
    <1>24, <1>25, <1>26, <1>27, <1>28, <1>29, <1>30
     DEF Next, Undo, Reconcile, Apply, Trouble

-----------------------------------------------------------------------------
(* The reviewer's verdict and the tags.                                    *)

\* Without a verdict to honour.
LEMMA NoVerdict ==
    ASSUME VerdictInv, UNCHANGED <<log, stage>>,
           \/ run'.pc \in {"idle", "undo", "detach", "flags", "reset", "version", "changelog",
                           "mark", "commit"}
           \/ run'.pc \in {"restore", "reattach"} /\ run'.error
    PROVE  VerdictInv'
  BY DEF VerdictInv

\* The flow at work and its history.
LEMMA SameVerdict ==
    ASSUME VerdictInv, UNCHANGED <<log, stage>>,
           run'.flow = run.flow, run'.undoing = run.undoing, run'.error = run.error,
           \/ run'.pc = run.pc
           \/ run.pc \in {"recover", "replay", "collect"} /\ run'.pc \in {"replay", "collect"}
           \/ run.pc = "tag" /\ run'.pc = "reattach" /\ ~run.undoing
           \/ run.pc = "restore" /\ run'.pc = "untag" /\ run.undoing /\ ~run.error
           \/ run.pc = "untag" /\ run'.pc = "reattach" /\ run.undoing
    PROVE  VerdictInv'
  BY DEF VerdictInv

\* The verdict is honoured.
LEMMA NextVerdictInv ==
    ASSUME ReleaseInv, Next
    PROVE  VerdictInv'
<1>0. /\ LogTyped /\ TagsTyped /\ TreeTyped /\ RunTyped /\ FlowsTyped /\ RelTyped /\ PlaceInv
      /\ ShapeInv /\ LogInv /\ WriteInv
      /\ CommitsInv /\ FollowInv /\ CleanInv /\ KeepInv /\ ResidueInv /\ VerdictInv /\ TagInv
      /\ OnceInv /\ WorkInv
  BY DEF ReleaseInv, LogInv, EditInv, ShapeInv
<1>1. ASSUME \/ \E p \in Owned : Edit(p)
     PROVE  UNCHANGED <<log, run, stage>>
  BY ONLY <1>1 DEF Edit
<1>2. CASE UNCHANGED <<log, run, stage>>
  BY <1>2, <1>0 DEF VerdictInv
<1>3. ASSUME NEW f \in Flows, NEW bump \in Bumps, Integrate(f, bump)
     PROVE  VerdictInv'
  <2>1. PICK c \in Commits : log' = Append(log, c) /\ c.files = Tip.files
                             /\ c.kind = "merge" /\ c.flow = f /\ c.id # 0 /\ c.id \notin Named
    BY <1>3, <1>0, MergeIs
  <2>2. ASSUME NEW g
        PROVE  (RelIn(log', g) = {} <=> RelIn(log, g) = {}) /\ IdIn(log', g) = IdIn(log, g)
    <3>1. (Released(g)' <=> Released(g)) /\ ReleaseOf(g)' = ReleaseOf(g)
      BY <2>1, <1>0, MergeReleases
    <3> QED
      BY <3>1, InIs
  <2>3. /\ run.pc = "idle" /\ run' = run
        /\ \A g \in Flows : stage'[g].rejected = stage[g].rejected
        /\ \A g \in Flows :
             stage'[g].at \in {"review", "done"} => stage[g].at \in {"review", "done"}
    BY <1>3, <1>0 DEF Integrate, FlowsTyped, Stages
  <2>4. \A g \in Flows : Other(log', stage', g) <=> Other(log, stage, g)
    BY <2>2, <2>3 DEF Other
  <2> QED
    BY <2>2, <2>3, <2>4, <1>0 DEF VerdictInv
<1>4. ASSUME NEW f \in Flows, Begin(f)
     PROVE  VerdictInv'
  <2>1. UNCHANGED <<log, stage>>
    BY <1>4 DEF Begin
  <2>2. CASE stage[f].rejected # 0
    BY <1>4, <2>1, <2>2, <1>0, EnteredIs, NoVerdict DEF Begin, Before
  <2>3. CASE stage[f].rejected = 0
    <3>1. run'.pc = "recover" /\ run'.flow = f
      BY <1>4, <2>3, EnteredIs DEF Begin, Before
    <3>2. Other(log, stage, f)
      BY <2>3, <1>0, InIs, ReleaseOfIs DEF Other, CommitsInv, Releases
    <3> QED
      BY <2>1, <3>1, <3>2, <1>0 DEF VerdictInv
  <2> QED
    BY <2>2, <2>3
<1>5. ASSUME NEW f \in Flows, Approve(f)
     PROVE  VerdictInv'
  <2>1. run.pc # "idle" => run.flow # f
    BY <1>5, <1>0 DEF Approve, PlaceInv, FlowsTyped, Stages
  <2>2. /\ UNCHANGED <<log, run>>
        /\ \A g \in Flows : g # f => stage'[g] = stage[g]
    BY <1>5, <1>0 DEF Approve, FlowsTyped
  <2>3. run.pc # "idle" => run.flow \in Flows
    BY <1>0 DEF PlaceInv
  <2>4. \A g \in Flows : g # f => (Other(log, stage', g) <=> Other(log, stage, g))
    BY <2>2 DEF Other
  <2>5. RelIn(log, f) # {} /\ Other(log, stage', f)
    BY <1>5, <1>0 DEF Approve, VerdictInv, Other, FlowsTyped, Stages
  <2> QED
    BY <2>1, <2>2, <2>3, <2>4, <2>5, <1>0 DEF VerdictInv
<1>6. ASSUME NEW f \in Flows, Reject(f)
     PROVE  VerdictInv'
  <2>1. run.pc # "idle" => run.flow # f
    BY <1>6, <1>0 DEF Reject, PlaceInv, FlowsTyped, Stages
  <2>2. /\ UNCHANGED <<log, run>>
        /\ \A g \in Flows : g # f => stage'[g] = stage[g]
    BY <1>6, <1>0 DEF Reject, FlowsTyped
  <2>3. run.pc # "idle" => run.flow \in Flows
    BY <1>0 DEF PlaceInv
  <2>4. \A g \in Flows : g # f => (Other(log, stage', g) <=> Other(log, stage, g))
    BY <2>2 DEF Other
  <2>5. stage'[f].at = "integrated"
    BY <1>6, <1>0 DEF Reject, FlowsTyped, Stages
  <2> QED
    BY <2>1, <2>2, <2>3, <2>4, <2>5, <1>0 DEF VerdictInv
<1>7. ASSUME UndoRefused
     PROVE  VerdictInv'
  <2>1. UNCHANGED <<log, stage>>
    BY <1>7 DEF UndoRefused
  <2>2. CASE Released(run.flow)
    BY <1>7, <2>1, <2>2, <1>0, IdleIs, NoVerdict DEF UndoRefused
  <2>3. CASE ~Released(run.flow)
    <3>1. run'.pc = "recover" /\ run'.flow = run.flow
      BY <1>7, <2>3, <1>0, EnteredIs DEF UndoRefused, PlaceInv, Before
    <3>2. Other(log, stage, run.flow)
      BY <2>3, InIs DEF Other
    <3> QED
      BY <2>1, <3>1, <3>2, <1>0 DEF VerdictInv
  <2> QED
    BY <2>2, <2>3
<1>8. ASSUME UndoBegins
     PROVE  VerdictInv'
  <2>1. UNCHANGED <<log, stage>>
    BY <1>8 DEF UndoBegins, Troubled
  <2>2. \/ run'.pc \in {"idle", "undo", "detach", "flags", "reset", "version", "changelog",
                      "mark", "commit"}
        \/ run'.pc \in {"restore", "reattach"} /\ run'.error
    BY <1>8, <1>0 DEF UndoBegins, Capture, RunTyped, Runs
  <2> QED
    BY <2>1, <2>2, <1>0, NoVerdict
<1>9. ASSUME Reset
     PROVE  VerdictInv'
  <2>1. log' = Front(log) /\ Tip.kind = "release" /\ Tip.flow = run.flow
    BY <1>9, <1>0 DEF Reset, WriteInv, Ours
  <2>2. /\ stage' = stage /\ run'.pc = "restore" /\ run'.flow = run.flow /\ run.flow \in Flows
        /\ stage[run.flow].at = "integrated"
    BY <1>9, <1>0 DEF Reset, RunTyped, Runs, PlaceInv
  <2>3. ASSUME NEW g \in Flows, g # run.flow
        PROVE  (RelIn(log', g) = {} <=> RelIn(log, g) = {}) /\ IdIn(log', g) = IdIn(log, g)
    <3>1. (Released(g)' <=> Released(g)) /\ ReleaseOf(g)' = ReleaseOf(g)
      BY <2>1, <2>3, <1>0, ResetReleases
    <3> QED
      BY <3>1, InIs
  <2>4. \A g \in Flows : g # run.flow => (Other(log', stage, g) <=> Other(log, stage, g))
    BY <2>3 DEF Other
  <2>5. ASSUME NEW g, g = run.flow
        PROVE  RelIn(log', g) = {}
    <3>1. ~Released(g)'
      BY <2>1, <2>5, <1>0, ResetReleases
    <3> QED
      BY <3>1, InIs
  <2> QED
    BY <2>2, <2>3, <2>4, <2>5, <1>0 DEF VerdictInv
<1>10. ASSUME Restore
     PROVE  VerdictInv'
  <2>1. UNCHANGED <<log, stage>>
    BY <1>10 DEF Restore, Troubled
  <2>2. /\ run'.flow = run.flow /\ run'.undoing = run.undoing /\ run'.error = run.error
        /\ \/ run'.pc = run.pc
           \/ run.pc \in {"recover", "replay", "collect"} /\ run'.pc \in {"replay", "collect"}
           \/ run.pc = "tag" /\ run'.pc = "reattach" /\ ~run.undoing
           \/ run.pc = "restore" /\ run'.pc = "untag" /\ run.undoing /\ ~run.error
           \/ run.pc = "untag" /\ run'.pc = "reattach" /\ run.undoing
    BY <1>10, <1>0 DEF Restore, RunTyped, Runs
  <2> QED
    BY <2>1, <2>2, <1>0, SameVerdict
<1>11. ASSUME Restored
     PROVE  VerdictInv'
  <2>1. CASE run.error
    BY <1>11, <2>1, <1>0, ReattachedIs, NoVerdict DEF Restored
  <2>2. CASE ~run.error
    <3>1. /\ run' = [run EXCEPT !.pc = "untag"]
          /\ UNCHANGED <<log, stage>> /\ run.pc = "restore"
      BY <1>11, <2>2 DEF Restored
    <3> QED
      BY <2>2, <3>1, <1>0, SameVerdict DEF PlaceInv, RunTyped, Runs
  <2> QED
    BY <2>1, <2>2
<1>12. ASSUME Untag
     PROVE  VerdictInv'
  <2>1. UNCHANGED <<log, stage>>
    BY <1>12 DEF Untag, Troubled
  <2>2. /\ run'.flow = run.flow /\ run'.undoing = run.undoing /\ run'.error = run.error
        /\ \/ run'.pc = run.pc
           \/ run.pc \in {"recover", "replay", "collect"} /\ run'.pc \in {"replay", "collect"}
           \/ run.pc = "tag" /\ run'.pc = "reattach" /\ ~run.undoing
           \/ run.pc = "restore" /\ run'.pc = "untag" /\ run.undoing /\ ~run.error
           \/ run.pc = "untag" /\ run'.pc = "reattach" /\ run.undoing
    BY <1>12, <1>0, ReattachedIs DEF Untag, PlaceInv, Applied
  <2> QED
    BY <2>1, <2>2, <1>0, SameVerdict
<1>13. ASSUME Recover
     PROVE  VerdictInv'
  <2>1. UNCHANGED <<log, stage>>
    BY <1>13 DEF Recover, Troubled
  <2>2. /\ run'.flow = run.flow /\ run'.undoing = run.undoing /\ run'.error = run.error
        /\ \/ run'.pc = run.pc
           \/ run.pc \in {"recover", "replay", "collect"} /\ run'.pc \in {"replay", "collect"}
           \/ run.pc = "tag" /\ run'.pc = "reattach" /\ ~run.undoing
           \/ run.pc = "restore" /\ run'.pc = "untag" /\ run.undoing /\ ~run.error
           \/ run.pc = "untag" /\ run'.pc = "reattach" /\ run.undoing
    BY <1>13, <1>0 DEF Recover, RunTyped, Runs
  <2> QED
    BY <2>1, <2>2, <1>0, SameVerdict
<1>14. ASSUME Recovered
     PROVE  VerdictInv'
  <2>1. CASE run.unplayed
    BY <1>14, <2>1, <1>0, IdleIs, NoVerdict DEF Recovered
  <2>2. CASE ~run.unplayed
    <3>1. /\ run' = [run EXCEPT !.pc = "collect"]
          /\ UNCHANGED <<log, stage>> /\ run.pc = "replay"
      BY <1>14, <2>2 DEF Recovered
    <3> QED
      BY <3>1, <1>0, SameVerdict DEF RunTyped, Runs
  <2> QED
    BY <2>1, <2>2
<1>15. ASSUME NothingToDo
     PROVE  VerdictInv'
  <2>1. UNCHANGED log /\ run' = Idle /\ run.flow \in Flows
    BY <1>15, <1>0 DEF NothingToDo, PlaceInv
  <2>2. RelIn(log, run.flow) # {} /\ Other(log, stage, run.flow)
    BY <1>15, <1>0, InIs DEF NothingToDo, Outstanding, VerdictInv
  <2>3. \A g \in Flows : /\ stage'[g].rejected = stage[g].rejected
                         /\ g # run.flow => stage'[g] = stage[g]
    BY <1>15, <1>0 DEF NothingToDo, FlowsTyped, Stages
  <2>4. \A g \in Flows : Other(log, stage', g) <=> Other(log, stage, g)
    BY <2>3 DEF Other
  <2> QED
    BY <2>1, <2>2, <2>3, <2>4, <1>0, IdleIs DEF VerdictInv
<1>16. ASSUME Collect
     PROVE  VerdictInv'
  <2>1. UNCHANGED <<log, stage>>
    BY <1>16 DEF Collect, Troubled
  <2>2. \/ run'.pc \in {"idle", "undo", "detach", "flags", "reset", "version", "changelog",
                      "mark", "commit"}
        \/ run'.pc \in {"restore", "reattach"} /\ run'.error
    BY <1>16, <1>0 DEF Collect, Capture, RunTyped, Runs
  <2> QED
    BY <2>1, <2>2, <1>0, NoVerdict
<1>17. ASSUME Derive
     PROVE  VerdictInv'
  <2>1. UNCHANGED <<log, stage>>
    BY <1>17 DEF Derive, Troubled
  <2>2. \/ run'.pc \in {"idle", "undo", "detach", "flags", "reset", "version", "changelog",
                      "mark", "commit"}
        \/ run'.pc \in {"restore", "reattach"} /\ run'.error
    BY <1>17, <1>0 DEF Derive, RunTyped, Runs
  <2> QED
    BY <2>1, <2>2, <1>0, NoVerdict
<1>18. ASSUME WriteVersion
     PROVE  VerdictInv'
  <2>1. UNCHANGED <<log, stage>>
    BY <1>18 DEF WriteVersion, Troubled
  <2>2. \/ run'.pc \in {"idle", "undo", "detach", "flags", "reset", "version", "changelog",
                      "mark", "commit"}
        \/ run'.pc \in {"restore", "reattach"} /\ run'.error
    BY <1>18, <1>0 DEF WriteVersion, RunTyped, Runs
  <2> QED
    BY <2>1, <2>2, <1>0, NoVerdict
<1>19. ASSUME MergeChangelog
     PROVE  VerdictInv'
  <2>1. UNCHANGED <<log, stage>>
    BY <1>19 DEF MergeChangelog, Troubled
  <2>2. \/ run'.pc \in {"idle", "undo", "detach", "flags", "reset", "version", "changelog",
                      "mark", "commit"}
        \/ run'.pc \in {"restore", "reattach"} /\ run'.error
    BY <1>19, <1>0 DEF MergeChangelog, RunTyped, Runs
  <2> QED
    BY <2>1, <2>2, <1>0, NoVerdict
<1>20. ASSUME MarkConsumed
     PROVE  VerdictInv'
  <2>1. UNCHANGED <<log, stage>>
    BY <1>20 DEF MarkConsumed, Troubled
  <2>2. \/ run'.pc \in {"idle", "undo", "detach", "flags", "reset", "version", "changelog",
                      "mark", "commit"}
        \/ run'.pc \in {"restore", "reattach"} /\ run'.error
    BY <1>20, <1>0 DEF MarkConsumed, RunTyped, Runs
  <2> QED
    BY <2>1, <2>2, <1>0, NoVerdict
<1>21. ASSUME CommitReconcile
     PROVE  VerdictInv'
  <2>1. PICK c \in Commits : log' = Append(log, c) /\ c.files = tree
                             /\ c.kind = "release" /\ c.flow = run.flow
                             /\ c.id # 0 /\ c.id \notin Named
    BY <1>21, <1>0, ReleaseIs
  <2>2. run.pc = "commit" /\ stage' = stage /\ run'.pc = "tag" /\ run'.flow = run.flow
    BY <1>21, <1>0 DEF CommitReconcile, RunTyped, Runs
  <2>3. ~Released(run.flow) /\ run.flow \in Flows /\ stage[run.flow].at = "integrated"
    BY <2>2, <1>0, CommittedTree DEF PlaceInv
  <2>4. ASSUME NEW g \in Flows, g # run.flow
        PROVE  (RelIn(log', g) = {} <=> RelIn(log, g) = {}) /\ IdIn(log', g) = IdIn(log, g)
    <3>1. (Released(g)' <=> Released(g)) /\ ReleaseOf(g)' = ReleaseOf(g)
      BY <2>1, <2>4, <1>0, CommitReleases
    <3> QED
      BY <3>1, InIs
  <2>5. \A g \in Flows : g # run.flow => (Other(log', stage, g) <=> Other(log, stage, g))
    BY <2>4 DEF Other
  <2>6. RelIn(log', run.flow) # {} /\ IdIn(log', run.flow) = c.id
    <3>1. ASSUME NEW g, g = run.flow
          PROVE  RelIn(log', g) # {} /\ IdIn(log', g) = c.id
      <4>1. Released(g)' /\ ReleaseOf(g)' = c.id
        BY <2>1, <2>3, <3>1, <1>0, CommitReleases
      <4> QED
        BY <4>1, InIs
    <3> QED
      BY <3>1
  <2>7. c.id # stage[run.flow].rejected
    BY <2>1, <2>3 DEF Named
  <2>8. Other(log', stage, run.flow)
    BY <2>6, <2>7 DEF Other
  <2> QED
    BY <2>2, <2>3, <2>4, <2>5, <2>6, <2>8, <1>0 DEF VerdictInv
<1>22. ASSUME CreateTag
     PROVE  VerdictInv'
  <2>1. UNCHANGED <<log, stage>>
    BY <1>22 DEF CreateTag, Troubled
  <2>2. /\ run'.flow = run.flow /\ run'.undoing = run.undoing /\ run'.error = run.error
        /\ \/ run'.pc = run.pc
           \/ run.pc \in {"recover", "replay", "collect"} /\ run'.pc \in {"replay", "collect"}
           \/ run.pc = "tag" /\ run'.pc = "reattach" /\ ~run.undoing
           \/ run.pc = "restore" /\ run'.pc = "untag" /\ run.undoing /\ ~run.error
           \/ run.pc = "untag" /\ run'.pc = "reattach" /\ run.undoing
    BY <1>22, <1>0, ReattachedIs DEF CreateTag, PlaceInv, Applied
  <2> QED
    BY <2>1, <2>2, <1>0, SameVerdict
<1>23. ASSUME TagRefused
     PROVE  VerdictInv'
  <2>1. UNCHANGED <<log, stage>>
    BY <1>23 DEF TagRefused, Troubled
  <2>2. \/ run'.pc \in {"idle", "undo", "detach", "flags", "reset", "version", "changelog",
                      "mark", "commit"}
        \/ run'.pc \in {"restore", "reattach"} /\ run'.error
    BY <1>23, <1>0, RollBackIs DEF TagRefused
  <2> QED
    BY <2>1, <2>2, <1>0, NoVerdict
<1>24. ASSUME Detach
     PROVE  VerdictInv'
  <2>1. UNCHANGED <<log, stage>>
    BY <1>24 DEF Detach, Troubled
  <2>2. \/ run'.pc \in {"idle", "undo", "detach", "flags", "reset", "version", "changelog",
                      "mark", "commit"}
        \/ run'.pc \in {"restore", "reattach"} /\ run'.error
    BY <1>24, <1>0 DEF Detach, RunTyped, Runs
  <2> QED
    BY <2>1, <2>2, <1>0, NoVerdict
<1>25. ASSUME Detached
     PROVE  VerdictInv'
  <2>1. UNCHANGED <<log, stage>>
    BY <1>25 DEF Detached, Troubled
  <2>2. \/ run'.pc \in {"idle", "undo", "detach", "flags", "reset", "version", "changelog",
                      "mark", "commit"}
        \/ run'.pc \in {"restore", "reattach"} /\ run'.error
    BY <1>25, <1>0 DEF Detached, RunTyped, Runs
  <2> QED
    BY <2>1, <2>2, <1>0, NoVerdict
<1>26. ASSUME Reattach
     PROVE  VerdictInv'
  <2>1. UNCHANGED <<log, stage>>
    BY <1>26 DEF Reattach, Troubled
  <2>2. /\ run'.flow = run.flow /\ run'.undoing = run.undoing /\ run'.error = run.error
        /\ \/ run'.pc = run.pc
           \/ run.pc \in {"recover", "replay", "collect"} /\ run'.pc \in {"replay", "collect"}
           \/ run.pc = "tag" /\ run'.pc = "reattach" /\ ~run.undoing
           \/ run.pc = "restore" /\ run'.pc = "untag" /\ run.undoing /\ ~run.error
           \/ run.pc = "untag" /\ run'.pc = "reattach" /\ run.undoing
    BY <1>26, <1>0 DEF Reattach, RunTyped, Runs
  <2> QED
    BY <2>1, <2>2, <1>0, SameVerdict
<1>27. ASSUME Clear
     PROVE  VerdictInv'
  <2>1. UNCHANGED log /\ run.pc = "reattach" /\ run.flow \in Flows
    BY <1>27, <1>0 DEF Clear, PlaceInv
  <2>2. CASE run.undoing /\ ~run.error /\ ~run.unplayed
    <3>1. run'.pc = "recover" /\ run'.flow = run.flow /\ stage' = stage
      BY <1>27, <2>1, <2>2, EnteredIs DEF Clear, Before
    <3>2. Other(log, stage, run.flow)
      BY <2>1, <2>2, <1>0 DEF VerdictInv, Other
    <3> QED
      BY <2>1, <3>1, <3>2, <1>0 DEF VerdictInv
  <2>3. CASE ~run.undoing /\ ~run.error /\ ~run.unplayed
    <3>1. run' = Idle /\ stage' = [stage EXCEPT ![run.flow].at = "review"]
      BY <1>27, <2>3 DEF Clear
    <3>2. RelIn(log, run.flow) # {} /\ Other(log, stage, run.flow)
      BY <2>1, <2>3, <1>0 DEF VerdictInv
    <3>3. \A g \in Flows : /\ stage'[g].rejected = stage[g].rejected
                           /\ g # run.flow => stage'[g] = stage[g]
      BY <3>1, <1>0 DEF FlowsTyped, Stages
    <3>4. \A g \in Flows : Other(log, stage', g) <=> Other(log, stage, g)
      BY <3>3 DEF Other
    <3> QED
      BY <2>1, <3>1, <3>2, <3>3, <3>4, <1>0, IdleIs DEF VerdictInv
  <2>4. CASE run.error \/ run.unplayed
    BY <1>27, <2>4, <1>0, IdleIs, NoVerdict DEF Clear
  <2> QED
    BY <2>2, <2>3, <2>4
<1>28. ASSUME Failure
     PROVE  VerdictInv'
  <2>1. UNCHANGED <<log, stage>>
    BY <1>28 DEF Failure, Troubled
  <2>2. \/ run'.pc \in {"idle", "undo", "detach", "flags", "reset", "version", "changelog",
                      "mark", "commit"}
        \/ run'.pc \in {"restore", "reattach"} /\ run'.error
    BY <1>28, <1>0, ErringIs, RollBackIs, IdleIs DEF Failure
  <2> QED
    BY <2>1, <2>2, <1>0, NoVerdict
<1>29. ASSUME ReattachFailure
     PROVE  VerdictInv'
  <2>1. UNCHANGED <<log, stage>>
    BY <1>29 DEF ReattachFailure, Troubled
  <2>2. /\ run'.flow = run.flow /\ run'.undoing = run.undoing /\ run'.error = run.error
        /\ \/ run'.pc = run.pc
           \/ run.pc \in {"recover", "replay", "collect"} /\ run'.pc \in {"replay", "collect"}
           \/ run.pc = "tag" /\ run'.pc = "reattach" /\ ~run.undoing
           \/ run.pc = "restore" /\ run'.pc = "untag" /\ run.undoing /\ ~run.error
           \/ run.pc = "untag" /\ run'.pc = "reattach" /\ run.undoing
    BY <1>29, <1>0 DEF ReattachFailure, RunTyped, Runs
  <2> QED
    BY <2>1, <2>2, <1>0, SameVerdict
<1>30. ASSUME Interrupt
     PROVE  VerdictInv'
  <2>1. UNCHANGED <<log, stage>>
    BY <1>30 DEF Interrupt, Troubled
  <2>2. \/ run'.pc \in {"idle", "undo", "detach", "flags", "reset", "version", "changelog",
                      "mark", "commit"}
        \/ run'.pc \in {"restore", "reattach"} /\ run'.error
    BY <1>30, <1>0, ErringIs DEF Interrupt
  <2> QED
    BY <2>1, <2>2, <1>0, NoVerdict
<1>31. ASSUME Kill
     PROVE  VerdictInv'
  <2>1. UNCHANGED <<log, stage>>
    BY <1>31 DEF Kill, Troubled
  <2>2. \/ run'.pc \in {"idle", "undo", "detach", "flags", "reset", "version", "changelog",
                      "mark", "commit"}
        \/ run'.pc \in {"restore", "reattach"} /\ run'.error
    BY <1>31, <1>0, IdleIs DEF Kill
  <2> QED
    BY <2>1, <2>2, <1>0, NoVerdict
<1> QED
  BY <1>1, <1>2, <1>3, <1>4, <1>5, <1>6, <1>7, <1>8, <1>9, <1>10, <1>11, <1>12,
    <1>13, <1>14, <1>15, <1>16, <1>17, <1>18, <1>19, <1>20, <1>21, <1>22, <1>23,
    <1>24, <1>25, <1>26, <1>27, <1>28, <1>29, <1>30, <1>31
     DEF Next, Undo, Reconcile, Apply, Trouble

\* The tags, where no commit goes and no undo is left.
LEMMA TagsStay ==
    ASSUME TagInv, UNCHANGED tags,
           \A i \in 1 .. Len(log) : i \in 1 .. Len(log') /\ log'[i] = log[i],
           \/ ghost'.torn
           \/ ~ghost.torn /\ ~(run.undoing /\ run.pc \in {"restore", "untag"})
           \/ /\ ~ghost.torn /\ run'.undone = run.undone
              /\ run'.undoing /\ run'.pc \in {"restore", "untag"}
    PROVE  TagInv'
<1>1. ASSUME NEW t \in tags, NEW i \in 1 .. Len(log),
             log[i].id = t.commit /\ log[i].tag = t.version
      PROVE  \E j \in 1 .. Len(log') : log'[j].id = t.commit /\ log'[j].tag = t.version
  BY <1>1
<1> QED
  BY <1>1 DEF TagInv

\* A tag names a release of the history, or one that is being undone.
LEMMA NextTagInv ==
    ASSUME ReleaseInv, Next
    PROVE  TagInv'
<1>0. /\ LogTyped /\ TagsTyped /\ TreeTyped /\ RunTyped /\ FlowsTyped /\ RelTyped /\ PlaceInv
      /\ ShapeInv /\ LogInv /\ WriteInv
      /\ CommitsInv /\ FollowInv /\ CleanInv /\ KeepInv /\ ResidueInv /\ VerdictInv /\ TagInv
      /\ OnceInv /\ WorkInv
  BY DEF ReleaseInv, LogInv, EditInv, ShapeInv
<1>1. ASSUME \/ \E f \in Flows : Approve(f)
             \/ \E f \in Flows : Reject(f)
             \/ \E p \in Owned : Edit(p)
     PROVE  UNCHANGED <<log, tags, run, ghost>>
  BY ONLY <1>1 DEF Approve, Reject, Edit
<1>2. CASE UNCHANGED <<log, tags, run, ghost>>
  BY <1>2, <1>0 DEF TagInv
<1>3. ASSUME NEW f \in Flows, NEW bump \in Bumps, Integrate(f, bump)
     PROVE  TagInv'
  <2>0. PICK c \in Commits : log' = Append(log, c)
    BY <1>3, <1>0, MergeIs
  <2>1. tags' = tags /\ \A i \in 1 .. Len(log) : i \in 1 .. Len(log') /\ log'[i] = log[i]
    BY <1>3, <2>0, <1>0, AppendIs, TipIs DEF Integrate
  <2>2. run.pc = "idle" /\ ghost' = ghost
    BY <1>3 DEF Integrate
  <2> QED
    BY <2>1, <2>2, <1>0, TagsStay
<1>4. ASSUME NEW f \in Flows, Begin(f)
     PROVE  TagInv'
  <2>1. tags' = tags /\ \A i \in 1 .. Len(log) : i \in 1 .. Len(log') /\ log'[i] = log[i]
    BY <1>4 DEF Begin, Troubled
  <2>2. ghost'.torn \/ (~ghost.torn /\ ~(run.undoing /\ run.pc \in {"restore", "untag"}))
    BY <1>4, <1>0 DEF Begin, PlaceInv, Before, Applied
  <2> QED
    BY <2>1, <2>2, <1>0, TagsStay
<1>5. ASSUME UndoRefused
     PROVE  TagInv'
  <2>1. tags' = tags /\ \A i \in 1 .. Len(log) : i \in 1 .. Len(log') /\ log'[i] = log[i]
    BY <1>5 DEF UndoRefused, Troubled
  <2>2. ghost'.torn \/ (~ghost.torn /\ ~(run.undoing /\ run.pc \in {"restore", "untag"}))
    BY <1>5, <1>0 DEF UndoRefused, PlaceInv, Before, Applied
  <2> QED
    BY <2>1, <2>2, <1>0, TagsStay
<1>6. ASSUME UndoBegins
     PROVE  TagInv'
  <2>1. tags' = tags /\ \A i \in 1 .. Len(log) : i \in 1 .. Len(log') /\ log'[i] = log[i]
    BY <1>6 DEF UndoBegins, Troubled
  <2>2. ghost'.torn \/ (~ghost.torn /\ ~(run.undoing /\ run.pc \in {"restore", "untag"}))
    BY <1>6, <1>0 DEF UndoBegins, FlowsTyped
  <2> QED
    BY <2>1, <2>2, <1>0, TagsStay
<1>7. ASSUME Reset
     PROVE  TagInv'
  <2>1. /\ log' = Front(log) /\ Tip.kind = "release"
        /\ run.undone = [id |-> Tip.id, tag |-> Tip.tag]
    BY <1>7, <1>0 DEF Reset, WriteInv, Ours
  <2>2. /\ run.pc = "reset" /\ run'.pc = "restore" /\ run'.undoing /\ run'.undone = run.undone
        /\ tags' = tags /\ ghost' = ghost
    BY <1>7, <1>0 DEF Reset, RunTyped, Runs, PlaceInv
  <2>3. ASSUME NEW t \in tags, ~ghost.torn
        PROVE  \/ \E i \in 1 .. Len(log') : log'[i].id = t.commit /\ log'[i].tag = t.version
               \/ t.commit = run.undone.id /\ t.version = run.undone.tag
    <3>1. PICK i \in 1 .. Len(log) : log[i].id = t.commit /\ log[i].tag = t.version
      BY <2>2, <2>3, <1>0 DEF TagInv
    <3>2. CASE i \in 1 .. Len(log')
      BY <2>1, <3>1, <3>2, <1>0, FrontIs
    <3>3. CASE i = Len(log)
      BY <2>1, <3>1, <3>3, <1>0, TipIs
    <3> QED
      BY <2>1, <3>2, <3>3, <1>0, FrontIs
  <2> QED
    BY <2>2, <2>3 DEF TagInv
<1>8. ASSUME Restore
     PROVE  TagInv'
  <2>1. tags' = tags /\ \A i \in 1 .. Len(log) : i \in 1 .. Len(log') /\ log'[i] = log[i]
    BY <1>8 DEF Restore, Troubled
  <2>2. \/ ghost'.torn
        \/ /\ ~ghost.torn /\ run'.undone = run.undone
           /\ run'.undoing = run.undoing /\ run'.pc \in {"restore", "untag"}
        \/ ~ghost.torn /\ ~run.undoing
    BY <1>8, <1>0 DEF Restore, RunTyped, Runs
  <2> QED
    BY <2>1, <2>2, <1>0, TagsStay
<1>9. ASSUME Restored
     PROVE  TagInv'
  <2>1. /\ tags' = tags /\ ghost' = ghost
        /\ \A i \in 1 .. Len(log) : i \in 1 .. Len(log') /\ log'[i] = log[i]
    BY <1>9 DEF Restored
  <2>2. run.pc = "restore" /\ (run.error <=> ~run.undoing)
    BY <1>9, <1>0 DEF Restored, PlaceInv
  <2>3. run.undoing => run' = [run EXCEPT !.pc = "untag"]
    BY <1>9, <2>2, <1>0 DEF Restored, RunTyped, Runs
  <2>4. run.undoing => run'.undone = run.undone /\ run'.undoing /\ run'.pc = "untag"
    BY <2>3, <1>0 DEF RunTyped, Runs
  <2> QED
    BY <2>1, <2>2, <2>4, <1>0, TagsStay
<1>10. ASSUME Untag
     PROVE  TagInv'
  <2>1. /\ tags' = tags \ {[version |-> run.undone.tag, commit |-> run.undone.id]}
        /\ log' = log /\ ghost' = ghost
    BY <1>10 DEF Untag
  <2>2. ASSUME NEW t \in tags', ~ghost.torn
        PROVE  \E i \in 1 .. Len(log) : log[i].id = t.commit /\ log[i].tag = t.version
    <3>1. t \in tags /\ t = [version |-> t.version, commit |-> t.commit]
      BY <2>1, <1>0 DEF TagsTyped
    <3>2. ~(t.commit = run.undone.id /\ t.version = run.undone.tag)
      BY <2>1, <2>2, <3>1
    <3> QED
      BY <2>2, <3>1, <3>2, <1>0 DEF TagInv
  <2> QED
    BY <2>1, <2>2 DEF TagInv
<1>11. ASSUME Recover
     PROVE  TagInv'
  <2>1. tags' = tags /\ \A i \in 1 .. Len(log) : i \in 1 .. Len(log') /\ log'[i] = log[i]
    BY <1>11 DEF Recover, Troubled
  <2>2. ghost'.torn \/ (~ghost.torn /\ ~(run.undoing /\ run.pc \in {"restore", "untag"}))
    BY <1>11, <1>0 DEF Recover, PlaceInv, Before, Applied
  <2> QED
    BY <2>1, <2>2, <1>0, TagsStay
<1>12. ASSUME Recovered
     PROVE  TagInv'
  <2>1. tags' = tags /\ \A i \in 1 .. Len(log) : i \in 1 .. Len(log') /\ log'[i] = log[i]
    BY <1>12 DEF Recovered, Troubled
  <2>2. ghost'.torn \/ (~ghost.torn /\ ~(run.undoing /\ run.pc \in {"restore", "untag"}))
    BY <1>12, <1>0 DEF Recovered, PlaceInv, Before, Applied
  <2> QED
    BY <2>1, <2>2, <1>0, TagsStay
<1>13. ASSUME NothingToDo
     PROVE  TagInv'
  <2>1. tags' = tags /\ \A i \in 1 .. Len(log) : i \in 1 .. Len(log') /\ log'[i] = log[i]
    BY <1>13 DEF NothingToDo, Troubled
  <2>2. ghost'.torn \/ (~ghost.torn /\ ~(run.undoing /\ run.pc \in {"restore", "untag"}))
    BY <1>13, <1>0 DEF NothingToDo, PlaceInv, Before, Applied
  <2> QED
    BY <2>1, <2>2, <1>0, TagsStay
<1>14. ASSUME Collect
     PROVE  TagInv'
  <2>1. tags' = tags /\ \A i \in 1 .. Len(log) : i \in 1 .. Len(log') /\ log'[i] = log[i]
    BY <1>14 DEF Collect, Troubled
  <2>2. ghost'.torn \/ (~ghost.torn /\ ~(run.undoing /\ run.pc \in {"restore", "untag"}))
    BY <1>14, <1>0 DEF Collect
  <2> QED
    BY <2>1, <2>2, <1>0, TagsStay
<1>15. ASSUME Derive
     PROVE  TagInv'
  <2>1. tags' = tags /\ \A i \in 1 .. Len(log) : i \in 1 .. Len(log') /\ log'[i] = log[i]
    BY <1>15 DEF Derive, Troubled
  <2>2. ghost'.torn \/ (~ghost.torn /\ ~(run.undoing /\ run.pc \in {"restore", "untag"}))
    BY <1>15, <1>0 DEF Derive, PlaceInv, Before, Applied
  <2> QED
    BY <2>1, <2>2, <1>0, TagsStay
<1>16. ASSUME WriteVersion
     PROVE  TagInv'
  <2>1. tags' = tags /\ \A i \in 1 .. Len(log) : i \in 1 .. Len(log') /\ log'[i] = log[i]
    BY <1>16 DEF WriteVersion, Troubled
  <2>2. ghost'.torn \/ (~ghost.torn /\ ~(run.undoing /\ run.pc \in {"restore", "untag"}))
    BY <1>16, <1>0 DEF WriteVersion, PlaceInv, Before, Applied
  <2> QED
    BY <2>1, <2>2, <1>0, TagsStay
<1>17. ASSUME MergeChangelog
     PROVE  TagInv'
  <2>1. tags' = tags /\ \A i \in 1 .. Len(log) : i \in 1 .. Len(log') /\ log'[i] = log[i]
    BY <1>17 DEF MergeChangelog, Troubled
  <2>2. ghost'.torn \/ (~ghost.torn /\ ~(run.undoing /\ run.pc \in {"restore", "untag"}))
    BY <1>17, <1>0 DEF MergeChangelog, PlaceInv, Before, Applied
  <2> QED
    BY <2>1, <2>2, <1>0, TagsStay
<1>18. ASSUME MarkConsumed
     PROVE  TagInv'
  <2>1. tags' = tags /\ \A i \in 1 .. Len(log) : i \in 1 .. Len(log') /\ log'[i] = log[i]
    BY <1>18 DEF MarkConsumed, Troubled
  <2>2. ghost'.torn \/ (~ghost.torn /\ ~(run.undoing /\ run.pc \in {"restore", "untag"}))
    BY <1>18, <1>0 DEF MarkConsumed, PlaceInv, Before, Applied
  <2> QED
    BY <2>1, <2>2, <1>0, TagsStay
<1>19. ASSUME CommitReconcile
     PROVE  TagInv'
  <2>0. PICK c \in Commits : log' = Append(log, c)
    BY <1>19, <1>0, ReleaseIs
  <2>1. tags' = tags /\ \A i \in 1 .. Len(log) : i \in 1 .. Len(log') /\ log'[i] = log[i]
    BY <1>19, <2>0, <1>0, AppendIs, TipIs DEF CommitReconcile
  <2>2. run.pc = "commit" /\ ghost' = ghost
    BY <1>19 DEF CommitReconcile
  <2> QED
    BY <2>1, <2>2, <1>0, TagsStay
<1>20. ASSUME CreateTag
     PROVE  TagInv'
  <2>1. log' = log /\ ghost' = ghost /\ run.pc = "tag"
        /\ tags' = (IF Tagging THEN tags \cup {[version |-> run.target, commit |-> Tip.id]}
                    ELSE tags)
    BY <1>20 DEF CreateTag
  <2>2. Tip.tag = IF Tagging THEN run.target ELSE NoTag
    BY <2>1, <1>0 DEF WriteInv
  <2>3. ASSUME NEW t \in tags', ~ghost.torn
        PROVE  \E i \in 1 .. Len(log) : log[i].id = t.commit /\ log[i].tag = t.version
    <3>1. CASE t \in tags
      BY <2>1, <2>3, <3>1, <1>0 DEF TagInv
    <3>2. CASE t \notin tags
      <4>1. Tagging /\ t = [version |-> run.target, commit |-> Tip.id]
        BY <2>1, <2>3, <3>2
      <4>2. Tip.id = t.commit /\ Tip.tag = t.version
        BY <2>2, <4>1
      <4> QED
        BY <4>2, <1>0, TipIs
    <3> QED
      BY <3>1, <3>2
  <2> QED
    BY <2>1, <2>3 DEF TagInv
<1>21. ASSUME TagRefused
     PROVE  TagInv'
  <2>1. tags' = tags /\ \A i \in 1 .. Len(log) : i \in 1 .. Len(log') /\ log'[i] = log[i]
    BY <1>21 DEF TagRefused, Troubled
  <2>2. ghost'.torn \/ (~ghost.torn /\ ~(run.undoing /\ run.pc \in {"restore", "untag"}))
    BY <1>21, <1>0 DEF TagRefused, PlaceInv, Before, Applied
  <2> QED
    BY <2>1, <2>2, <1>0, TagsStay
<1>22. ASSUME Detach
     PROVE  TagInv'
  <2>1. tags' = tags /\ \A i \in 1 .. Len(log) : i \in 1 .. Len(log') /\ log'[i] = log[i]
    BY <1>22 DEF Detach, Troubled
  <2>2. ghost'.torn \/ (~ghost.torn /\ ~(run.undoing /\ run.pc \in {"restore", "untag"}))
    BY <1>22, <1>0 DEF Detach, PlaceInv, Before, Applied
  <2> QED
    BY <2>1, <2>2, <1>0, TagsStay
<1>23. ASSUME Detached
     PROVE  TagInv'
  <2>1. tags' = tags /\ \A i \in 1 .. Len(log) : i \in 1 .. Len(log') /\ log'[i] = log[i]
    BY <1>23 DEF Detached, Troubled
  <2>2. ghost'.torn \/ (~ghost.torn /\ ~(run.undoing /\ run.pc \in {"restore", "untag"}))
    BY <1>23, <1>0 DEF Detached, PlaceInv, Before, Applied
  <2> QED
    BY <2>1, <2>2, <1>0, TagsStay
<1>24. ASSUME Reattach
     PROVE  TagInv'
  <2>1. tags' = tags /\ \A i \in 1 .. Len(log) : i \in 1 .. Len(log') /\ log'[i] = log[i]
    BY <1>24 DEF Reattach, Troubled
  <2>2. ghost'.torn \/ (~ghost.torn /\ ~(run.undoing /\ run.pc \in {"restore", "untag"}))
    BY <1>24, <1>0 DEF Reattach, Reattaching
  <2> QED
    BY <2>1, <2>2, <1>0, TagsStay
<1>25. ASSUME Clear
     PROVE  TagInv'
  <2>1. tags' = tags /\ \A i \in 1 .. Len(log) : i \in 1 .. Len(log') /\ log'[i] = log[i]
    BY <1>25 DEF Clear, Troubled
  <2>2. ghost'.torn \/ (~ghost.torn /\ ~(run.undoing /\ run.pc \in {"restore", "untag"}))
    BY <1>25, <1>0 DEF Clear, PlaceInv, Before, Applied
  <2> QED
    BY <2>1, <2>2, <1>0, TagsStay
<1>26. ASSUME Failure
     PROVE  TagInv'
  <2>1. tags' = tags /\ \A i \in 1 .. Len(log) : i \in 1 .. Len(log') /\ log'[i] = log[i]
    BY <1>26 DEF Failure, Troubled
  <2>2. ghost'.torn \/ (~ghost.torn /\ ~(run.undoing /\ run.pc \in {"restore", "untag"}))
    BY <1>26, <1>0 DEF Failure, Noted, Torn, FlowsTyped
  <2> QED
    BY <2>1, <2>2, <1>0, TagsStay
<1>27. ASSUME ReattachFailure
     PROVE  TagInv'
  <2>1. tags' = tags /\ \A i \in 1 .. Len(log) : i \in 1 .. Len(log') /\ log'[i] = log[i]
    BY <1>27 DEF ReattachFailure, Troubled
  <2>2. ghost'.torn \/ (~ghost.torn /\ ~(run.undoing /\ run.pc \in {"restore", "untag"}))
    BY <1>27, <1>0 DEF ReattachFailure, Reattaching
  <2> QED
    BY <2>1, <2>2, <1>0, TagsStay
<1>28. ASSUME Interrupt
     PROVE  TagInv'
  <2>1. tags' = tags /\ \A i \in 1 .. Len(log) : i \in 1 .. Len(log') /\ log'[i] = log[i]
    BY <1>28 DEF Interrupt, Troubled
  <2>2. ghost'.torn \/ (~ghost.torn /\ ~(run.undoing /\ run.pc \in {"restore", "untag"}))
    BY <1>28, <1>0 DEF Interrupt, Noted, Torn, FlowsTyped
  <2> QED
    BY <2>1, <2>2, <1>0, TagsStay
<1>29. ASSUME Kill
     PROVE  TagInv'
  <2>1. tags' = tags /\ \A i \in 1 .. Len(log) : i \in 1 .. Len(log') /\ log'[i] = log[i]
    BY <1>29 DEF Kill, Troubled
  <2>2. ghost'.torn \/ (~ghost.torn /\ ~(run.undoing /\ run.pc \in {"restore", "untag"}))
    BY <1>29, <1>0 DEF Kill, Noted, Torn, FlowsTyped
  <2> QED
    BY <2>1, <2>2, <1>0, TagsStay
<1> QED
  BY <1>1, <1>2, <1>3, <1>4, <1>5, <1>6, <1>7, <1>8, <1>9, <1>10, <1>11, <1>12,
    <1>13, <1>14, <1>15, <1>16, <1>17, <1>18, <1>19, <1>20, <1>21, <1>22, <1>23,
    <1>24, <1>25, <1>26, <1>27, <1>28, <1>29
     DEF Next, Undo, Reconcile, Apply, Trouble

-----------------------------------------------------------------------------
(* The invariant holds.                                                    *)

\* The history begins with one commit that names one version.
LEMMA InitReleaseInv ==
    ASSUME Init
    PROVE  ReleaseInv
<1> DEFINE files == [p \in Files |->
                       [rel |-> IF p = "version" THEN {<<1, 0>>} ELSE {}, edits |-> {}]]
           c == [id |-> 1, kind |-> "merge", flow |-> "none", tag |-> NoTag, files |-> files]
<1>1. /\ log = <<c>> /\ tags = {} /\ tree = log[1].files /\ saved = Nothing /\ run = Idle
      /\ stage = [f \in Flows |-> [at |-> "working", bump |-> "none", rejected |-> 0]]
      /\ edited = [p \in Owned |-> {}]
      /\ spent = [troubles |-> 0, edits |-> 0, rejects |-> 0]
      /\ ghost = [blind |-> FALSE, torn |-> FALSE, residue |-> FALSE]
  BY DEF Init
<1>2. /\ files \in [Files -> Content] /\ <<1, 0>> \in Version
      /\ \A p \in Files : files[p].edits = {} /\ files[p].rel \subseteq Rel(p)
      /\ files["version"].rel = {<<1, 0>>}
  BY RelIs DEF Content, AnyRel, Version
<1> HIDE DEF files
<1>3. c \in Commits /\ c.kind = "merge" /\ c.files = files /\ c.id = 1
  BY <1>2, Constants DEF Commits
<1> HIDE DEF c
<1>4. Len(log) = 1 /\ log[1] = c /\ log \in Seq(Commits) /\ log # << >>
  BY <1>1, <1>3
<1>5. tree = files /\ Tip = c /\ \A p \in Files : At(p) = files[p]
  BY <1>1, <1>3, <1>4 DEF Tip, Last, At
<1>6. LogTyped /\ TagsTyped /\ TreeTyped /\ RunTyped
  BY <1>1, <1>2, <1>3, <1>4, <1>5, IdleIs, Constants, RelIs, FS_EmptySet
     DEF LogTyped, TagsTyped, TreeTyped, RunTyped
<1>7. FlowsTyped
  BY <1>1, ReconcileAssumption DEF FlowsTyped, Counts, Stages, Bumps
<1>8. RelTyped
  BY <1>1, <1>2, <1>3, <1>4, <1>5, IdleIs, Constants DEF RelTyped, LogRel, TreeRel, SnapsRel
<1>9. PlaceInv
  BY <1>1, IdleIs DEF PlaceInv, Before, Applied
<1>10. CommitsInv
  BY <1>2, <1>3, <1>4 DEF CommitsInv
<1>11. FollowInv
  BY <1>4 DEF FollowInv
<1>12. OnceInv
  BY <1>4 DEF OnceInv
<1>13. \A f : RelIn(log, f) = {}
  BY <1>3, <1>4 DEF RelIn
<1>14. WorkInv
  BY <1>13, InIs DEF WorkInv
<1>15. WriteInv
  BY <1>1, IdleIs DEF WriteInv, Applied
<1>16. CleanInv /\ KeepInv
  BY <1>1, IdleIs DEF CleanInv, KeepInv, Detached0, Applied
<1>17. ResidueInv
  BY <1>1, <1>5, IdleIs, Constants DEF ResidueInv, EvenSnaps
<1>18. VerdictInv
  BY <1>1, <1>13, IdleIs DEF VerdictInv
<1>19. TagInv
  BY <1>1 DEF TagInv
<1> QED
  BY <1>6, <1>7, <1>8, <1>9, <1>10, <1>11, <1>12, <1>14, <1>15, <1>16, <1>17, <1>18, <1>19
     DEF ReleaseInv, ShapeInv, LogInv, EditInv

\* A step that changes nothing.
LEMMA StutterReleaseInv ==
    ASSUME ReleaseInv, UNCHANGED vars
    PROVE  ReleaseInv'
<1>0. UNCHANGED <<log, tags, tree, saved, run, stage, edited, spent, ghost>>
  BY DEF vars
<1>1. /\ Tip' = Tip /\ Bump' = Bump /\ (Tagging' <=> Tagging) /\ (Publishes' <=> Publishes)
      /\ Target' = Target /\ (Ours' <=> Ours) /\ (Released(run.flow)' <=> Released(run.flow))
      /\ \A p : At(p)' = At(p)
  BY <1>0, LogStays, TargetStays, InIs
<1>2. /\ LogTyped /\ TagsTyped /\ TreeTyped /\ RunTyped /\ FlowsTyped /\ RelTyped /\ PlaceInv
      /\ CommitsInv /\ FollowInv /\ OnceInv /\ WorkInv /\ WriteInv /\ CleanInv /\ KeepInv
      /\ ResidueInv /\ VerdictInv /\ TagInv
  BY DEF ReleaseInv, ShapeInv, LogInv, EditInv
<1>3. LogTyped' /\ TagsTyped' /\ TreeTyped' /\ RunTyped'
  BY <1>0, <1>2 DEF LogTyped, TagsTyped, TreeTyped, RunTyped
<1>4. FlowsTyped' /\ PlaceInv'
  BY <1>0, <1>2 DEF FlowsTyped, PlaceInv
<1>5. RelTyped'
  BY <1>0, <1>2 DEF RelTyped, LogRel, TreeRel, SnapsRel
<1>6. CommitsInv' /\ OnceInv'
  BY <1>0, <1>2 DEF CommitsInv, OnceInv
<1>7. FollowInv'
  BY <1>0, <1>2 DEF FollowInv, BumpOf
<1>8. WorkInv'
  BY <1>0, <1>2, LogStays DEF WorkInv
<1>9. Written' <=> Written
  BY <1>0, <1>1 DEF Written
<1>10. WriteInv'
  BY <1>0, <1>1, <1>2, <1>9 DEF WriteInv
<1>11. CleanInv' /\ KeepInv'
  BY <1>0, <1>2 DEF CleanInv, KeepInv
<1>12. ResidueInv'
  BY <1>0, <1>1, <1>2 DEF ResidueInv, EvenSnaps
<1>13. VerdictInv' /\ TagInv'
  BY <1>0, <1>2 DEF VerdictInv, TagInv
<1> QED
  BY <1>3, <1>4, <1>5, <1>6, <1>7, <1>8, <1>10, <1>11, <1>12, <1>13
     DEF ReleaseInv, ShapeInv, LogInv, EditInv

\* What the process does at the release point keeps the invariant, whatever the
\* operator edits and wherever it fails.
THEOREM ReleaseInvariant == Spec => []ReleaseInv
<1>1. Init => ReleaseInv
  BY InitReleaseInv
<1>2. ReleaseInv /\ [Next]_vars => ReleaseInv'
  <2>1. ASSUME ReleaseInv, Next
        PROVE  ReleaseInv'
    BY <2>1, NextShapeInv, NextLogInv, NextWriteInv, NextEditInv, NextResidueInv,
       NextVerdictInv, NextTagInv DEF ReleaseInv
  <2> QED
    BY <2>1, StutterReleaseInv
<1> QED
  BY <1>1, <1>2, PTL DEF Spec

-----------------------------------------------------------------------------
(* What it means.                                                          *)

\* TypeOK: snapshots are of the operator's files only, and HEAD names one version.
THEOREM TypeCorrect == Spec => []TypeOK
<1>1. ReleaseInv => TypeOK
  <2> SUFFICES ASSUME ReleaseInv PROVE TypeOK
    OBVIOUS
  <2>0. /\ LogTyped /\ TagsTyped /\ TreeTyped /\ RunTyped /\ FlowsTyped /\ RelTyped /\ PlaceInv
        /\ CommitsInv
    BY DEF ReleaseInv, ShapeInv, LogInv
  <2>1. ASSUME NEW i \in 1 .. Len(log)
        PROVE  /\ log[i].id \in Nat /\ log[i].kind \in {"merge", "release"}
               /\ log[i].flow \in Flows \cup {"none"} /\ log[i].tag \in Version
               /\ \A p \in Files : IsContent(p, log[i].files[p])
    <3>1. log[i] \in Commits
      BY <2>0 DEF LogTyped
    <3>2. \A p \in Files : log[i].files[p] \in Content /\ log[i].files[p].rel \subseteq Rel(p)
      BY <3>1, <2>0 DEF Commits, RelTyped, LogRel
    <3> QED
      BY <3>1, <3>2 DEF Commits, Content, IsContent
  <2>2. \A p \in Files : IsContent(p, tree[p])
    BY <2>0 DEF IsContent, TreeTyped, Content, RelTyped, TreeRel
  <2>3. Cardinality(At("version").rel) = 1
    <3>1. PICK v : At("version").rel = {v}
      BY <2>0, TipIs, RelIs DEF CommitsInv
    <3> QED
      BY <3>1, FS_Singleton
  <2>4. ASSUME NEW s \in Snaps, SnapsRel(s)
        PROVE  AreSnapshots(s)
    BY <2>4, SnapsIs DEF AreSnapshots, IsContent, SnapsRel, Content
  <2>5. AreSnapshots(saved) /\ AreSnapshots(run.mem)
    BY <2>0, <2>4 DEF RunTyped, Runs, RelTyped
  <2>6. /\ run.flow \in Flows \cup {"none"} /\ run.todo \subseteq Files
        /\ tags \subseteq [version : Version, commit : Nat] /\ tree["intents"].edits = {}
    BY <2>0 DEF RunTyped, Runs, TagsTyped, TreeTyped
  <2>7. /\ stage \in [Flows -> [at : {"working", "integrated", "review", "done"},
                                bump : Bumps, rejected : Nat]]
        /\ spent.troubles <= MaxTroubles /\ spent.edits <= MaxEdits
        /\ spent.rejects <= MaxRejects
    BY <2>0, ReconcileAssumption DEF FlowsTyped, Counts, Stages
  <2> QED
    BY <2>1, <2>2, <2>3, <2>5, <2>6, <2>7 DEF TypeOK
<1> QED
  BY <1>1, ReleaseInvariant, PTL

\* ReleasesFollow: a release advances the version of the commit it lands on by its
\* flow's own bump, once, and carries no edit of the operator.
THEOREM ReleasesAdvance == Spec => []ReleasesFollow
<1>1. ReleaseInv => ReleasesFollow
  <2> SUFFICES ASSUME ReleaseInv PROVE ReleasesFollow
    OBVIOUS
  <2>0. LogTyped /\ FollowInv /\ OnceInv
    BY DEF ReleaseInv, ShapeInv, LogInv
  <2>1. ASSUME NEW f \in Flows
        PROVE  Cardinality(Releases(f)) <= 1
    <3>1. CASE Releases(f) = {}
      BY <3>1, FS_EmptySet
    <3>2. CASE Releases(f) # {}
      <4>1. PICK i \in Releases(f) : TRUE
        BY <3>2
      <4>2. \A j \in Releases(f) : j = i
        BY <4>1, <2>0 DEF Releases, OnceInv
      <4>3. Releases(f) = {i}
        BY <4>1, <4>2
      <4>4. Cardinality(Releases(f)) = 1
        BY <4>3, FS_Singleton
      <4> QED
        BY <4>4
    <3> QED
      BY <3>1, <3>2
  <2>2. \A i \in 2 .. Len(log) : Follows(BumpOf(log[i]), log[i - 1], log[i])
    BY <2>0 DEF FollowInv
  <2> QED
    BY <2>1, <2>2 DEF ReleasesFollow, Follows, BumpOf
<1> QED
  BY <1>1, ReleaseInvariant, PTL

\* EditsKept: an edit of the operator is in the tree or in a snapshot, and a step that
\* failed without being cut short leaves nothing of a release in the tree.
THEOREM EditsStay == Spec => []EditsKept
<1>1. ReleaseInv => EditsKept
  <2> SUFFICES ASSUME ReleaseInv PROVE EditsKept
    OBVIOUS
  <2>0. KeepInv /\ ResidueInv
    BY DEF ReleaseInv, EditInv
  <2>1. ~ghost.blind => EditsSurvive
    BY <2>0 DEF KeepInv, EditsSurvive
  <2>2. run.pc = "idle" /\ ~ghost.residue => \A p \in Files : tree[p].rel = At(p).rel
    BY <2>0 DEF ResidueInv, Applied
  <2> QED
    BY <2>1, <2>2 DEF EditsKept
<1> QED
  BY <1>1, ReleaseInvariant, PTL

\* VerdictHonoured: a flow whose step is over is released, by another commit than the
\* one that was rejected, and tags name releases of the history.
THEOREM VerdictStands == Spec => []VerdictHonoured
<1>1. ReleaseInv => VerdictHonoured
  <2> SUFFICES ASSUME ReleaseInv PROVE VerdictHonoured
    OBVIOUS
  <2>0. VerdictInv /\ TagInv
    BY DEF ReleaseInv
  <2>1. ASSUME NEW f \in Flows, stage[f].at \in {"review", "done"}
        PROVE  Released(f) /\ ReleaseOf(f) # stage[f].rejected
    BY <2>0, <2>1, InIs DEF VerdictInv, Other
  <2>2. ~ghost.torn =>
          \A t \in tags : t.commit # run.undone.id =>
            \E i \in 1 .. Len(log) : log[i].id = t.commit /\ log[i].tag = t.version
    BY <2>0 DEF TagInv
  <2> QED
    BY <2>1, <2>2 DEF VerdictHonoured
<1> QED
  BY <1>1, ReleaseInvariant, PTL
=============================================================================
