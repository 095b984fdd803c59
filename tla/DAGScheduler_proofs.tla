------------------------- MODULE DAGScheduler_proofs -------------------------
(***************************************************************************)
(* Proofs about DAGScheduler for any set of groups, any acyclic graphs,    *)
(* any group order, number of workers, stops and interrupts.               *)
(***************************************************************************)
EXTENDS DAGScheduler, FiniteSetTheorems, SequenceTheorems, WellFoundedInduction, TLAPS

\* The submission loop's local state: one record for each nested run of it.
Frame == [todo : SUBSET Groups, gid : Groups \cup {NoGroup},
          at : {"submit", "launch", "callback"}]

\* The submission loops: whoever holds the lock runs them; what they have left
\* to submit was claimed once; only the innermost is in the middle of a group.
Held ==
    /\ lock = "free" <=> frames = <<>>
    /\ \A g \in Groups : lock = g <=> future[g] = "calling"
Claimed ==
    \A i \in 1 .. Len(frames) : \A g \in frames[i].todo :
       g \in running /\ future[g] = "none"
ClaimedOnce ==
    \A i, j \in 1 .. Len(frames) : i # j => frames[i].todo \cap frames[j].todo = {}
Midway ==
    \A i \in 1 .. Len(frames) : frames[i].at # "submit" =>
       /\ i = Len(frames)
       /\ frames[i].gid \in running \ callback
       /\ future[frames[i].gid] # "none"
       /\ frames[i].at = "callback" => frames[i].gid \in launched

LoopInv == Held /\ Claimed /\ ClaimedOnce /\ Midway

\* The scheduler's sets against the pool: a group is pending, claimed or out;
\* a registered callback has its group in `running` until it runs.
SetsInv ==
    /\ scenario \in Scenarios
    /\ pending \cup running \cup skipped \subseteq DOMAIN deps
    /\ pending \cap (running \cup skipped) = {} /\ running \cap skipped = {}
    /\ callback \subseteq launched
    /\ \A g \in Groups :
         /\ future[g] # "none" => g \in DOMAIN deps
         /\ g \in pending => future[g] = "none"
         /\ g \in pending \cup running => completed[g] = "none"
         /\ g \in running => future[g] # "calling" /\ ~(future[g] = "finished" /\ g \in callback)
         /\ completed[g] # "none" =>
              future[g] \in {"calling", "finished"} /\ completed[g] = outcome[g]
         /\ g \in callback => future[g] # "none"
         /\ g \in callback /\ future[g] \in {"queued", "executing"} => g \in running
         /\ future[g] = "done" => g \in callback /\ g \in running
         /\ interrupts = 0 /\ future[g] \in {"queued", "executing"} => g \in running

\* A claimed group has every dependency completed, and nothing pending has one
\* that ended otherwise.
DepsInv ==
    /\ \A g \in DOMAIN deps :
         /\ g \in running \/ future[g] # "none" =>
              \A d \in deps[g] : completed[d] = "completed"
         /\ g \in pending => \A d \in deps[g] : completed[d] \in {"none", "completed"}
         /\ g \in pending \cup running \cup skipped \/ future[g] # "none"

\* How often a group ran, by the life of its future.
RanInv ==
    \A g \in Groups :
        /\ future[g] \in {"none", "queued"} => ran[g] = 0 /\ outcome[g] = "none"
        /\ future[g] = "executing" => ran[g] = 1 /\ outcome[g] = "none"
        /\ future[g] \in {"done", "calling", "finished"} =>
             /\ outcome[g] # "none"
             /\ ran[g] = IF outcome[g] = "skipped" THEN 0 ELSE 1
        /\ interrupts = 0 /\ g \in skipped => ran[g] = 0 /\ completed[g] = "none"

\* g's worktree was handed on to the group that relays it.
HandedOn(g) == \E x \in DOMAIN deps : wt[x] # NoGroup /\ Relay(x) = g

\* A worktree is named by the group that created it, and of the groups that
\* worked in it all but one have handed it on.
WorktreeInv ==
    /\ \A g \in Groups :
         /\ wt[g] # NoGroup => /\ future[g] \notin {"none", "queued"}
                               /\ wt[g] \in DOMAIN content
         /\ future[g] = "executing" \/ outcome[g] = "completed" => wt[g] # NoGroup
         /\ wt[g] # NoGroup /\ Relay(g) # NoGroup => wt[g] = wt[Relay(g)]
    /\ \A c \in DOMAIN content : wt[c] = c
    /\ \A g, h \in Groups : g # h /\ wt[g] = wt[h] /\ wt[g] # NoGroup =>
         HandedOn(g) \/ HandedOn(h)

\* What g depends on, directly or not.
Ancestors(g) == {d \in Groups : g \in Downstream(deps, d, {})}

\* A commit is in the worktree of its group and of every group that started
\* after it; the branch a group reports, if it exists, is its worktree's.
CommitInv ==
    /\ \A g \in Groups :
         /\ Committed(g) => outcome[g] = "completed" /\ g \in content[wt[g]]
         /\ wt[g] # NoGroup => \A d \in Ancestors(g) :
              completed[d] = "completed" /\ (Committed(d) => d \in content[wt[g]])
         /\ outcome[g] = "completed" /\ named[g] = NoGroup =>
              deps[g] = {} /\ ~Committed(g)
         /\ named[g] # NoGroup =>
              \/ named[g] = wt[g]
              \/ named[g] \in Groups /\ wt[named[g]] = wt[g] /\ wt[g] # NoGroup

\* The inductive invariant.
DAGInv ==
    /\ TypeOK /\ LoopInv /\ SetsInv /\ DepsInv /\ RanInv /\ WorktreeInv /\ CommitInv

-----------------------------------------------------------------------------
(* Frames are a sequence that changes at its end.                          *)

\* Replacing the innermost frame.
LEMMA WithTopFrames ==
    ASSUME frames \in Seq(Frame), frames # <<>>, NEW f \in Frame
    PROVE  /\ WithTop(f) \in Seq(Frame) /\ WithTop(f) # <<>>
           /\ Len(WithTop(f)) = Len(frames)
           /\ WithTop(f)[Len(frames)] = f
           /\ \A i \in 1 .. Len(frames) - 1 : WithTop(f)[i] = frames[i]
<1>1. Len(frames) \in Nat /\ Len(frames) \in 1 .. Len(frames)
  OBVIOUS
<1>2. DOMAIN frames = 1 .. Len(frames)
  OBVIOUS
<1>3. WithTop(f) \in Seq(Frame) /\ Len(WithTop(f)) = Len(frames)
  BY <1>1, <1>2 DEF WithTop
<1>4. \A i \in 1 .. Len(frames) : WithTop(f)[i] = IF i = Len(frames) THEN f ELSE frames[i]
  BY <1>1, <1>2 DEF WithTop
<1>5. WithTop(f)[Len(frames)] = f /\ \A i \in 1 .. Len(frames) - 1 : WithTop(f)[i] = frames[i]
  BY ONLY <1>1, <1>4
<1> QED
  BY <1>1, <1>3, <1>5, EmptySeq

\* Entering the loop once more.
LEMMA PushedFrames ==
    ASSUME NEW s \in Seq(Frame), NEW f \in Frame
    PROVE  /\ Append(s, f) \in Seq(Frame) /\ Append(s, f) # <<>>
           /\ Len(Append(s, f)) = Len(s) + 1
           /\ Append(s, f)[Len(s) + 1] = f
           /\ \A i \in 1 .. Len(s) : Append(s, f)[i] = s[i]
  BY AppendProperties

\* Leaving it.
LEMMA PoppedFrames ==
    ASSUME frames \in Seq(Frame), frames # <<>>
    PROVE  LET s == SubSeq(frames, 1, Len(frames) - 1)
           IN /\ s \in Seq(Frame) /\ Len(s) = Len(frames) - 1
              /\ \A i \in 1 .. Len(s) : s[i] = frames[i]
              /\ s = <<>> <=> Len(frames) = 1
<1> DEFINE n == Len(frames)
           s == SubSeq(frames, 1, n - 1)
<1>1. n \in Nat \ {0}
  BY EmptySeq
<1>2. \A i \in 1 .. n - 1 : frames[i] \in Frame
  BY ElementOfSeq
<1> HIDE DEF n
<1>3. s \in Seq(Frame)
  BY <1>1, <1>2, SubSeqProperties
<1>4. Len(s) = IF 1 <= n - 1 THEN (n - 1) - 1 + 1 ELSE 0
  BY <1>1, <1>2, SubSeqProperties
<1>5. \A i \in 1 .. (n - 1) - 1 + 1 : s[i] = frames[1 + i - 1]
  BY <1>1, <1>2, SubSeqProperties
<1> HIDE DEF s
<1>6. Len(s) = n - 1
  BY ONLY <1>1, <1>4
<1>7. \A i \in 1 .. Len(s) : s[i] = frames[i]
  BY ONLY <1>1, <1>5, <1>6
<1>8. s = <<>> <=> n = 1
  BY <1>1, <1>3, <1>6, EmptySeq
<1> QED
  BY <1>3, <1>6, <1>7, <1>8 DEF n, s

\* The innermost frame is one of them.
LEMMA TopFrame ==
    ASSUME frames \in Seq(Frame), frames # <<>>
    PROVE  Top \in Frame /\ Len(frames) \in 1 .. Len(frames) /\ Top = frames[Len(frames)]
  BY DEF Top

\* The graph that is played.
LEMMA GraphTyped ==
    ASSUME scenario \in Scenarios
    PROVE  DOMAIN deps \subseteq Groups /\ deps \in [DOMAIN deps -> SUBSET DOMAIN deps]
  BY DAGAssumption DEF deps

-----------------------------------------------------------------------------
(* What a recorded result does to the scheduler's sets.                    *)

\* The statuses recorded once g's result is in.
Done(g) == IF outcome[g] = "skipped" THEN completed ELSE [completed EXCEPT ![g] = outcome[g]]

\* What _propagate_failure_locked goes around.
Blocked(g) ==
    skipped \cup (IF outcome[g] = "skipped" THEN {g} ELSE {})
            \cup {h \in Groups : Done(g)[h] = "failed"}

Lost(g) == IF outcome[g] = "completed" THEN {} ELSE Downstream(deps, g, Blocked(g))

Ready(pend, done) == {h \in pend : \A d \in deps[h] : done[d] # "none"}

\* The record of g's result, the groups given up and the ones claimed.
Completes(g, ready, below) ==
    /\ \A h \in ready : \A d \in deps[h] : Done(g)[d] = "completed"
    /\ completed' = Done(g)
    /\ skipped' = skipped \cup Lost(g) \cup (IF outcome[g] = "skipped" THEN {g} ELSE {})
    /\ pending' = (pending \ Lost(g)) \ ready
    /\ running' = (running \ {g}) \cup ready
    /\ frames' = Append(below, [todo |-> ready, gid |-> NoGroup, at |-> "submit"])

\* A dependant of a group that has no result yet is pending or already out.
LEMMA DependantsWait ==
    ASSUME TypeOK, SetsInv, DepsInv, NEW x \in DOMAIN deps, completed[x] = "none"
    PROVE  Children(deps, x) \subseteq pending \cup skipped
<1> SUFFICES ASSUME NEW y \in Children(deps, x) PROVE y \in pending \cup skipped
  OBVIOUS
<1>1. y \in DOMAIN deps /\ x \in deps[y]
  BY DEF Children
<1>2. ~(y \in running \/ future[y] # "none")
  BY <1>1 DEF DepsInv
<1> QED
  BY <1>1, <1>2 DEF DepsInv

\* Downstream is closed under dependants outside what it goes around.
LEMMA DownstreamClosed ==
    ASSUME NEW g, NEW blocked, NEW x, NEW y,
           x = g \/ x \in Downstream(deps, g, blocked),
           y \in Children(deps, x), y \notin blocked
    PROVE  y \in Downstream(deps, g, blocked)
<1>1. y \in DOMAIN deps
  BY DEF Children
<1>2. ASSUME NEW S \in SUBSET DOMAIN deps, Children(deps, g) \subseteq S,
             \A z \in S \ blocked : Children(deps, z) \subseteq S
      PROVE  y \in S
  <2>1. CASE x = g
    BY <1>2, <2>1
  <2>2. CASE x \in Downstream(deps, g, blocked)
    <3>1. x \in S \ blocked
      BY <1>2, <2>2 DEF Downstream
    <3> QED
      BY <1>2, <3>1
  <2> QED
    BY <2>1, <2>2
<1> QED
  BY <1>1, <1>2 DEF Downstream

\* It is the least such set.
LEMMA DownstreamLeast ==
    ASSUME NEW g, NEW blocked, NEW S \in SUBSET DOMAIN deps,
           Children(deps, g) \subseteq S,
           \A z \in S \ blocked : Children(deps, z) \subseteq S
    PROVE  Downstream(deps, g, blocked) \subseteq S \ blocked
  BY DEF Downstream

\* Nothing that was claimed is lost to a failure, everything pending behind it
\* is: skipping a failed group's descendants never takes one that has run.
LEMMA LostIsPending ==
    ASSUME TypeOK, SetsInv, DepsInv, NEW g \in running, outcome[g] # "none"
    PROVE  /\ Lost(g) \subseteq pending
           /\ outcome[g] # "completed" => Children(deps, g) \cap pending \subseteq Lost(g)
           /\ \A x \in Lost(g) : Children(deps, x) \subseteq Lost(g) \cup skipped
<1>1. CASE outcome[g] = "completed"
  BY <1>1 DEF Lost
<1>2. CASE outcome[g] # "completed"
  <2> DEFINE S == pending \cup skipped
  <2>1. S \in SUBSET DOMAIN deps /\ skipped \subseteq Blocked(g) /\ g \in DOMAIN deps
    BY DEF SetsInv, Blocked
  <2>2. \A x \in pending \cup {g} : x \in DOMAIN deps /\ completed[x] = "none"
    BY DEF SetsInv, TypeOK
  <2>3. \A x \in pending \cup {g} : Children(deps, x) \subseteq S
    BY <2>2, DependantsWait
  <2>4. Lost(g) \subseteq S \ Blocked(g)
    <3>1. \A z \in S \ Blocked(g) : z \in pending
      BY <2>1
    <3> HIDE DEF S
    <3> QED
      BY <1>2, <2>1, <2>3, <3>1, DownstreamLeast DEF Lost
  <2>5. \A y \in pending : y \notin Blocked(g)
    BY <2>2 DEF Blocked, Done, SetsInv, TypeOK
  <2>6. \A x \in Lost(g) \cup {g} : \A y \in Children(deps, x) \cap pending : y \in Lost(g)
    BY <1>2, <2>5, DownstreamClosed DEF Lost
  <2>7. Lost(g) \subseteq pending
    BY <2>1, <2>4
  <2>8. \A x \in Lost(g) : Children(deps, x) \subseteq Lost(g) \cup skipped
    BY <2>3, <2>6, <2>7
  <2> QED
    BY <2>6, <2>7, <2>8
<1> QED
  BY <1>1, <1>2

\* The done-callback in one piece.
LEMMA Completing ==
    ASSUME TypeOK, SetsInv, DepsInv, NEW g \in running, outcome[g] # "none",
           NEW below, OnComplete(g, below)
    PROVE  \E ready \in SUBSET (pending \ Lost(g)) : Completes(g, ready, below)
<1> DEFINE ready == Ready(pending \ Lost(g), Done(g))
<1>1. /\ completed' = Done(g)
      /\ skipped' = skipped \cup Lost(g) \cup (IF outcome[g] = "skipped" THEN {g} ELSE {})
      /\ pending' = (pending \ Lost(g)) \ ready
      /\ running' = (running \ {g}) \cup ready
      /\ frames' = Append(below, [todo |-> ready, gid |-> NoGroup, at |-> "submit"])
  BY DEF OnComplete, Claim, Ready, Lost, Blocked, Done
<1>2. ASSUME NEW h \in ready, NEW d \in deps[h] PROVE Done(g)[d] = "completed"
  <2>1. h \in pending \ Lost(g) /\ h \in DOMAIN deps /\ Done(g)[d] # "none"
    BY DEF Ready, SetsInv
  <2>2. CASE d = g
    <3>1. h \in Children(deps, g)
      BY <2>1, <2>2 DEF Children
    <3>2. outcome[g] = "completed"
      BY <2>1, <3>1, LostIsPending
    <3> QED
      BY <2>2, <3>2 DEF Done, TypeOK
  <2>3. CASE d # g
    <3>1. completed[d] \in {"none", "completed"}
      BY <2>1 DEF DepsInv
    <3>2. Done(g)[d] = completed[d]
      BY <2>3 DEF Done, TypeOK
    <3> QED
      BY <2>1, <3>1, <3>2
  <2> QED
    BY <2>2, <2>3
<1>3. ready \in SUBSET (pending \ Lost(g))
  BY DEF Ready
<1> HIDE DEF ready
<1> QED
  BY <1>1, <1>2, <1>3 DEF Completes

\* add_done_callback: registered, or the loop is re-entered in one piece.
LEMMA Registering ==
    ASSUME DAGInv, AddCallback
    PROVE  \E below \in Seq(Frame) :
             /\ Len(below) = Len(frames) /\ below # <<>> /\ frames # <<>>
             /\ \A i \in 1 .. Len(frames) :
                  below[i].todo = frames[i].todo /\ below[i].at = "submit"
             /\ Top.gid \in (running \cap launched) \ callback /\ future[Top.gid] # "none"
             /\ \/ /\ future[Top.gid] # "finished"
                   /\ callback' = callback \cup {Top.gid} /\ frames' = below
                   /\ UNCHANGED <<pending, running, completed, skipped>>
                \/ /\ future[Top.gid] = "finished" /\ outcome[Top.gid] # "none"
                   /\ UNCHANGED callback
                   /\ \E ready \in SUBSET (pending \ Lost(Top.gid)) :
                        Completes(Top.gid, ready, below)
<1>1. frames \in Seq(Frame) /\ frames # <<>> /\ Top.at = "callback" /\ running \subseteq Groups
  BY DEF DAGInv, TypeOK, Frame, AddCallback
<1>2. Top \in Frame /\ Len(frames) \in 1 .. Len(frames) /\ Top = frames[Len(frames)]
  BY <1>1, TopFrame
<1> DEFINE f == [Top EXCEPT !.at = "submit"]
<1>3. f \in Frame /\ f.todo = Top.todo /\ f.at = "submit"
  BY <1>2 DEF Frame
<1>4. /\ WithTop(f) \in Seq(Frame) /\ WithTop(f) # <<>> /\ Len(WithTop(f)) = Len(frames)
      /\ WithTop(f)[Len(frames)] = f
      /\ \A i \in 1 .. Len(frames) - 1 : WithTop(f)[i] = frames[i]
  BY <1>1, <1>3, WithTopFrames
<1>5. Top.gid \in (running \cap launched) \ callback /\ future[Top.gid] # "none"
  BY <1>1, <1>2 DEF DAGInv, LoopInv, Midway
<1>6. \A i \in 1 .. Len(frames) : frames[i].at # "submit" => i = Len(frames)
  BY DEF DAGInv, LoopInv, Midway
<1>7. ASSUME NEW i \in 1 .. Len(frames)
      PROVE  WithTop(f)[i].todo = frames[i].todo /\ WithTop(f)[i].at = "submit"
  <2>1. i = Len(frames) \/ i \in 1 .. Len(frames) - 1
    BY ONLY <1>2, <1>7
  <2> QED
    BY ONLY <1>2, <1>3, <1>4, <1>6, <2>1
<1>8. ASSUME future[Top.gid] = "finished"
      PROVE  outcome[Top.gid] # "none"
  BY <1>1, <1>5, <1>8 DEF DAGInv, RanInv
<1>9. \/ /\ future[Top.gid] # "finished"
         /\ callback' = callback \cup {Top.gid} /\ frames' = WithTop(f)
         /\ UNCHANGED <<pending, running, completed, skipped>>
      \/ /\ future[Top.gid] = "finished" /\ UNCHANGED callback
         /\ OnComplete(Top.gid, WithTop(f))
  BY DEF AddCallback
<1> HIDE DEF f
<1>10. ASSUME OnComplete(Top.gid, WithTop(f)), future[Top.gid] = "finished"
       PROVE  \E ready \in SUBSET (pending \ Lost(Top.gid)) :
                Completes(Top.gid, ready, WithTop(f))
  BY <1>5, <1>8, <1>10, Completing DEF DAGInv
<1> QED
  BY <1>1, <1>4, <1>5, <1>7, <1>8, <1>9, <1>10

\* A done-callback on a worker's thread, in one piece.
LEMMA CallingBack ==
    ASSUME DAGInv, NEW g \in Groups, Callback(g)
    PROVE  /\ g \in running /\ g \in callback /\ outcome[g] # "none" /\ future[g] = "done"
           /\ \E ready \in SUBSET (pending \ Lost(g)) : Completes(g, ready, <<>>)
<1>1. future[g] = "done" /\ OnComplete(g, <<>>)
  BY DEF Callback
<1>2. g \in running /\ g \in callback /\ outcome[g] # "none"
  BY <1>1 DEF DAGInv, SetsInv, RanInv
<1> QED
  BY <1>1, <1>2, Completing DEF DAGInv

-----------------------------------------------------------------------------
(* The type invariant, group by group of the variables.                    *)

SetsTyped ==
    /\ pending \in SUBSET Groups /\ running \in SUBSET Groups
    /\ launched \in SUBSET Groups /\ skipped \in SUBSET Groups
    /\ completed \in [Groups -> Statuses \ {"skipped"}]
FramesTyped == frames \in Seq(Frame)
MainTyped ==
    /\ lock \in {"free", "main"} \cup Groups
    /\ main \in {"start", "wait", "drain", "shutdown", "returned"}
    /\ stop \in BOOLEAN /\ stopped \in BOOLEAN
    /\ interrupts \in 0 .. scenario.interrupts
PoolTyped ==
    /\ future \in [Groups -> {"none", "queued", "executing", "done", "calling", "finished"}]
    /\ callback \in SUBSET Groups
    /\ outcome \in [Groups -> Statuses]
    /\ ran \in [Groups -> Nat]
GitTyped ==
    /\ wt \in [Groups -> Groups \cup {NoGroup}]
    /\ named \in [Groups -> Groups \cup {NoGroup}]
    /\ DOMAIN content \subseteq Groups
    /\ \A c \in DOMAIN content : content[c] \subseteq Groups

\* The graph stays what it is.
LEMMA GraphFixed == Next => UNCHANGED scenario /\ deps' = deps
  BY DEF Next, Begin, LoopStep, Submit, Launch, AddCallback, Unwind, BeginStop, Tick,
     Interrupt, Converge, Return, RequestStop, PickUp, Decline, Execute, ExecuteFails,
     WorkStep, Complete, Fail, WindDown, Callback, vars, deps

\* A recorded result keeps the types.
LEMMA CompletesTyped ==
    ASSUME TypeOK, SetsInv, DepsInv, NEW g \in running, outcome[g] # "none", NEW below,
           NEW ready \in SUBSET (pending \ Lost(g)), Completes(g, ready, below),
           UNCHANGED launched
    PROVE  SetsTyped'
<1>1. Lost(g) \subseteq pending /\ pending \subseteq Groups /\ g \in Groups
  BY LostIsPending DEF TypeOK
<1>2. Done(g) \in [Groups -> Statuses \ {"skipped"}]
  BY <1>1 DEF TypeOK, Done, Statuses
<1> QED
  BY <1>1, <1>2 DEF Completes, TypeOK, SetsTyped

\* The scheduler's sets and records.
LEMMA NextSetsTyped == DAGInv /\ Next => SetsTyped'
<1> SUFFICES ASSUME DAGInv, Next PROVE SetsTyped'
  OBVIOUS
<1>1. ASSUME \/ Submit \/ Unwind \/ Tick \/ Converge \/ Return \/ RequestStop
      PROVE  UNCHANGED <<pending, running, launched, completed, skipped>>
  BY ONLY <1>1 DEF Submit, Unwind, Tick, Converge, Return, RequestStop, vars,
     schedVars, stopVars, poolVars, gitVars
<1>2. ASSUME NEW g \in Groups,
             \/ Decline(g) \/ Execute(g) \/ ExecuteFails(g) \/ Fail(g)
             \/ WindDown(g)
      PROVE  UNCHANGED <<pending, running, launched, completed, skipped>>
  BY ONLY <1>2 DEF Decline, Execute, ExecuteFails, Fail, WindDown, Resolve,
     Resolve, Resolve, Resolve, schedVars, stopVars, poolVars, gitVars
<1>3. ASSUME NEW g \in Groups, NEW changes \in BOOLEAN,
               NEW committed \in BOOLEAN, Complete(g, changes, committed)
      PROVE  UNCHANGED <<pending, running, launched, completed, skipped>>
  BY ONLY <1>3 DEF Complete, Resolve, schedVars, stopVars, poolVars, gitVars
<1>4. CASE UNCHANGED <<pending, running, launched, completed, skipped>>
  BY <1>4 DEF DAGInv, TypeOK, SetsTyped
<1> USE DEF TypeOK, SetsTyped
<1>5. CASE Begin
  <2>1. TypeOK
    BY DEF DAGInv
  <2> QED
    BY <1>5, <2>1 DEF Begin, Claim
<1>6. CASE Launch
  <2>1. TypeOK /\ frames \in Seq(Frame)
    BY DEF DAGInv, Frame
  <2>2. Top.gid \in Groups
    <3>1. frames # <<>> /\ Top.at = "launch"
      BY <1>6 DEF Launch
    <3>2. Top = frames[Len(frames)] /\ Len(frames) \in 1 .. Len(frames)
      BY <2>1, <3>1, TopFrame
    <3>3. Top.gid \in running
      BY <3>1, <3>2 DEF DAGInv, LoopInv, Midway
    <3> QED
      BY <2>1, <3>3
  <2> QED
    BY <1>6, <2>1, <2>2 DEF Launch
<1>7. CASE AddCallback
  <2>1. TypeOK
    BY DEF DAGInv
  <2>2. CASE UNCHANGED <<pending, running, completed, skipped>>
    BY <1>7, <2>1, <2>2 DEF AddCallback
  <2>3. ASSUME NEW below, NEW ready \in SUBSET (pending \ Lost(Top.gid)),
               Completes(Top.gid, ready, below), Top.gid \in running, outcome[Top.gid] # "none"
        PROVE  SetsTyped'
    BY <1>7, <2>1, <2>3, CompletesTyped DEF DAGInv, AddCallback
  <2> QED
    BY <1>7, <2>2, <2>3, Registering
<1>8. CASE BeginStop
  <2>1. TypeOK
    BY DEF DAGInv
  <2> QED
    BY <1>8, <2>1 DEF BeginStop
<1>9. CASE Interrupt
  <2>1. TypeOK
    BY DEF DAGInv
  <2> QED
    BY <1>9, <2>1 DEF Interrupt
<1>10. ASSUME NEW g \in Groups, Callback(g) PROVE SetsTyped'
  <2>1. g \in running /\ outcome[g] # "none"
    BY <1>10, CallingBack
  <2>2. PICK ready \in SUBSET (pending \ Lost(g)) : Completes(g, ready, <<>>)
    BY <1>10, CallingBack
  <2> QED
    BY <1>10, <2>1, <2>2, CompletesTyped DEF DAGInv, Callback
<1>11. ASSUME UNCHANGED vars
      PROVE  UNCHANGED <<pending, running, launched, completed, skipped>>
  BY ONLY <1>11 DEF vars, schedVars, stopVars, poolVars, gitVars
<1> QED
  BY <1>1, <1>2, <1>3, <1>4, <1>5, <1>6, <1>7, <1>8, <1>9, <1>10, <1>11
     DEF Next, LoopStep, PickUp, WorkStep

\* The stack of submission loops.
LEMMA NextFramesTyped == DAGInv /\ Next => FramesTyped'
<1> SUFFICES ASSUME DAGInv, Next PROVE FramesTyped'
  OBVIOUS
<1> DEFINE Entered(ready) == [todo |-> ready, gid |-> NoGroup, at |-> "submit"]
<1>1. frames \in Seq(Frame) /\ <<>> \in Seq(Frame) /\ TypeOK
  BY EmptySeq DEF DAGInv, TypeOK, Frame
<1>2. ASSUME NEW ready \in SUBSET Groups PROVE Entered(ready) \in Frame
  BY DEF Frame
<1>3. ASSUME \/ BeginStop \/ Tick \/ Converge \/ Return \/ RequestStop
      PROVE  UNCHANGED frames
  BY ONLY <1>3 DEF BeginStop, Tick, Converge, Return, RequestStop, vars,
     schedVars, stopVars, poolVars, gitVars
<1>4. ASSUME NEW g \in Groups,
             \/ Decline(g) \/ Execute(g) \/ ExecuteFails(g) \/ Fail(g)
             \/ WindDown(g)
      PROVE  UNCHANGED frames
  BY ONLY <1>4 DEF Decline, Execute, ExecuteFails, Fail, WindDown, Resolve,
     Resolve, Resolve, Resolve, schedVars, stopVars, poolVars, gitVars
<1>5. ASSUME NEW g \in Groups, NEW changes \in BOOLEAN,
               NEW committed \in BOOLEAN, Complete(g, changes, committed)
      PROVE  UNCHANGED frames
  BY ONLY <1>5 DEF Complete, Resolve, schedVars, stopVars, poolVars, gitVars
<1>6. CASE UNCHANGED frames
  BY <1>6 DEF DAGInv, TypeOK, FramesTyped, Frame
<1> USE DEF FramesTyped
<1>7. CASE Begin
  <2> DEFINE ready == {g \in pending : \A d \in deps[g] : completed[d] # "none"}
  <2>1. frames' = Append(<<>>, Entered(ready))
    BY <1>7 DEF Begin, Claim
  <2>2. ready \in SUBSET Groups
    BY <1>1 DEF TypeOK
  <2> HIDE DEF ready, Entered
  <2> QED
    BY <1>1, <1>2, <2>1, <2>2, PushedFrames
<1>8. CASE Submit
  <2>1. frames # <<>> /\ Top \in Frame
    BY <1>8, <1>1, TopFrame DEF Submit
  <2>2. PICK g \in Top.todo : frames' = WithTop([todo |-> Top.todo \ {g}, gid |-> g, at |-> "launch"])
    BY <1>8 DEF Submit
  <2>3. [todo |-> Top.todo \ {g}, gid |-> g, at |-> "launch"] \in Frame
    BY <2>1 DEF Frame
  <2> QED
    BY <1>1, <2>1, <2>2, <2>3, WithTopFrames
<1>9. CASE Launch
  <2>1. frames # <<>> /\ Top \in Frame
    BY <1>9, <1>1, TopFrame DEF Launch
  <2>2. [Top EXCEPT !.at = "callback"] \in Frame
    BY <2>1 DEF Frame
  <2> QED
    BY <1>9, <1>1, <2>1, <2>2, WithTopFrames DEF Launch
<1>10. CASE AddCallback
  <2>1. ASSUME NEW below \in Seq(Frame), NEW ready \in SUBSET (pending \ Lost(Top.gid)),
               Completes(Top.gid, ready, below)
        PROVE  FramesTyped'
    <3>1. frames' = Append(below, Entered(ready)) /\ ready \in SUBSET Groups
      BY <1>1, <2>1 DEF Completes, TypeOK
    <3> HIDE DEF Entered
    <3> QED
      BY <1>2, <3>1, PushedFrames
  <2> QED
    BY <1>10, <2>1, Registering
<1>11. CASE Unwind
  BY <1>11, <1>1, PoppedFrames DEF Unwind
<1>12. CASE Interrupt
  BY <1>12, <1>1 DEF Interrupt
<1>13. ASSUME NEW g \in Groups, Callback(g) PROVE FramesTyped'
  <2>1. PICK ready \in SUBSET (pending \ Lost(g)) : Completes(g, ready, <<>>)
    BY <1>13, CallingBack
  <2>2. frames' = Append(<<>>, Entered(ready)) /\ ready \in SUBSET Groups
    BY <1>1, <2>1 DEF Completes, TypeOK
  <2> HIDE DEF Entered
  <2> QED
    BY <1>1, <1>2, <2>2, PushedFrames
<1>14. ASSUME UNCHANGED vars PROVE UNCHANGED frames
  BY ONLY <1>14 DEF vars, schedVars, stopVars, poolVars, gitVars
<1> QED
  BY <1>1, <1>2, <1>3, <1>4, <1>5, <1>6, <1>7, <1>8, <1>9, <1>10, <1>11, <1>12,
     <1>13, <1>14
     DEF Next, LoopStep, PickUp, WorkStep

\* The scheduling thread, the lock and the stop.
LEMMA NextMainTyped == DAGInv /\ Next => MainTyped'
<1> SUFFICES ASSUME DAGInv, Next PROVE MainTyped'
  OBVIOUS
<1>1. TypeOK /\ scenario' = scenario /\ scenario.interrupts \in Nat
  BY GraphFixed, DAGAssumption DEF DAGInv, SetsInv
<1> USE <1>1 DEF TypeOK, MainTyped, schedVars, stopVars
<1>2. ASSUME \/ Submit \/ Launch \/ AddCallback \/ Tick
      PROVE  UNCHANGED <<lock, main, stop, stopped, interrupts>>
  BY ONLY <1>2 DEF Submit, Launch, AddCallback, Tick, vars, schedVars,
     stopVars, poolVars, gitVars
<1>3. ASSUME NEW g \in Groups,
             \/ Decline(g) \/ Execute(g) \/ ExecuteFails(g) \/ Fail(g)
             \/ WindDown(g)
      PROVE  UNCHANGED <<lock, main, stop, stopped, interrupts>>
  BY ONLY <1>3 DEF Decline, Execute, ExecuteFails, Fail, WindDown, Resolve,
     Resolve, Resolve, Resolve, schedVars, stopVars, poolVars, gitVars
<1>4. ASSUME NEW g \in Groups, NEW changes \in BOOLEAN,
               NEW committed \in BOOLEAN, Complete(g, changes, committed)
      PROVE  UNCHANGED <<lock, main, stop, stopped, interrupts>>
  BY ONLY <1>4 DEF Complete, Resolve, schedVars, stopVars, poolVars, gitVars
<1>5. CASE UNCHANGED <<lock, main, stop, stopped, interrupts>>
  BY <1>5 DEF MainTyped
<1>6. CASE Begin
  BY <1>6 DEF Begin
<1>7. CASE Unwind
  BY <1>7 DEF Unwind
<1>8. CASE BeginStop
  BY <1>8 DEF BeginStop
<1>9. CASE Interrupt
  <2>1. interrupts' \in 0 .. scenario.interrupts'
    BY <1>9 DEF Interrupt, SetsInv
  <2> QED
    BY <1>9, <2>1 DEF Interrupt
<1>10. CASE Converge
  BY <1>10 DEF Converge
<1>11. CASE Return
  BY <1>11 DEF Return
<1>12. CASE RequestStop
  BY <1>12 DEF RequestStop
<1>13. ASSUME NEW g \in Groups, Callback(g) PROVE MainTyped'
  BY <1>13 DEF Callback
<1>14. ASSUME UNCHANGED vars
      PROVE  UNCHANGED <<lock, main, stop, stopped, interrupts>>
  BY ONLY <1>14 DEF vars, schedVars, stopVars, poolVars, gitVars
<1> QED
  BY <1>1, <1>2, <1>3, <1>4, <1>5, <1>6, <1>7, <1>8, <1>9, <1>10, <1>11, <1>12,
     <1>13, <1>14
     DEF Next, LoopStep, PickUp, WorkStep

\* The futures, their results and how often they ran.
LEMMA NextPoolTyped == DAGInv /\ Next => PoolTyped'
<1> SUFFICES ASSUME DAGInv, Next PROVE PoolTyped'
  OBVIOUS
<1>1. ASSUME \/ Begin \/ Launch \/ BeginStop \/ Tick \/ Interrupt \/ Converge
             \/ Return \/ RequestStop
      PROVE  UNCHANGED <<future, callback, outcome, ran>>
  BY ONLY <1>1 DEF Begin, Launch, BeginStop, Tick, Interrupt, Converge, Return,
     RequestStop, vars, schedVars, stopVars, poolVars, gitVars
<1>2. CASE UNCHANGED <<future, callback, outcome, ran>>
  BY <1>2 DEF DAGInv, TypeOK, PoolTyped
<1> USE DEF DAGInv, TypeOK, PoolTyped, Statuses
<1>3. CASE Submit
  <2>1. frames # <<>> /\ Top \in Frame
    BY <1>3, TopFrame DEF Submit, Frame
  <2>2. PICK g \in Top.todo : future' = [future EXCEPT ![g] = "queued"]
    BY <1>3 DEF Submit
  <2> QED
    BY <1>3, <2>1, <2>2 DEF Submit, poolVars, Frame
<1>4. CASE AddCallback
  <2>1. Top.gid \in Groups
    BY <1>4, Registering
  <2> QED
    BY <1>4, <2>1, Registering DEF AddCallback
<1>5. CASE Unwind
  BY <1>5 DEF Unwind
<1>6. ASSUME NEW g \in Groups, Decline(g) PROVE PoolTyped'
  BY <1>6 DEF Decline, Resolve
<1>7. ASSUME NEW g \in Groups, Execute(g) PROVE PoolTyped'
  BY <1>7 DEF Execute
<1>8. ASSUME NEW g \in Groups, ExecuteFails(g) PROVE PoolTyped'
  BY <1>8 DEF ExecuteFails, Resolve
<1>9. ASSUME NEW g \in Groups, NEW changes \in BOOLEAN,
               NEW committed \in BOOLEAN, Complete(g, changes, committed) PROVE PoolTyped'
  BY <1>9 DEF Complete, Resolve
<1>10. ASSUME NEW g \in Groups, Fail(g) PROVE PoolTyped'
  BY <1>10 DEF Fail, Resolve
<1>11. ASSUME NEW g \in Groups, WindDown(g) PROVE PoolTyped'
  BY <1>11 DEF WindDown, Resolve
<1>12. ASSUME NEW g \in Groups, Callback(g) PROVE PoolTyped'
  BY <1>12 DEF Callback
<1>13. ASSUME UNCHANGED vars PROVE UNCHANGED <<future, callback, outcome, ran>>
  BY ONLY <1>13 DEF vars, schedVars, stopVars, poolVars, gitVars
<1> QED
  BY <1>1, <1>2, <1>3, <1>4, <1>5, <1>6, <1>7, <1>8, <1>9, <1>10, <1>11, <1>12,
     <1>13
     DEF Next, LoopStep, PickUp, WorkStep

-----------------------------------------------------------------------------
(* The relay plan.                                                         *)

\* A nonempty set of natural numbers has a least member.
LEMMA LeastNatural ==
    ASSUME NEW N \in SUBSET Nat, N # {}
    PROVE  \E n \in N : \A m \in N : n <= m
<1> DEFINE R == OpToRel(<, Nat)
<1>1. IsWellFoundedOn(R, Nat)
  BY NatLessThanWellFounded
<1>2. \A m, n \in Nat : m < n => <<m, n>> \in R
  BY DEF OpToRel
<1> HIDE DEF R
<1>3. \E n \in N : \A m \in N : ~ (<<m, n>> \in R)
  BY <1>1, WFMin
<1>4. ASSUME NEW n \in N, \A m \in N : ~ (<<m, n>> \in R), NEW m \in N
      PROVE  n <= m
  <2>1. ~ (m < n) /\ m \in Nat /\ n \in Nat
    BY <1>2, <1>4
  <2> QED
    BY ONLY <2>1
<1> QED
  BY <1>3, <1>4

\* So a group that comes first in the order exists.
LEMMA FirstIsMember ==
    ASSUME NEW S \in SUBSET Groups, S # {}
    PROVE  First(Order, S) \in S
<1> DEFINE N == {Order[g] : g \in S}
<1>1. N \in SUBSET Nat /\ N # {}
  BY DAGAssumption
<1>2. PICK n \in N : \A m \in N : n <= m
  BY <1>1, LeastNatural
<1>3. \E g \in S : \A h \in S : Order[g] <= Order[h]
  BY <1>2
<1> QED
  BY <1>3 DEF First

\* The predecessor a group relays hands its worktree to that group only; the
\* one it forks is a predecessor; the branches of all others are merged.
LEMMA RelayPreds ==
    ASSUME scenario \in Scenarios, NEW g \in DOMAIN deps
    PROVE  /\ Relay(g) # NoGroup => Relay(g) \in deps[g] /\ Heir(deps, Order, Relay(g)) = g
           /\ Fork(g) # NoGroup => Fork(g) \in deps[g] /\ Relay(g) = NoGroup
           /\ deps[g] \ {Relay(g), Fork(g)} = Merges(g)
           /\ deps[g] # {} => Relay(g) # NoGroup \/ Fork(g) # NoGroup
<1>1. deps[g] \in SUBSET Groups /\ NoGroup \notin Groups
  BY GraphTyped, DAGAssumption
<1>2. RelayingPreds(deps, Order, g) \in SUBSET Groups
  BY <1>1 DEF RelayingPreds
<1>3. ASSUME Relay(g) # NoGroup PROVE Relay(g) \in RelayingPreds(deps, Order, g)
  BY <1>2, <1>3, FirstIsMember DEF Relay, RelayOf
<1>4. ASSUME Fork(g) # NoGroup PROVE Fork(g) \in deps[g] /\ Relay(g) = NoGroup
  BY <1>1, <1>4, FirstIsMember DEF Fork, ForkOf, Relay
<1>5. ASSUME deps[g] # {}, Relay(g) = NoGroup PROVE Fork(g) # NoGroup
  BY <1>1, <1>5, FirstIsMember DEF Fork, ForkOf, Relay
<1>6. deps[g] \ {Relay(g), Fork(g)} = Merges(g)
  BY DEF Merges, Secondary, Relay, Fork
<1> QED
  BY <1>3, <1>4, <1>5, <1>6 DEF RelayingPreds

\* What a group finds when it starts: its dependencies completed, the worktree
\* of the one it relays, or a new one.
LEMMA Starting ==
    ASSUME TypeOK, SetsInv, DepsInv, RanInv, WorktreeInv, NEW g \in Groups, Execute(g)
    PROVE  /\ g \in DOMAIN deps /\ wt[g] = NoGroup /\ Worktree(g) \in Groups
           /\ \A d \in deps[g] : /\ completed[d] = "completed" /\ outcome[d] = "completed"
                                 /\ wt[d] # NoGroup /\ wt[d] \in DOMAIN content
           /\ Relay(g) # NoGroup => Relay(g) \in deps[g] /\ Worktree(g) = wt[Relay(g)]
           /\ Relay(g) = NoGroup => Worktree(g) = g /\ g \notin DOMAIN content
<1>1. g \in DOMAIN deps /\ future[g] = "queued" /\ scenario \in Scenarios
  BY DEF Execute, SetsInv
<1>2. wt[g] = NoGroup
  BY <1>1 DEF WorktreeInv
<1>3. ASSUME NEW d \in deps[g]
      PROVE  /\ completed[d] = "completed" /\ outcome[d] = "completed"
             /\ wt[d] # NoGroup /\ wt[d] \in DOMAIN content
  <2>1. d \in Groups
    BY <1>1, GraphTyped
  <2>2. completed[d] = "completed"
    BY <1>1 DEF DepsInv
  <2> QED
    BY <2>1, <2>2 DEF SetsInv, WorktreeInv
<1>4. Relay(g) # NoGroup => Relay(g) \in deps[g] /\ Worktree(g) = wt[Relay(g)]
  BY <1>1, RelayPreds DEF Worktree
<1>5. Relay(g) = NoGroup => Worktree(g) = g /\ g \notin DOMAIN content
  BY <1>1, <1>2, DAGAssumption DEF Worktree, WorktreeInv
<1>6. Worktree(g) \in Groups
  BY <1>3, <1>4, <1>5 DEF TypeOK
<1> QED
  BY <1>1, <1>2, <1>3, <1>4, <1>5, <1>6

\* The branch it works on then has what its dependencies' branches had.
LEMMA StartedBranch ==
    ASSUME TypeOK, SetsInv, DepsInv, RanInv, WorktreeInv, NEW g \in Groups, Execute(g)
    PROVE  /\ DOMAIN content' = DOMAIN content \cup {Worktree(g)}
           /\ \A c \in DOMAIN content \ {Worktree(g)} : content'[c] = content[c]
           /\ content'[Worktree(g)] \subseteq Groups
           /\ Worktree(g) \in DOMAIN content =>
                content[Worktree(g)] \subseteq content'[Worktree(g)]
           /\ \A x \in content'[Worktree(g)] : Committed(x)
           /\ \A d \in deps[g] : named[d] # NoGroup /\ d # Relay(g) =>
                /\ named[d] \in DOMAIN content
                /\ content[named[d]] \subseteq content'[Worktree(g)]
<1> DEFINE w == Worktree(g)
           base == IF Relay(g) # NoGroup THEN content[w]
                   ELSE IF ForkSource(g) # NoGroup THEN content[ForkSource(g)] ELSE {}
           merged == base \cup UNION {content[b] : b \in MergeSources(g)}
<1>1. /\ g \in DOMAIN deps /\ w \in Groups /\ scenario \in Scenarios
      /\ Relay(g) # NoGroup => w \in DOMAIN content
      /\ Relay(g) = NoGroup => w \notin DOMAIN content
  BY Starting DEF SetsInv
<1>2. /\ content' = [c \in DOMAIN content \cup {w} |-> IF c = w THEN merged ELSE content[c]]
      /\ SourcesExist(g)
  BY DEF Execute
<1>3. MergeSources(g) \subseteq DOMAIN content
  BY <1>2 DEF SourcesExist
<1>4. ForkSource(g) # NoGroup => ForkSource(g) \in DOMAIN content
  BY <1>2 DEF SourcesExist
<1>5. merged \subseteq Groups /\ \A x \in merged : Committed(x)
  BY <1>1, <1>3, <1>4 DEF TypeOK, Committed
<1>6. Relay(g) # NoGroup => content[w] \subseteq merged
  OBVIOUS
<1>7. ASSUME NEW d \in deps[g], named[d] # NoGroup, d # Relay(g)
      PROVE  named[d] \in DOMAIN content /\ content[named[d]] \subseteq merged
  <2>1. CASE d = Fork(g)
    <3>1. Fork(g) # NoGroup /\ Relay(g) = NoGroup
      BY <1>1, <2>1, RelayPreds, GraphTyped, DAGAssumption
    <3> QED
      BY <1>4, <1>7, <2>1, <3>1 DEF ForkSource
  <2>2. CASE d # Fork(g)
    <3>1. d \in Merges(g)
      BY <1>1, <1>7, <2>2, RelayPreds
    <3>2. named[d] \in MergeSources(g)
      BY <1>7, <3>1 DEF MergeSources
    <3> QED
      BY <1>3, <3>2
  <2> QED
    BY <2>1, <2>2
<1> HIDE DEF w, merged
<1>8. /\ DOMAIN content' = DOMAIN content \cup {w} /\ content'[w] = merged
      /\ \A c \in DOMAIN content \ {w} : content'[c] = content[c]
  BY <1>2
<1> QED
  BY <1>1, <1>5, <1>6, <1>7, <1>8 DEF w

\* Starting keeps the types.
LEMMA StartTyped ==
    ASSUME TypeOK, SetsInv, DepsInv, RanInv, WorktreeInv, NEW g \in Groups, Execute(g)
    PROVE  GitTyped'
<1>1. wt' = [wt EXCEPT ![g] = Worktree(g)] /\ Worktree(g) \in Groups /\ UNCHANGED named
  BY Starting DEF Execute
<1>2. DOMAIN content' \subseteq Groups /\ \A c \in DOMAIN content' : content'[c] \subseteq Groups
  <2>1. /\ DOMAIN content' = DOMAIN content \cup {Worktree(g)}
        /\ \A c \in DOMAIN content \ {Worktree(g)} : content'[c] = content[c]
        /\ content'[Worktree(g)] \subseteq Groups
    BY StartedBranch
  <2> QED
    BY <1>1, <2>1 DEF TypeOK
<1> QED
  BY <1>1, <1>2 DEF TypeOK, GitTyped

\* The branch a group reports is a group's.
LEMMA BranchNameTyped ==
    ASSUME TypeOK, SetsInv, NEW g \in DOMAIN deps
    PROVE  /\ BranchName(g) \in Groups
           /\ BranchName(g) # g => Relay(g) \in deps[g] /\ BranchName(g) = named[Relay(g)]
<1>1. deps[g] \subseteq Groups /\ g \in Groups /\ scenario \in Scenarios
  BY GraphTyped DEF SetsInv
<1>2. Relay(g) # NoGroup => Relay(g) \in deps[g]
  BY <1>1, RelayPreds
<1>3. CASE Relay(g) # NoGroup /\ named[Relay(g)] # NoGroup
  <2>1. BranchName(g) = named[Relay(g)]
    BY <1>3 DEF BranchName
  <2> QED
    BY <1>1, <1>2, <1>3, <2>1 DEF TypeOK
<1>4. CASE ~ (Relay(g) # NoGroup /\ named[Relay(g)] # NoGroup)
  <2>1. BranchName(g) = g
    BY <1>4, Zenon DEF BranchName
  <2> QED
    BY <1>1, <2>1
<1> QED
  BY <1>3, <1>4


\* Worktrees, branches and what is on them.
LEMMA NextGitTyped == DAGInv /\ Next => GitTyped'
<1> SUFFICES ASSUME DAGInv, Next PROVE GitTyped'
  OBVIOUS
<1>1. ASSUME \/ Begin \/ Submit \/ Launch \/ AddCallback \/ Unwind
             \/ BeginStop \/ Tick \/ Interrupt \/ Converge
      PROVE  UNCHANGED <<wt, named, content>>
  BY ONLY <1>1 DEF Begin, Submit, Launch, AddCallback, Unwind, BeginStop, Tick,
     Interrupt, Converge, vars, schedVars, stopVars, poolVars, gitVars
<1>2. ASSUME \/ Return \/ RequestStop
      PROVE  UNCHANGED <<wt, named, content>>
  BY ONLY <1>2 DEF Return, RequestStop, schedVars, stopVars, poolVars, gitVars
<1>3. ASSUME NEW g \in Groups,
             \/ Decline(g) \/ ExecuteFails(g) \/ Fail(g) \/ Callback(g)
      PROVE  UNCHANGED <<wt, named, content>>
  BY ONLY <1>3 DEF Decline, ExecuteFails, Fail, Callback, Resolve, Resolve,
     Resolve, schedVars, stopVars, poolVars, gitVars
<1>4. CASE UNCHANGED <<wt, named, content>>
  BY <1>4 DEF DAGInv, TypeOK, GitTyped
<1> USE DEF GitTyped
<1>5. ASSUME NEW g \in Groups, Execute(g) PROVE GitTyped'
  BY <1>5, StartTyped DEF DAGInv
<1>6. ASSUME NEW g \in Groups, NEW changes \in BOOLEAN,
               NEW committed \in BOOLEAN, Complete(g, changes, committed) PROVE GitTyped'
  <2>1. TypeOK /\ SetsInv /\ g \in DOMAIN deps
    BY <1>6 DEF DAGInv, SetsInv, Complete
  <2>2. BranchName(g) \in Groups
    BY <2>1, BranchNameTyped
  <2> QED
    BY <1>6, <2>1, <2>2 DEF Complete, TypeOK
<1>7. ASSUME NEW g \in Groups, WindDown(g) PROVE GitTyped'
  <2>1. TypeOK /\ SetsInv /\ g \in DOMAIN deps
    BY <1>7 DEF DAGInv, SetsInv, WindDown
  <2>2. BranchName(g) \in Groups
    BY <2>1, BranchNameTyped
  <2> QED
    BY <1>7, <2>1, <2>2 DEF WindDown, TypeOK
<1>8. ASSUME UNCHANGED vars PROVE UNCHANGED <<wt, named, content>>
  BY ONLY <1>8 DEF vars, schedVars, stopVars, poolVars, gitVars
<1> QED
  BY <1>1, <1>2, <1>3, <1>4, <1>5, <1>6, <1>7, <1>8
     DEF Next, LoopStep, PickUp, WorkStep


\* The type invariant is kept.
LEMMA NextTypeOK == DAGInv /\ Next => TypeOK'
<1> SUFFICES ASSUME DAGInv, Next PROVE TypeOK'
  OBVIOUS
<1>1. DOMAIN deps' \subseteq Groups
  BY GraphFixed, GraphTyped DEF DAGInv, SetsInv
<1>2. SetsTyped' /\ FramesTyped' /\ MainTyped' /\ PoolTyped' /\ GitTyped'
  BY NextSetsTyped, NextFramesTyped, NextMainTyped, NextPoolTyped, NextGitTyped
<1> QED
  BY <1>1, <1>2
     DEF TypeOK, SetsTyped, FramesTyped, Frame, MainTyped, PoolTyped, GitTyped

\* The submission loops stay in step with the sets and the pool.
LEMMA NextLoopInv == DAGInv /\ Next => LoopInv'
<1> SUFFICES ASSUME DAGInv, Next PROVE LoopInv'
  OBVIOUS
<1>1. /\ TypeOK /\ SetsInv /\ Held /\ Claimed /\ ClaimedOnce /\ Midway
      /\ frames \in Seq(Frame) /\ Len(frames) \in Nat
      /\ Groups \cap {"free", "main"} = {}
  BY DAGAssumption DEF DAGInv, LoopInv, TypeOK, Frame
<1>2. ASSUME NEW g \in Groups, future[g] \in {"queued", "executing"},
             NEW v \in {"executing", "done", "finished"},
             future' = [future EXCEPT ![g] = v],
             UNCHANGED <<lock, frames, running, launched, callback>>
      PROVE  LoopInv'
  <2>1. \A h \in Groups : /\ future'[h] = "none" <=> future[h] = "none"
                          /\ future'[h] = "calling" <=> future[h] = "calling"
    BY <1>1, <1>2 DEF TypeOK
  <2>2. Held' /\ ClaimedOnce'
    BY <1>1, <1>2, <2>1 DEF Held, ClaimedOnce
  <2>3. Claimed' /\ Midway'
    BY <1>1, <1>2, <2>1 DEF Claimed, Midway, TypeOK
  <2> QED
    BY <2>2, <2>3 DEF LoopInv
<1>3. ASSUME NEW below \in Seq(Frame), Len(below) = Len(frames),
             \A i \in 1 .. Len(frames) :
                below[i].todo = frames[i].todo /\ below[i].at = "submit",
             NEW ready \in SUBSET pending, UNCHANGED callback,
             frames' = Append(below, [todo |-> ready, gid |-> NoGroup, at |-> "submit"]),
             NEW g, g \in Groups => future[g] # "none",
             running' = (running \ {g}) \cup ready,
             \A h \in Groups \ {g} : future'[h] = future[h],
             Held'
      PROVE  LoopInv'
  <2> DEFINE n == Len(frames)
             f == [todo |-> ready, gid |-> NoGroup, at |-> "submit"]
  <2>1. f \in Frame /\ f.todo = ready /\ f.at = "submit"
    BY <1>1 DEF Frame, TypeOK
  <2> HIDE DEF f
  <2>2. /\ frames' # <<>> /\ Len(frames') = n + 1 /\ frames'[n + 1] = f
        /\ \A i \in 1 .. n : frames'[i] = below[i]
    BY <1>3, <2>1, PushedFrames DEF f
  <2>3. \A i \in 1 .. n + 1 : i = n + 1 \/ i \in 1 .. n
    BY <1>1
  <2>4. \A i \in 1 .. n + 1 : frames'[i].at = "submit"
    BY <1>3, <2>1, <2>2, <2>3
  <2>5. \A i \in 1 .. n : frames'[i].todo = frames[i].todo
    BY <1>3, <2>2
  <2>6. \A h \in ready : /\ h \in Groups /\ h \notin running
                         /\ future[h] = "none" /\ h # g
    BY <1>1, <1>3 DEF SetsInv, TypeOK
  <2>7. \A i \in 1 .. n : \A h \in frames[i].todo :
           h \in Groups /\ h \in running /\ future[h] = "none" /\ h # g
    BY <1>1, <1>3 DEF Claimed, TypeOK
  <2>8. Midway'
    BY <2>2, <2>4 DEF Midway
  <2>9. Claimed'
    BY <1>3, <2>1, <2>2, <2>3, <2>5, <2>6, <2>7 DEF Claimed
  <2>10. ClaimedOnce'
    BY <1>1, <2>1, <2>2, <2>3, <2>5, <2>6, <2>7 DEF ClaimedOnce
  <2> QED
    BY <1>3, <2>8, <2>9, <2>10 DEF LoopInv
<1>4. ASSUME \/ BeginStop \/ Tick \/ Converge \/ Return \/ RequestStop
      PROVE  UNCHANGED <<lock, frames, running, launched, callback, future>>
  BY ONLY <1>4 DEF BeginStop, Tick, Converge, Return, RequestStop, vars,
     schedVars, stopVars, poolVars, gitVars
<1>5. CASE UNCHANGED <<lock, frames, running, launched, callback, future>>
  BY <1>1, <1>5 DEF Held, Claimed, ClaimedOnce, Midway, LoopInv
<1>6. CASE Begin
  <2> DEFINE ready == {g \in pending : \A d \in deps[g] : completed[d] # "none"}
  <2>1. /\ frames' = Append(<<>>, [todo |-> ready, gid |-> NoGroup, at |-> "submit"])
        /\ running' = running \cup ready /\ lock = "free" /\ lock' = "main"
        /\ UNCHANGED <<callback, future>>
    BY <1>6 DEF Begin, Claim, poolVars
  <2>2. frames = <<>> /\ Len(frames) = 0 /\ NoGroup \notin Groups
    BY <1>1, <2>1, DAGAssumption, EmptySeq DEF Held
  <2>3. Held' /\ ready \in SUBSET pending
    BY <1>1, <2>1, AppendProperties DEF Held
  <2>4. <<>> \in Seq(Frame) /\ Len(<<>>) = Len(frames)
        /\ \A i \in 1 .. Len(frames) : FALSE
    BY <2>2, EmptySeq
  <2>5. /\ \A h \in Groups \ {NoGroup} : future'[h] = future[h]
        /\ UNCHANGED callback /\ running' = (running \ {NoGroup}) \cup ready
    BY <1>1, <2>1, <2>2 DEF TypeOK
  <2> HIDE DEF ready
  <2> QED
    BY <1>3, <2>1, <2>2, <2>3, <2>4, <2>5
<1>7. CASE Submit
  <2> DEFINE n == Len(frames)
  <2>1. frames # <<>> /\ Top \in Frame /\ n \in 1 .. n /\ Top = frames[n]
    BY <1>7, <1>1, TopFrame DEF Submit
  <2>2. PICK g \in Top.todo :
          /\ frames' = WithTop([todo |-> Top.todo \ {g}, gid |-> g, at |-> "launch"])
          /\ future' = [future EXCEPT ![g] = "queued"]
    BY <1>7 DEF Submit
  <2>3. UNCHANGED <<lock, running, launched, callback>>
    BY <1>7 DEF Submit
  <2> DEFINE f == [todo |-> Top.todo \ {g}, gid |-> g, at |-> "launch"]
  <2>4. /\ g \in Groups /\ f \in Frame
        /\ f.todo = Top.todo \ {g} /\ f.gid = g /\ f.at = "launch"
    BY <2>1 DEF Frame
  <2> HIDE DEF f
  <2>5. /\ frames' # <<>> /\ Len(frames') = n /\ frames'[n] = f
        /\ \A i \in 1 .. n - 1 : frames'[i] = frames[i]
    BY <1>1, <2>1, <2>2, <2>4, WithTopFrames DEF f
  <2>6. \A i \in 1 .. n : i = n \/ i \in 1 .. n - 1
    BY <1>1
  <2>7. g \in running \ callback /\ future[g] = "none"
    BY <1>1, <2>1, <2>4 DEF Claimed, SetsInv
  <2>8. /\ \A h \in Groups \ {g} : future'[h] = future[h]
        /\ future'[g] = "queued"
    BY <1>1, <2>2, <2>4 DEF TypeOK
  <2>9. \A i \in 1 .. n : /\ frames'[i].todo \subseteq frames[i].todo \ {g}
                          /\ i # n => frames'[i].at = "submit"
    BY <1>1, <2>1, <2>4, <2>5, <2>6 DEF ClaimedOnce, Midway
  <2>10. Held'
    BY <1>1, <2>1, <2>3, <2>5, <2>7, <2>8 DEF Held
  <2>11. Claimed' /\ ClaimedOnce'
    BY <1>1, <2>3, <2>5, <2>8, <2>9 DEF Claimed, ClaimedOnce, TypeOK
  <2>12. Midway'
    BY <2>3, <2>4, <2>5, <2>7, <2>8, <2>9 DEF Midway
  <2> QED
    BY <2>10, <2>11, <2>12 DEF LoopInv
<1>8. CASE Launch
  <2> DEFINE n == Len(frames)
             f == [Top EXCEPT !.at = "callback"]
  <2>1. frames # <<>> /\ Top \in Frame /\ n \in 1 .. n /\ Top = frames[n]
    BY <1>8, <1>1, TopFrame DEF Launch
  <2>2. /\ frames' = WithTop(f) /\ Top.at = "launch"
        /\ launched' = launched \cup {Top.gid}
        /\ UNCHANGED <<lock, running, callback, future>>
    BY <1>8 DEF Launch, poolVars
  <2>3. f \in Frame /\ f.todo = Top.todo /\ f.gid = Top.gid /\ f.at = "callback"
    BY <2>1 DEF Frame
  <2>4. /\ frames' # <<>> /\ Len(frames') = n /\ frames'[n] = f
        /\ \A i \in 1 .. n - 1 : frames'[i] = frames[i]
    BY <1>1, <2>1, <2>2, <2>3, WithTopFrames
  <2> HIDE DEF f
  <2>5. \A i \in 1 .. n : i = n \/ i \in 1 .. n - 1
    BY <1>1
  <2>6. \A i \in 1 .. n : /\ frames'[i].todo = frames[i].todo
                          /\ i # n => frames'[i].at = "submit"
    BY <1>1, <2>1, <2>3, <2>4, <2>5 DEF Midway
  <2>7. Top.gid \in running \ callback /\ future[Top.gid] # "none"
    BY <1>1, <2>1, <2>2 DEF Midway
  <2>8. Held' /\ Claimed' /\ ClaimedOnce'
    BY <1>1, <2>1, <2>2, <2>4, <2>6 DEF Held, Claimed, ClaimedOnce
  <2>9. Midway'
    BY <2>1, <2>2, <2>3, <2>4, <2>6, <2>7 DEF Midway
  <2> QED
    BY <2>8, <2>9 DEF LoopInv
<1>9. CASE AddCallback
  <2>1. UNCHANGED <<lock, launched, future>> /\ Top.gid \in Groups
    BY <1>9, <1>1, Registering DEF AddCallback, TypeOK
  <2>2. ASSUME NEW below \in Seq(Frame), below # <<>>, frames # <<>>,
               Len(below) = Len(frames),
               \A i \in 1 .. Len(frames) :
                  below[i].todo = frames[i].todo /\ below[i].at = "submit",
               frames' = below, UNCHANGED running
        PROVE  LoopInv'
    <3>1. Held' /\ Claimed' /\ ClaimedOnce'
      BY ONLY <1>1, <2>1, <2>2 DEF Held, Claimed, ClaimedOnce
    <3>2. Midway'
      BY <2>2 DEF Midway
    <3> QED
      BY <3>1, <3>2 DEF LoopInv
  <2>3. ASSUME NEW below \in Seq(Frame), below # <<>>, frames # <<>>,
               Len(below) = Len(frames),
               \A i \in 1 .. Len(frames) :
                  below[i].todo = frames[i].todo /\ below[i].at = "submit",
               UNCHANGED callback, future[Top.gid] # "none",
               NEW ready \in SUBSET (pending \ Lost(Top.gid)),
               Completes(Top.gid, ready, below)
        PROVE  LoopInv'
    <3>1. /\ frames' = Append(below, [todo |-> ready, gid |-> NoGroup, at |-> "submit"])
          /\ running' = (running \ {Top.gid}) \cup ready
      BY <2>3 DEF Completes
    <3>2. frames' # <<>>
      BY <2>3, <3>1, AppendProperties
    <3>3. Held' /\ ready \in SUBSET pending
      BY <1>1, <2>1, <2>3, <3>2 DEF Held
    <3> QED
      BY <1>3, <2>1, <2>3, <3>1, <3>3
  <2> QED
    BY <1>9, <2>2, <2>3, Registering
<1>10. CASE Unwind
  <2> DEFINE n == Len(frames)
  <2>1. frames # <<>> /\ Top.at = "submit" /\ n \in 1 .. n /\ Top = frames[n]
    BY <1>10, <1>1, TopFrame DEF Unwind
  <2>2. /\ frames' \in Seq(Frame) /\ Len(frames') = n - 1
        /\ \A i \in 1 .. n - 1 : frames'[i] = frames[i]
        /\ frames' = <<>> <=> n = 1
    BY <1>10, <1>1, <2>1, PoppedFrames DEF Unwind
  <2>3. UNCHANGED <<running, launched, callback>>
    BY <1>10 DEF Unwind
  <2>4. \A i \in 1 .. n - 1 : i \in 1 .. n /\ i # n
    BY <1>1
  <2>5. n # 1 => UNCHANGED <<lock, future>>
    BY <1>10 DEF Unwind
  <2>6. n = 1 => /\ lock' = "free"
                 /\ future' = IF lock \in Groups THEN [future EXCEPT ![lock] = "finished"]
                              ELSE future
    BY <1>10 DEF Unwind
  <2>7. Held'
    BY <1>1, <2>1, <2>2, <2>5, <2>6, ZenonT(60) DEF Held, TypeOK
  <2>8. n = 1 => Len(frames') = 0
    BY <2>2
  <2>9. Claimed' /\ ClaimedOnce' /\ Midway'
    <3>1. CASE n = 1
      BY ONLY <2>8, <3>1 DEF Claimed, ClaimedOnce, Midway
    <3>2. CASE n # 1
      BY ONLY <1>1, <2>2, <2>3, <2>4, <2>5, <3>2 DEF Claimed, ClaimedOnce, Midway
    <3> QED
      BY <3>1, <3>2
  <2> QED
    BY <2>7, <2>9 DEF LoopInv
<1>11. CASE Interrupt
  <2>1. frames' = <<>> /\ lock' = "free" /\ lock \in {"free", "main"} /\ UNCHANGED future
    BY <1>11 DEF Interrupt, poolVars
  <2>2. Held' /\ Len(frames') = 0
    BY <1>1, <2>1, EmptySeq DEF Held
  <2> QED
    BY <2>2 DEF LoopInv, Claimed, ClaimedOnce, Midway
<1>12. ASSUME NEW g \in Groups, Decline(g) PROVE LoopInv'
  BY <1>1, <1>2, <1>12 DEF Decline, Resolve, schedVars
<1>13. ASSUME NEW g \in Groups, Execute(g) PROVE LoopInv'
  BY <1>1, <1>2, <1>13 DEF Execute, schedVars
<1>14. ASSUME NEW g \in Groups, ExecuteFails(g) PROVE LoopInv'
  BY <1>1, <1>2, <1>14 DEF ExecuteFails, Resolve, schedVars
<1>15. ASSUME NEW g \in Groups, NEW changes \in BOOLEAN,
               NEW committed \in BOOLEAN, Complete(g, changes, committed) PROVE LoopInv'
  BY <1>1, <1>2, <1>15 DEF Complete, Resolve, schedVars
<1>16. ASSUME NEW g \in Groups, Fail(g) PROVE LoopInv'
  BY <1>1, <1>2, <1>16 DEF Fail, Resolve, schedVars
<1>17. ASSUME NEW g \in Groups, WindDown(g) PROVE LoopInv'
  BY <1>1, <1>2, <1>17 DEF WindDown, Resolve, schedVars
<1>18. ASSUME NEW g \in Groups, Callback(g) PROVE LoopInv'
  <2>1. PICK ready \in SUBSET (pending \ Lost(g)) : Completes(g, ready, <<>>)
    BY <1>18, CallingBack
  <2>2. /\ frames' = Append(<<>>, [todo |-> ready, gid |-> NoGroup, at |-> "submit"])
        /\ running' = (running \ {g}) \cup ready
    BY <2>1 DEF Completes
  <2>3. /\ future[g] = "done" /\ lock = "free" /\ lock' = g /\ UNCHANGED callback
        /\ future' = [future EXCEPT ![g] = "calling"]
    BY <1>18 DEF Callback
  <2>4. frames = <<>> /\ <<>> \in Seq(Frame) /\ Len(<<>>) = Len(frames)
        /\ \A i \in 1 .. Len(frames) : FALSE
    BY <1>1, <2>3, EmptySeq DEF Held
  <2>5. frames' # <<>>
    BY <2>2, <2>4, AppendProperties
  <2>6. Held' /\ ready \in SUBSET pending
    BY <1>18, <1>1, <2>3, <2>5 DEF Held, TypeOK
  <2>7. \A h \in Groups \ {g} : future'[h] = future[h]
    BY <1>1, <2>3 DEF TypeOK
  <2> QED
    BY <1>3, <2>2, <2>3, <2>4, <2>6, <2>7
<1>19. ASSUME UNCHANGED vars
      PROVE  UNCHANGED <<lock, frames, running, launched, callback, future>>
  BY ONLY <1>19 DEF vars, schedVars, stopVars, poolVars, gitVars
<1> QED
  BY <1>1, <1>2, <1>3, <1>4, <1>5, <1>6, <1>7, <1>8, <1>9, <1>10, <1>11, <1>12,
     <1>13, <1>14, <1>15, <1>16, <1>17, <1>18, <1>19
     DEF Next, LoopStep, PickUp, WorkStep

\* The sets stay in step with the pool.
LEMMA NextSetsInv == DAGInv /\ Next => SetsInv'
<1> SUFFICES ASSUME DAGInv, Next PROVE SetsInv'
  OBVIOUS
<1>1. /\ TypeOK /\ LoopInv /\ SetsInv /\ DepsInv /\ RanInv /\ WorktreeInv
      /\ scenario' = scenario /\ deps' = deps
  BY GraphFixed DEF DAGInv
<1>2. ASSUME NEW g \in running, outcome[g] # "none",
             NEW ready \in SUBSET (pending \ Lost(g)), NEW below, Completes(g, ready, below),
             future[g] \in {"done", "finished"}, future'[g] \in {"calling", "finished"},
             \A h \in Groups \ {g} : future'[h] = future[h],
             UNCHANGED <<launched, callback, outcome, interrupts>>
      PROVE  SetsInv'
  <2>1. Lost(g) \subseteq pending /\ g \in Groups
    BY <1>1, <1>2, LostIsPending DEF TypeOK
  <2>2. /\ \A h \in Groups \ {g} : completed'[h] = completed[h]
        /\ completed'[g] \in {"none", outcome[g]}
    BY <1>1, <1>2, <2>1 DEF Completes, Done, TypeOK, SetsInv
  <2>3. /\ skipped' = skipped \cup Lost(g) \cup (IF outcome[g] = "skipped" THEN {g} ELSE {})
        /\ pending' = (pending \ Lost(g)) \ ready /\ running' = (running \ {g}) \cup ready
    BY <1>2 DEF Completes
  <2>4. outcome[g] = "skipped" => completed'[g] = "none"
    BY <1>1, <1>2, <2>1 DEF Completes, Done, SetsInv
  <2>5. /\ pending' \cup running' \cup skipped' \subseteq DOMAIN deps
        /\ pending' \cap (running' \cup skipped') = {} /\ running' \cap skipped' = {}
        /\ callback \subseteq launched
    BY <1>1, <1>2, <2>1, <2>3 DEF SetsInv
  <2> HIDE DEF Lost
  <2>6. ASSUME NEW h \in Groups
        PROVE  /\ future'[h] # "none" => h \in DOMAIN deps
               /\ h \in pending' => future'[h] = "none"
               /\ h \in pending' \cup running' => completed'[h] = "none"
               /\ h \in running' => /\ future'[h] # "calling"
                                    /\ ~(future'[h] = "finished" /\ h \in callback)
               /\ completed'[h] # "none" =>
                    future'[h] \in {"calling", "finished"} /\ completed'[h] = outcome[h]
               /\ h \in callback => future'[h] # "none"
               /\ h \in callback /\ future'[h] \in {"queued", "executing"} => h \in running'
               /\ future'[h] = "done" => h \in callback /\ h \in running'
               /\ interrupts = 0 /\ future'[h] \in {"queued", "executing"} => h \in running'
    <3>1. CASE h = g
      BY <1>1, <1>2, <2>1, <2>2, <2>3, <3>1 DEF SetsInv
    <3>2. CASE h # g
      BY <1>1, <1>2, <2>1, <2>2, <2>3, <3>2 DEF SetsInv
    <3> QED
      BY <3>1, <3>2
  <2> QED
    BY <1>1, <1>2, <2>5, <2>6 DEF SetsInv
<1>3. ASSUME NEW g \in Groups, future[g] \in {"queued", "executing"}, NEW status \in Statuses,
             outcome' = [outcome EXCEPT ![g] = status],
             future' = [future EXCEPT ![g] = IF g \in callback THEN "done" ELSE "finished"],
             UNCHANGED <<pending, running, launched, skipped, completed, callback, interrupts>>
      PROVE  SetsInv'
  <2>1. /\ \A h \in Groups \ {g} : future'[h] = future[h] /\ outcome'[h] = outcome[h]
        /\ future'[g] = IF g \in callback THEN "done" ELSE "finished"
    BY <1>1, <1>3 DEF TypeOK
  <2> QED
    BY <1>1, <1>3, <2>1 DEF SetsInv
<1>4. ASSUME \/ Tick \/ Converge \/ Return \/ RequestStop
      PROVE  UNCHANGED <<pending, running, launched, skipped, completed,
                         future, callback, outcome, interrupts>>
  BY ONLY <1>4 DEF Tick, Converge, Return, RequestStop, vars, schedVars,
     stopVars, poolVars, gitVars
<1>5. CASE UNCHANGED <<pending, running, launched, skipped, completed, future,
                       callback, outcome, interrupts>>
  BY <1>1, <1>5 DEF SetsInv
<1>6. CASE Begin
  <2> DEFINE ready == {g \in pending : \A d \in deps[g] : completed[d] # "none"}
  <2>1. /\ ready \subseteq pending /\ pending' = pending \ ready
        /\ running' = running \cup ready
        /\ UNCHANGED <<launched, skipped, completed, future, callback, outcome, interrupts>>
    BY <1>6 DEF Begin, Claim, poolVars, stopVars
  <2> HIDE DEF ready
  <2> QED
    BY <1>1, <2>1 DEF SetsInv, TypeOK
<1>7. CASE Submit
  <2>1. frames # <<>> /\ frames \in Seq(Frame)
    BY <1>7, <1>1 DEF Submit, TypeOK, Frame
  <2>2. PICK g \in Top.todo : future' = [future EXCEPT ![g] = "queued"]
    BY <1>7 DEF Submit
  <2>3. Top = frames[Len(frames)] /\ Len(frames) \in 1 .. Len(frames)
    BY <2>1, TopFrame
  <2>4. g \in running /\ future[g] = "none" /\ g \in Groups
    BY <1>1, <2>3 DEF LoopInv, Claimed, TypeOK
  <2>5. UNCHANGED <<pending, running, launched, skipped, completed, callback, outcome, interrupts>>
    BY <1>7 DEF Submit, stopVars
  <2> QED
    BY <1>1, <2>2, <2>4, <2>5 DEF SetsInv, TypeOK
<1>8. CASE Launch
  <2>1. launched \subseteq launched'
        /\ UNCHANGED <<pending, running, skipped, completed, future, callback, outcome, interrupts>>
    BY <1>8 DEF Launch, poolVars, stopVars
  <2> QED
    BY <1>1, <2>1 DEF SetsInv
<1>9. CASE AddCallback
  <2> DEFINE g == Top.gid
  <2>1. g \in (running \cap launched) \ callback /\ future[g] # "none" /\ g \in Groups
    BY <1>9, <1>1, Registering DEF TypeOK
  <2>2. UNCHANGED <<launched, future, outcome, interrupts>>
    BY <1>9 DEF AddCallback, stopVars
  <2> HIDE DEF g
  <2>3. CASE future[g] # "finished" /\ callback' = callback \cup {g}
             /\ UNCHANGED <<pending, running, completed, skipped>>
    BY <1>1, <2>1, <2>2, <2>3 DEF SetsInv
  <2>4. CASE future[g] = "finished" /\ outcome[g] # "none" /\ UNCHANGED callback
    <3>1. ASSUME NEW below, NEW ready \in SUBSET (pending \ Lost(g)), Completes(g, ready, below)
          PROVE  SetsInv'
      BY <1>1, <1>2, <2>1, <2>2, <2>4, <3>1
    <3> QED
      BY <1>9, <2>4, <3>1, Registering DEF g
  <2> QED
    BY <1>9, <2>3, <2>4, Registering DEF g
<1>10. CASE Unwind
  <2>1. /\ \/ UNCHANGED future
           \/ lock \in Groups /\ future' = [future EXCEPT ![lock] = "finished"]
        /\ UNCHANGED <<pending, running, launched, skipped, completed, callback, outcome, interrupts>>
    BY <1>10 DEF Unwind, stopVars
  <2>2. \A g \in Groups : lock = g => future[g] = "calling"
    BY <1>1 DEF LoopInv, Held
  <2> QED
    BY <1>1, <2>1, <2>2 DEF SetsInv, TypeOK
<1>11. CASE BeginStop
  <2>1. /\ pending' = {} /\ skipped' = skipped \cup pending
        /\ UNCHANGED <<running, launched, completed, future, callback, outcome, interrupts>>
    BY <1>11 DEF BeginStop, poolVars
  <2> QED
    BY <1>1, <2>1 DEF SetsInv
<1>12. CASE Interrupt
  <2>1. /\ pending' = {} /\ skipped' = skipped \cup pending \cup (running \ launched)
        /\ running' = running \cap launched /\ interrupts' = interrupts + 1
        /\ UNCHANGED <<launched, completed, future, callback, outcome>>
    BY <1>12 DEF Interrupt, poolVars
  <2>2. interrupts' # 0
    <3>1. scenario.interrupts \in Nat /\ interrupts \in 0 .. scenario.interrupts
      BY <1>1, DAGAssumption DEF SetsInv, TypeOK
    <3> QED
      BY ONLY <2>1, <3>1
  <2> QED
    BY <1>1, <2>1, <2>2 DEF SetsInv
<1>13. ASSUME NEW g \in Groups, Decline(g) PROVE SetsInv'
  <2>1. /\ future[g] \in {"queued", "executing"}
        /\ outcome' = [outcome EXCEPT ![g] = "skipped"]
        /\ future' = [future EXCEPT ![g] = IF g \in callback THEN "done" ELSE "finished"]
        /\ UNCHANGED <<pending, running, launched, skipped, completed, callback, interrupts>>
    BY <1>13 DEF Decline, Resolve, schedVars, stopVars
  <2> QED
    BY <1>13, <1>1, <1>3, <2>1 DEF Statuses
<1>14. ASSUME NEW g \in Groups, Execute(g) PROVE SetsInv'
  <2>1. /\ future[g] = "queued" /\ future' = [future EXCEPT ![g] = "executing"]
        /\ UNCHANGED <<pending, running, launched, skipped, completed, callback, outcome, interrupts>>
    BY <1>14 DEF Execute, schedVars, stopVars
  <2> QED
    BY <1>14, <1>1, <2>1 DEF SetsInv, TypeOK
<1>15. ASSUME NEW g \in Groups, ExecuteFails(g) PROVE SetsInv'
  <2>1. /\ future[g] \in {"queued", "executing"}
        /\ outcome' = [outcome EXCEPT ![g] = "failed"]
        /\ future' = [future EXCEPT ![g] = IF g \in callback THEN "done" ELSE "finished"]
        /\ UNCHANGED <<pending, running, launched, skipped, completed, callback, interrupts>>
    BY <1>15 DEF ExecuteFails, Resolve, schedVars, stopVars
  <2> QED
    BY <1>15, <1>1, <1>3, <2>1 DEF Statuses
<1>16. ASSUME NEW g \in Groups, NEW changes \in BOOLEAN,
               NEW committed \in BOOLEAN, Complete(g, changes, committed) PROVE SetsInv'
  <2>1. /\ future[g] \in {"queued", "executing"}
        /\ outcome' = [outcome EXCEPT ![g] = "completed"]
        /\ future' = [future EXCEPT ![g] = IF g \in callback THEN "done" ELSE "finished"]
        /\ UNCHANGED <<pending, running, launched, skipped, completed, callback, interrupts>>
    BY <1>16 DEF Complete, Resolve, schedVars, stopVars
  <2> QED
    BY <1>16, <1>1, <1>3, <2>1 DEF Statuses
<1>17. ASSUME NEW g \in Groups, Fail(g) PROVE SetsInv'
  <2>1. /\ future[g] \in {"queued", "executing"}
        /\ outcome' = [outcome EXCEPT ![g] = "failed"]
        /\ future' = [future EXCEPT ![g] = IF g \in callback THEN "done" ELSE "finished"]
        /\ UNCHANGED <<pending, running, launched, skipped, completed, callback, interrupts>>
    BY <1>17 DEF Fail, Resolve, schedVars, stopVars
  <2> QED
    BY <1>17, <1>1, <1>3, <2>1 DEF Statuses
<1>18. ASSUME NEW g \in Groups, WindDown(g) PROVE SetsInv'
  <2>1. /\ future[g] \in {"queued", "executing"}
        /\ outcome' = [outcome EXCEPT ![g] = "interrupted"]
        /\ future' = [future EXCEPT ![g] = IF g \in callback THEN "done" ELSE "finished"]
        /\ UNCHANGED <<pending, running, launched, skipped, completed, callback, interrupts>>
    BY <1>18 DEF WindDown, Resolve, schedVars, stopVars
  <2> QED
    BY <1>18, <1>1, <1>3, <2>1 DEF Statuses
<1>19. ASSUME NEW g \in Groups, Callback(g) PROVE SetsInv'
  <2>1. g \in running /\ g \in callback /\ outcome[g] # "none" /\ future[g] = "done"
    BY <1>19, CallingBack
  <2>2. PICK ready \in SUBSET (pending \ Lost(g)) : Completes(g, ready, <<>>)
    BY <1>19, CallingBack
  <2>3. /\ future' = [future EXCEPT ![g] = "calling"]
        /\ UNCHANGED <<launched, callback, outcome, interrupts>>
    BY <1>19 DEF Callback, stopVars
  <2> QED
    BY <1>1, <1>2, <2>1, <2>2, <2>3 DEF TypeOK
<1>20. ASSUME UNCHANGED vars
      PROVE  UNCHANGED <<pending, running, launched, skipped, completed,
                         future, callback, outcome, interrupts>>
  BY ONLY <1>20 DEF vars, schedVars, stopVars, poolVars, gitVars
<1> QED
  BY <1>1, <1>2, <1>3, <1>4, <1>5, <1>6, <1>7, <1>8, <1>9, <1>10, <1>11, <1>12,
     <1>13, <1>14, <1>15, <1>16, <1>17, <1>18, <1>19, <1>20
     DEF Next, LoopStep, PickUp, WorkStep

\* What was claimed had all its dependencies completed.
LEMMA NextDepsInv == DAGInv /\ Next => DepsInv'
<1> SUFFICES ASSUME DAGInv, Next PROVE DepsInv'
  OBVIOUS
<1>1. /\ TypeOK /\ LoopInv /\ SetsInv /\ DepsInv /\ RanInv /\ WorktreeInv
      /\ scenario' = scenario /\ deps' = deps
  BY GraphFixed DEF DAGInv
<1>2. ASSUME UNCHANGED <<pending, running, skipped, completed>>,
             \A h \in Groups : future'[h] = "none" <=> future[h] = "none"
      PROVE  DepsInv'
  BY <1>1, <1>2 DEF DepsInv, TypeOK
<1>3. ASSUME NEW g \in running, outcome[g] # "none", future[g] # "none",
             NEW ready \in SUBSET (pending \ Lost(g)), NEW below, Completes(g, ready, below),
             \A h \in Groups : future'[h] = "none" <=> future[h] = "none"
      PROVE  DepsInv'
  <2>1. /\ Lost(g) \subseteq pending /\ g \in Groups /\ completed[g] = "none"
        /\ outcome[g] # "completed" => Children(deps, g) \cap pending \subseteq Lost(g)
    BY <1>1, <1>3, LostIsPending DEF TypeOK, SetsInv
  <2>2. /\ \A h \in Groups \ {g} : completed'[h] = completed[h]
        /\ completed'[g] \in {"none", outcome[g]}
    BY <1>1, <1>3, <2>1 DEF Completes, Done, TypeOK
  <2>3. /\ skipped' = skipped \cup Lost(g) \cup (IF outcome[g] = "skipped" THEN {g} ELSE {})
        /\ pending' = (pending \ Lost(g)) \ ready /\ running' = (running \ {g}) \cup ready
        /\ \A h \in ready : \A d \in deps[h] : completed'[d] = "completed"
    BY <1>3 DEF Completes
  <2>4. \A h \in DOMAIN deps : h \in Groups /\ deps[h] \subseteq Groups
    BY <1>1, GraphTyped DEF SetsInv
  <2>5. \A h \in DOMAIN deps : g \in deps[h] <=> h \in Children(deps, g)
    BY DEF Children
  <2> HIDE DEF Lost
  <2>6. ASSUME NEW h \in DOMAIN deps, h \in running' \/ future'[h] # "none", NEW d \in deps[h]
        PROVE  completed'[d] = "completed"
    <3>1. CASE h \in ready
      BY <2>3, <3>1
    <3>2. CASE h \notin ready
      BY <1>1, <1>3, <2>1, <2>2, <2>3, <2>4, <2>6, <3>2 DEF DepsInv
    <3> QED
      BY <3>1, <3>2
  <2>7. ASSUME NEW h \in DOMAIN deps, h \in pending', NEW d \in deps[h]
        PROVE  completed'[d] \in {"none", "completed"}
    <3>1. h \in pending \ Lost(g)
      BY <2>3, <2>7
    <3>2. CASE d = g
      BY <2>1, <2>2, <2>5, <2>7, <3>1, <3>2
    <3>3. CASE d # g
      BY <1>1, <2>2, <2>4, <2>7, <3>1, <3>3 DEF DepsInv
    <3> QED
      BY <3>2, <3>3
  <2>8. ASSUME NEW h \in DOMAIN deps
        PROVE  h \in pending' \cup running' \cup skipped' \/ future'[h] # "none"
    BY <1>1, <1>3, <2>3, <2>4 DEF DepsInv
  <2> QED
    BY <1>1, <2>6, <2>7, <2>8 DEF DepsInv
<1>4. ASSUME \/ Launch \/ Tick \/ Converge \/ Return \/ RequestStop
      PROVE  UNCHANGED <<pending, running, skipped, completed, future>>
  BY ONLY <1>4 DEF Launch, Tick, Converge, Return, RequestStop, vars,
     schedVars, stopVars, poolVars, gitVars
<1>5. CASE UNCHANGED <<pending, running, skipped, completed, future>>
  BY <1>1, <1>5 DEF DepsInv
<1>6. CASE Begin
  <2> DEFINE ready == {g \in pending : \A d \in deps[g] : completed[d] # "none"}
  <2>1. /\ pending' = pending \ ready /\ running' = running \cup ready
        /\ UNCHANGED <<skipped, completed, future>>
    BY <1>6 DEF Begin, Claim, poolVars, stopVars
  <2>2. /\ ready \subseteq pending /\ pending \subseteq DOMAIN deps
        /\ \A g \in ready : \A d \in deps[g] : completed[d] = "completed"
    BY <1>1 DEF SetsInv, DepsInv
  <2> HIDE DEF ready
  <2> QED
    BY <1>1, <2>1, <2>2 DEF DepsInv
<1>7. CASE Submit
  <2>1. frames # <<>> /\ frames \in Seq(Frame)
    BY <1>7, <1>1 DEF Submit, TypeOK, Frame
  <2>2. PICK g \in Top.todo : future' = [future EXCEPT ![g] = "queued"]
    BY <1>7 DEF Submit
  <2>3. Top = frames[Len(frames)] /\ Len(frames) \in 1 .. Len(frames)
    BY <2>1, TopFrame
  <2>4. g \in running /\ g \in Groups
    BY <1>1, <2>3 DEF LoopInv, Claimed, TypeOK
  <2>5. UNCHANGED <<pending, running, skipped, completed>>
    BY <1>7 DEF Submit
  <2> QED
    BY <1>1, <2>2, <2>4, <2>5 DEF DepsInv, TypeOK
<1>8. CASE AddCallback
  <2>1. Top.gid \in running /\ future[Top.gid] # "none" /\ UNCHANGED future
    BY <1>8, Registering DEF AddCallback
  <2>2. CASE UNCHANGED <<pending, running, completed, skipped>>
    BY <1>1, <2>1, <2>2 DEF DepsInv
  <2>3. ASSUME NEW below, NEW ready \in SUBSET (pending \ Lost(Top.gid)),
               Completes(Top.gid, ready, below), outcome[Top.gid] # "none"
        PROVE  DepsInv'
    BY <1>3, <2>1, <2>3
  <2> QED
    BY <1>8, <2>2, <2>3, Registering
<1>9. CASE Unwind
  <2>1. /\ \/ UNCHANGED future
           \/ lock \in Groups /\ future' = [future EXCEPT ![lock] = "finished"]
        /\ UNCHANGED <<pending, running, skipped, completed>>
    BY <1>9 DEF Unwind
  <2>2. \A g \in Groups : lock = g => future[g] = "calling"
    BY <1>1 DEF LoopInv, Held
  <2> QED
    BY <1>1, <2>1, <2>2 DEF DepsInv, TypeOK
<1>10. CASE BeginStop
  <2>1. /\ pending' = {} /\ skipped' = skipped \cup pending
        /\ UNCHANGED <<running, completed, future>>
    BY <1>10 DEF BeginStop, poolVars
  <2> QED
    BY <1>1, <2>1 DEF DepsInv
<1>11. CASE Interrupt
  <2>1. /\ pending' = {} /\ skipped' = skipped \cup pending \cup (running \ launched)
        /\ running' = running \cap launched
        /\ UNCHANGED <<completed, future>>
    BY <1>11 DEF Interrupt, poolVars
  <2> QED
    BY <1>1, <2>1 DEF DepsInv
<1>12. ASSUME NEW g \in Groups, Decline(g) PROVE DepsInv'
  <2>1. future[g] # "none" /\ UNCHANGED <<pending, running, skipped, completed>>
    BY <1>12 DEF Decline, schedVars
  <2>2. \A h \in Groups : future'[h] = "none" <=> future[h] = "none"
    BY <1>12, <1>1, <2>1 DEF TypeOK, Decline, Resolve
  <2> QED
    BY <1>2, <2>1, <2>2
<1>13. ASSUME NEW g \in Groups, Execute(g) PROVE DepsInv'
  <2>1. future[g] # "none" /\ UNCHANGED <<pending, running, skipped, completed>>
    BY <1>13 DEF Execute, schedVars
  <2>2. \A h \in Groups : future'[h] = "none" <=> future[h] = "none"
    BY <1>13, <1>1, <2>1 DEF TypeOK, Execute
  <2> QED
    BY <1>2, <2>1, <2>2
<1>14. ASSUME NEW g \in Groups, ExecuteFails(g) PROVE DepsInv'
  <2>1. future[g] # "none" /\ UNCHANGED <<pending, running, skipped, completed>>
    BY <1>14 DEF ExecuteFails, schedVars
  <2>2. \A h \in Groups : future'[h] = "none" <=> future[h] = "none"
    BY <1>14, <1>1, <2>1 DEF TypeOK, ExecuteFails, Resolve
  <2> QED
    BY <1>2, <2>1, <2>2
<1>15. ASSUME NEW g \in Groups, NEW changes \in BOOLEAN,
               NEW committed \in BOOLEAN, Complete(g, changes, committed) PROVE DepsInv'
  <2>1. future[g] # "none" /\ UNCHANGED <<pending, running, skipped, completed>>
    BY <1>15 DEF Complete, schedVars
  <2>2. \A h \in Groups : future'[h] = "none" <=> future[h] = "none"
    BY <1>15, <1>1, <2>1 DEF TypeOK, Complete, Resolve
  <2> QED
    BY <1>2, <2>1, <2>2
<1>16. ASSUME NEW g \in Groups, Fail(g) PROVE DepsInv'
  <2>1. future[g] # "none" /\ UNCHANGED <<pending, running, skipped, completed>>
    BY <1>16 DEF Fail, schedVars
  <2>2. \A h \in Groups : future'[h] = "none" <=> future[h] = "none"
    BY <1>16, <1>1, <2>1 DEF TypeOK, Fail, Resolve
  <2> QED
    BY <1>2, <2>1, <2>2
<1>17. ASSUME NEW g \in Groups, WindDown(g) PROVE DepsInv'
  <2>1. future[g] # "none" /\ UNCHANGED <<pending, running, skipped, completed>>
    BY <1>17 DEF WindDown, schedVars
  <2>2. \A h \in Groups : future'[h] = "none" <=> future[h] = "none"
    BY <1>17, <1>1, <2>1 DEF TypeOK, WindDown, Resolve
  <2> QED
    BY <1>2, <2>1, <2>2
<1>18. ASSUME NEW g \in Groups, Callback(g) PROVE DepsInv'
  <2>1. g \in running /\ outcome[g] # "none" /\ future[g] = "done"
    BY <1>18, CallingBack
  <2>2. PICK ready \in SUBSET (pending \ Lost(g)) : Completes(g, ready, <<>>)
    BY <1>18, CallingBack
  <2>3. future' = [future EXCEPT ![g] = "calling"]
    BY <1>18 DEF Callback
  <2>4. \A h \in Groups : future'[h] = "none" <=> future[h] = "none"
    BY <1>18, <1>1, <2>1, <2>3 DEF TypeOK
  <2> QED
    BY <1>3, <2>1, <2>2, <2>4
<1>19. ASSUME UNCHANGED vars
      PROVE  UNCHANGED <<pending, running, skipped, completed, future>>
  BY ONLY <1>19 DEF vars, schedVars, stopVars, poolVars, gitVars
<1> QED
  BY <1>1, <1>2, <1>3, <1>4, <1>5, <1>6, <1>7, <1>8, <1>9, <1>10, <1>11, <1>12,
     <1>13, <1>14, <1>15, <1>16, <1>17, <1>18, <1>19
     DEF Next, LoopStep, PickUp, WorkStep

\* How often a group ran is told by its future and its result.
LEMMA NextRanInv == DAGInv /\ Next => RanInv'
<1> SUFFICES ASSUME DAGInv, Next PROVE RanInv'
  OBVIOUS
<1>1. /\ TypeOK /\ LoopInv /\ SetsInv /\ DepsInv /\ RanInv /\ WorktreeInv
      /\ scenario' = scenario /\ deps' = deps
  BY GraphFixed DEF DAGInv
<1>2. ASSUME NEW g \in running, outcome[g] # "none", future[g] \in {"done", "finished"},
             NEW ready \in SUBSET (pending \ Lost(g)), NEW below, Completes(g, ready, below),
             \A h \in Groups \ {g} : future'[h] = future[h],
             future'[g] \in {"calling", "finished"}, UNCHANGED <<outcome, ran, interrupts>>
      PROVE  RanInv'
  <2>1. /\ Lost(g) \subseteq pending /\ g \in Groups /\ completed[g] = "none"
        /\ g \notin skipped
    BY <1>1, <1>2, LostIsPending DEF TypeOK, SetsInv
  <2>2. /\ \A h \in Groups \ {g} : completed'[h] = completed[h]
        /\ outcome[g] = "skipped" => completed'[g] = "none"
    BY <1>1, <1>2, <2>1 DEF Completes, Done, TypeOK
  <2>3. skipped' = skipped \cup Lost(g) \cup (IF outcome[g] = "skipped" THEN {g} ELSE {})
    BY <1>2 DEF Completes
  <2>4. \A h \in pending : future[h] = "none" /\ completed[h] = "none" /\ h # g
    BY <1>1, <1>2 DEF SetsInv, TypeOK
  <2> HIDE DEF Lost
  <2>5. \A h \in Groups \ {g} :
          interrupts = 0 /\ h \in skipped' => ran[h] = 0 /\ completed'[h] = "none"
    BY <1>1, <2>1, <2>2, <2>3, <2>4 DEF RanInv
  <2>6. g \in skipped' => ran[g] = 0 /\ completed'[g] = "none"
    BY <1>1, <1>2, <2>1, <2>2, <2>3, <2>4 DEF RanInv
  <2> QED
    BY <1>1, <1>2, <2>1, <2>5, <2>6 DEF RanInv
<1>3. ASSUME \/ Begin \/ Launch \/ Tick \/ Converge \/ Return \/ RequestStop
      PROVE  UNCHANGED <<skipped, completed, future, outcome, ran, interrupts>>
  BY ONLY <1>3 DEF Begin, Launch, Tick, Converge, Return, RequestStop, vars,
     schedVars, stopVars, poolVars, gitVars
<1>4. CASE UNCHANGED <<skipped, completed, future, outcome, ran, interrupts>>
  BY <1>1, <1>4 DEF RanInv
<1>5. CASE Submit
  <2>1. frames # <<>> /\ frames \in Seq(Frame)
    BY <1>5, <1>1 DEF Submit, TypeOK, Frame
  <2>2. PICK g \in Top.todo : future' = [future EXCEPT ![g] = "queued"]
    BY <1>5 DEF Submit
  <2>3. Top = frames[Len(frames)] /\ Len(frames) \in 1 .. Len(frames)
    BY <2>1, TopFrame
  <2>4. future[g] = "none" /\ g \in Groups
    BY <1>1, <2>3 DEF LoopInv, Claimed, TypeOK
  <2>5. UNCHANGED <<skipped, completed, outcome, ran, interrupts>>
    BY <1>5 DEF Submit, stopVars
  <2> QED
    BY <1>1, <2>2, <2>4, <2>5 DEF RanInv, TypeOK
<1>6. CASE AddCallback
  <2>1. /\ Top.gid \in running /\ future[Top.gid] # "none"
        /\ UNCHANGED <<future, outcome, ran, interrupts>>
    BY <1>6, Registering DEF AddCallback, stopVars
  <2>2. CASE UNCHANGED <<completed, skipped>>
    BY <1>1, <2>1, <2>2 DEF RanInv
  <2>3. ASSUME NEW below, NEW ready \in SUBSET (pending \ Lost(Top.gid)),
               Completes(Top.gid, ready, below), outcome[Top.gid] # "none",
               future[Top.gid] = "finished"
        PROVE  RanInv'
    BY <1>2, <2>1, <2>3
  <2> QED
    BY <1>6, <2>2, <2>3, Registering
<1>7. CASE Unwind
  <2>1. /\ \/ UNCHANGED future
           \/ lock \in Groups /\ future' = [future EXCEPT ![lock] = "finished"]
        /\ UNCHANGED <<skipped, completed, outcome, ran, interrupts>>
    BY <1>7 DEF Unwind, stopVars
  <2>2. \A g \in Groups : lock = g => future[g] = "calling"
    BY <1>1 DEF LoopInv, Held
  <2> QED
    BY <1>1, <2>1, <2>2 DEF RanInv, TypeOK
<1>8. CASE BeginStop
  <2>1. /\ skipped' = skipped \cup pending
        /\ UNCHANGED <<completed, future, outcome, ran, interrupts>>
    BY <1>8 DEF BeginStop, poolVars
  <2> QED
    BY <1>1, <2>1 DEF RanInv, SetsInv
<1>9. CASE Interrupt
  <2>1. interrupts' # 0 /\ UNCHANGED <<future, outcome, ran>>
    <3>1. scenario.interrupts \in Nat /\ interrupts \in 0 .. scenario.interrupts
      BY <1>1, DAGAssumption DEF SetsInv, TypeOK
    <3>2. interrupts' = interrupts + 1 /\ UNCHANGED <<future, outcome, ran>>
      BY <1>9 DEF Interrupt, poolVars
    <3> QED
      BY ONLY <3>1, <3>2
  <2> QED
    BY <1>1, <2>1 DEF RanInv
<1>10. ASSUME NEW g \in Groups, Decline(g) PROVE RanInv'
  <2>1. /\ future[g] = "queued"
        /\ outcome' = [outcome EXCEPT ![g] = "skipped"]
        /\ future' = [future EXCEPT ![g] = IF g \in callback THEN "done" ELSE "finished"]
        /\ UNCHANGED <<skipped, completed, ran, interrupts>>
    BY <1>10 DEF Decline, Resolve, schedVars, stopVars
  <2> QED
    BY <1>10, <1>1, <2>1 DEF RanInv, TypeOK
<1>11. ASSUME NEW g \in Groups, Execute(g) PROVE RanInv'
  <2>1. /\ future[g] = "queued" /\ future' = [future EXCEPT ![g] = "executing"]
        /\ ran' = [ran EXCEPT ![g] = @ + 1]
        /\ UNCHANGED <<skipped, completed, outcome, interrupts>>
    BY <1>11 DEF Execute, schedVars, stopVars
  <2>2. interrupts = 0 => g \notin skipped
    BY <1>11, <1>1, <2>1 DEF SetsInv
  <2> QED
    BY <1>11, <1>1, <2>1, <2>2 DEF RanInv, TypeOK
<1>12. ASSUME NEW g \in Groups, ExecuteFails(g) PROVE RanInv'
  <2>1. /\ future[g] = "queued" /\ ran' = [ran EXCEPT ![g] = @ + 1]
        /\ outcome' = [outcome EXCEPT ![g] = "failed"]
        /\ future' = [future EXCEPT ![g] = IF g \in callback THEN "done" ELSE "finished"]
        /\ UNCHANGED <<skipped, completed, interrupts>>
    BY <1>12 DEF ExecuteFails, Resolve, schedVars, stopVars
  <2>2. interrupts = 0 => g \notin skipped
    BY <1>12, <1>1, <2>1 DEF SetsInv
  <2> QED
    BY <1>12, <1>1, <2>1, <2>2 DEF RanInv, TypeOK
<1>13. ASSUME NEW g \in Groups, NEW changes \in BOOLEAN,
               NEW committed \in BOOLEAN, Complete(g, changes, committed) PROVE RanInv'
  <2>1. /\ future[g] = "executing"
        /\ outcome' = [outcome EXCEPT ![g] = "completed"]
        /\ future' = [future EXCEPT ![g] = IF g \in callback THEN "done" ELSE "finished"]
        /\ UNCHANGED <<skipped, completed, ran, interrupts>>
    BY <1>13 DEF Complete, Resolve, schedVars, stopVars
  <2> QED
    BY <1>13, <1>1, <2>1 DEF RanInv, TypeOK
<1>14. ASSUME NEW g \in Groups, Fail(g) PROVE RanInv'
  <2>1. /\ future[g] = "executing"
        /\ outcome' = [outcome EXCEPT ![g] = "failed"]
        /\ future' = [future EXCEPT ![g] = IF g \in callback THEN "done" ELSE "finished"]
        /\ UNCHANGED <<skipped, completed, ran, interrupts>>
    BY <1>14 DEF Fail, Resolve, schedVars, stopVars
  <2> QED
    BY <1>14, <1>1, <2>1 DEF RanInv, TypeOK
<1>15. ASSUME NEW g \in Groups, WindDown(g) PROVE RanInv'
  <2>1. /\ future[g] = "executing"
        /\ outcome' = [outcome EXCEPT ![g] = "interrupted"]
        /\ future' = [future EXCEPT ![g] = IF g \in callback THEN "done" ELSE "finished"]
        /\ UNCHANGED <<skipped, completed, ran, interrupts>>
    BY <1>15 DEF WindDown, Resolve, schedVars, stopVars
  <2> QED
    BY <1>15, <1>1, <2>1 DEF RanInv, TypeOK
<1>16. ASSUME NEW g \in Groups, Callback(g) PROVE RanInv'
  <2>1. g \in running /\ outcome[g] # "none" /\ future[g] = "done"
    BY <1>16, CallingBack
  <2>2. PICK ready \in SUBSET (pending \ Lost(g)) : Completes(g, ready, <<>>)
    BY <1>16, CallingBack
  <2>3. /\ future' = [future EXCEPT ![g] = "calling"]
        /\ UNCHANGED <<outcome, ran, interrupts>>
    BY <1>16 DEF Callback, stopVars
  <2> QED
    BY <1>16, <1>1, <1>2, <2>1, <2>2, <2>3 DEF TypeOK
<1>17. ASSUME UNCHANGED vars
      PROVE  UNCHANGED <<skipped, completed, future, outcome, ran, interrupts>>
  BY ONLY <1>17 DEF vars, schedVars, stopVars, poolVars, gitVars
<1> QED
  BY <1>1, <1>2, <1>3, <1>4, <1>5, <1>6, <1>7, <1>8, <1>9, <1>10, <1>11, <1>12,
     <1>13, <1>14, <1>15, <1>16, <1>17
     DEF Next, LoopStep, PickUp, WorkStep

\* Worktrees stay apart.
LEMMA NextWorktreeInv == DAGInv /\ Next => WorktreeInv'
<1> SUFFICES ASSUME DAGInv, Next PROVE WorktreeInv'
  OBVIOUS
<1>1. /\ TypeOK /\ LoopInv /\ SetsInv /\ DepsInv /\ RanInv /\ WorktreeInv
      /\ scenario' = scenario /\ deps' = deps
  BY GraphFixed DEF DAGInv
<1>2. ASSUME UNCHANGED <<wt, content, outcome>>,
             \A h \in Groups : future'[h] \in {"none", "queued"} <=> future[h] \in {"none", "queued"},
             \A h \in Groups : future'[h] = "executing" => future[h] = "executing"
      PROVE  WorktreeInv'
  <2>1. \A h : Relay(h)' = Relay(h) /\ (HandedOn(h)' <=> HandedOn(h))
    BY <1>1, <1>2 DEF Relay, HandedOn
  <2>2. \A h \in Groups :
          /\ wt'[h] # NoGroup => /\ future'[h] \notin {"none", "queued"}
                                 /\ wt'[h] \in DOMAIN content'
          /\ future'[h] = "executing" \/ outcome'[h] = "completed" => wt'[h] # NoGroup
    BY <1>1, <1>2 DEF WorktreeInv
  <2>3. /\ \A h \in Groups :
             wt'[h] # NoGroup /\ Relay(h)' # NoGroup => wt'[h] = wt'[Relay(h)']
        /\ \A c \in DOMAIN content' : wt'[c] = c
        /\ \A h, k \in Groups : h # k /\ wt'[h] = wt'[k] /\ wt'[h] # NoGroup =>
             HandedOn(h)' \/ HandedOn(k)'
    BY <1>1, <1>2, <2>1 DEF WorktreeInv
  <2> QED
    BY <2>2, <2>3 DEF WorktreeInv
<1>3. ASSUME NEW g \in Groups, NEW status, UNCHANGED wt, DOMAIN content' = DOMAIN content,
             outcome' = [outcome EXCEPT ![g] = status],
             future' = [future EXCEPT ![g] = IF g \in callback THEN "done" ELSE "finished"],
             status = "completed" => wt[g] # NoGroup
      PROVE  WorktreeInv'
  <2>1. \A h : Relay(h)' = Relay(h) /\ (HandedOn(h)' <=> HandedOn(h))
    BY <1>1, <1>3 DEF Relay, HandedOn
  <2>2. /\ \A h \in Groups \ {g} : outcome'[h] = outcome[h] /\ future'[h] = future[h]
        /\ outcome'[g] = status /\ future'[g] \in {"done", "finished"}
    BY <1>1, <1>3 DEF TypeOK
  <2> QED
    BY <1>1, <1>3, <2>1, <2>2 DEF WorktreeInv
<1>4. ASSUME \/ Begin \/ Launch \/ AddCallback \/ BeginStop \/ Tick
             \/ Interrupt \/ Converge \/ Return \/ RequestStop
      PROVE  UNCHANGED <<wt, content, future, outcome>>
  BY ONLY <1>4 DEF Begin, Launch, AddCallback, BeginStop, Tick, Interrupt,
     Converge, Return, RequestStop, vars, schedVars, stopVars, poolVars,
     gitVars
<1>5. CASE UNCHANGED <<wt, content, future, outcome>>
  BY <1>2, <1>5
<1>6. CASE Submit
  <2>1. frames # <<>> /\ frames \in Seq(Frame)
    BY <1>6, <1>1 DEF Submit, TypeOK, Frame
  <2>2. PICK g \in Top.todo : future' = [future EXCEPT ![g] = "queued"]
    BY <1>6 DEF Submit
  <2>3. Top = frames[Len(frames)] /\ Len(frames) \in 1 .. Len(frames)
    BY <2>1, TopFrame
  <2>4. future[g] = "none" /\ g \in Groups
    BY <1>1, <2>3 DEF LoopInv, Claimed, TypeOK
  <2>5. UNCHANGED <<wt, content, outcome>>
    BY <1>6 DEF Submit, gitVars
  <2>6. \A h \in Groups :
          /\ future'[h] \in {"none", "queued"} <=> future[h] \in {"none", "queued"}
          /\ future'[h] = "executing" => future[h] = "executing"
    BY <1>1, <2>2, <2>4 DEF TypeOK
  <2> QED
    BY <1>2, <2>5, <2>6
<1>7. CASE Unwind
  <2>1. /\ \/ UNCHANGED future
           \/ lock \in Groups /\ future' = [future EXCEPT ![lock] = "finished"]
        /\ UNCHANGED <<wt, content, outcome>>
    BY <1>7 DEF Unwind, gitVars
  <2>2. \A g \in Groups : lock = g => future[g] = "calling"
    BY <1>1 DEF LoopInv, Held
  <2>3. \A h \in Groups :
          /\ future'[h] \in {"none", "queued"} <=> future[h] \in {"none", "queued"}
          /\ future'[h] = "executing" => future[h] = "executing"
    BY <1>1, <2>1, <2>2 DEF TypeOK
  <2> QED
    BY <1>2, <2>1, <2>3
<1>8. ASSUME NEW g \in Groups, Decline(g) PROVE WorktreeInv'
  <2>1. /\ outcome' = [outcome EXCEPT ![g] = "skipped"]
        /\ future' = [future EXCEPT ![g] = IF g \in callback THEN "done" ELSE "finished"]
        /\ UNCHANGED <<wt, content>>
    BY <1>8 DEF Decline, Resolve, gitVars
  <2>2. future[g] \in {"queued", "executing"}
    BY <1>8, <1>1 DEF Decline
  <2> QED
    BY <1>8, <1>1, <1>3, <2>1, <2>2
<1>9. ASSUME NEW g \in Groups, Execute(g) PROVE WorktreeInv'
  <2> DEFINE w == Worktree(g)
  <2>1. /\ g \in DOMAIN deps /\ wt[g] = NoGroup /\ w \in Groups /\ w # NoGroup
        /\ Relay(g) # NoGroup =>
             Relay(g) \in deps[g] /\ w = wt[Relay(g)] /\ wt[Relay(g)] \in DOMAIN content
        /\ Relay(g) = NoGroup => w = g /\ g \notin DOMAIN content
    BY <1>9, <1>1, Starting, DAGAssumption
  <2>2. DOMAIN content' = DOMAIN content \cup {w}
    BY <1>9, <1>1, StartedBranch
  <2>3. /\ future' = [future EXCEPT ![g] = "executing"] /\ wt' = [wt EXCEPT ![g] = w]
        /\ UNCHANGED outcome
    BY <1>9 DEF Execute
  <2>4. Relay(g) # NoGroup => Relay(g) \in Groups /\ Heir(deps, Order, Relay(g)) = g
    BY <1>1, <2>1, RelayPreds, GraphTyped DEF SetsInv
  <2> HIDE DEF w
  <2>5. /\ \A h \in Groups \ {g} : wt'[h] = wt[h] /\ future'[h] = future[h]
        /\ wt'[g] = w /\ future'[g] = "executing"
    BY <1>9, <1>1, <2>3 DEF TypeOK
  <2>6. \A h \in Groups : Relay(h)' = Relay(h)
    BY <1>1 DEF Relay
  <2>7. \A h \in Groups : HandedOn(h) => HandedOn(h)'
    BY <1>1, <2>1, <2>5, <2>6, GraphTyped DEF HandedOn, SetsInv
  <2>8. ASSUME NEW k \in Groups, k = Relay(g) PROVE HandedOn(k)'
    BY <1>1, <2>1, <2>5, <2>6, <2>8 DEF HandedOn
  <2>9. Relay(g) # NoGroup => ~HandedOn(Relay(g))
    <3> SUFFICES ASSUME Relay(g) # NoGroup, NEW x \in DOMAIN deps,
                        wt[x] # NoGroup, Relay(x) = Relay(g)
                 PROVE  FALSE
      BY DEF HandedOn
    <3>1. Heir(deps, Order, Relay(x)) = x
      BY <1>1, RelayPreds DEF SetsInv
    <3> QED
      BY <2>1, <2>4, <3>1
  <2>10. ASSUME NEW k \in Groups \ {g}, wt[k] = w PROVE HandedOn(k)'
    <3>1. Relay(g) # NoGroup
      BY <1>9, <1>1, <2>1, <2>10 DEF WorktreeInv
    <3>2. CASE k = Relay(g)
      BY <2>8, <3>1, <3>2
    <3>3. CASE k # Relay(g)
      BY <1>1, <2>1, <2>4, <2>7, <2>9, <2>10, <3>1, <3>3 DEF WorktreeInv
    <3> QED
      BY <3>2, <3>3
  <2>11. ASSUME NEW h \in Groups, NEW k \in Groups, h # k, wt'[h] = wt'[k], wt'[h] # NoGroup
         PROVE  HandedOn(h)' \/ HandedOn(k)'
    <3>1. CASE h = g
      BY <2>5, <2>10, <2>11, <3>1
    <3>2. CASE k = g
      BY <2>5, <2>10, <2>11, <3>2
    <3>3. CASE h # g /\ k # g
      BY <1>1, <2>5, <2>7, <2>11, <3>3 DEF WorktreeInv
    <3> QED
      BY <3>1, <3>2, <3>3
  <2>12. \A c \in DOMAIN content' : wt'[c] = c
    <3>1. \A c \in DOMAIN content : c \in Groups /\ wt[c] = c /\ c # g
      BY <1>1, <2>1, DAGAssumption DEF WorktreeInv, TypeOK
    <3> QED
      BY <2>1, <2>2, <2>5, <3>1
  <2>13. ASSUME NEW h \in Groups
         PROVE  /\ wt'[h] # NoGroup => /\ future'[h] \notin {"none", "queued"}
                                       /\ wt'[h] \in DOMAIN content'
                /\ future'[h] = "executing" \/ outcome'[h] = "completed" => wt'[h] # NoGroup
    BY <1>1, <2>1, <2>2, <2>3, <2>5, <2>13 DEF WorktreeInv
  <2>14. ASSUME NEW h \in Groups, wt'[h] # NoGroup, Relay(h) # NoGroup
         PROVE  wt'[h] = wt'[Relay(h)]
    <3>1. CASE h = g
      BY <2>1, <2>4, <2>5, <2>14, <3>1
    <3>2. CASE h # g
      <4>1. wt[h] = wt[Relay(h)] /\ wt[h] # NoGroup
        BY <1>1, <2>5, <2>14, <3>2 DEF WorktreeInv
      <4>2. h \in DOMAIN deps
        BY <1>1, <4>1 DEF WorktreeInv, SetsInv
      <4>3. Relay(h) \in Groups \ {g}
        BY <1>1, <2>1, <2>14, <4>1, <4>2, RelayPreds, GraphTyped DEF SetsInv
      <4> QED
        BY <2>5, <3>2, <4>1, <4>3
    <3> QED
      BY <3>1, <3>2
  <2> QED
    BY <2>6, <2>11, <2>12, <2>13, <2>14 DEF WorktreeInv
<1>10. ASSUME NEW g \in Groups, ExecuteFails(g) PROVE WorktreeInv'
  <2>1. /\ outcome' = [outcome EXCEPT ![g] = "failed"]
        /\ future' = [future EXCEPT ![g] = IF g \in callback THEN "done" ELSE "finished"]
        /\ UNCHANGED <<wt, content>>
    BY <1>10 DEF ExecuteFails, Resolve, gitVars
  <2>2. future[g] \in {"queued", "executing"}
    BY <1>10, <1>1 DEF ExecuteFails
  <2> QED
    BY <1>10, <1>1, <1>3, <2>1, <2>2
<1>11. ASSUME NEW g \in Groups, NEW changes \in BOOLEAN,
               NEW committed \in BOOLEAN, Complete(g, changes, committed) PROVE WorktreeInv'
  <2>1. /\ outcome' = [outcome EXCEPT ![g] = "completed"]
        /\ future' = [future EXCEPT ![g] = IF g \in callback THEN "done" ELSE "finished"]
        /\ UNCHANGED wt
    BY <1>11 DEF Complete, Resolve, gitVars
  <2>2. wt[g] # NoGroup /\ DOMAIN content' = DOMAIN content
    BY <1>11, <1>1 DEF Complete, WorktreeInv
  <2> QED
    BY <1>11, <1>1, <1>3, <2>1, <2>2
<1>12. ASSUME NEW g \in Groups, Fail(g) PROVE WorktreeInv'
  <2>1. /\ outcome' = [outcome EXCEPT ![g] = "failed"]
        /\ future' = [future EXCEPT ![g] = IF g \in callback THEN "done" ELSE "finished"]
        /\ UNCHANGED <<wt, content>>
    BY <1>12 DEF Fail, Resolve, gitVars
  <2>2. future[g] \in {"queued", "executing"}
    BY <1>12, <1>1 DEF Fail
  <2> QED
    BY <1>12, <1>1, <1>3, <2>1, <2>2
<1>13. ASSUME NEW g \in Groups, WindDown(g) PROVE WorktreeInv'
  <2>1. /\ outcome' = [outcome EXCEPT ![g] = "interrupted"]
        /\ future' = [future EXCEPT ![g] = IF g \in callback THEN "done" ELSE "finished"]
        /\ UNCHANGED <<wt, content>>
    BY <1>13 DEF WindDown, Resolve, gitVars
  <2>2. future[g] \in {"queued", "executing"}
    BY <1>13, <1>1 DEF WindDown
  <2> QED
    BY <1>13, <1>1, <1>3, <2>1, <2>2
<1>14. ASSUME NEW g \in Groups, Callback(g) PROVE WorktreeInv'
  <2>1. /\ future[g] = "done" /\ future' = [future EXCEPT ![g] = "calling"]
        /\ UNCHANGED <<wt, content, outcome>>
    BY <1>14 DEF Callback, gitVars
  <2>2. \A h \in Groups :
          /\ future'[h] \in {"none", "queued"} <=> future[h] \in {"none", "queued"}
          /\ future'[h] = "executing" => future[h] = "executing"
    BY <1>14, <1>1, <2>1 DEF TypeOK
  <2> QED
    BY <1>2, <2>1, <2>2
<1>15. ASSUME UNCHANGED vars PROVE UNCHANGED <<wt, content, future, outcome>>
  BY ONLY <1>15 DEF vars, schedVars, stopVars, poolVars, gitVars
<1> QED
  BY <1>1, <1>2, <1>3, <1>4, <1>5, <1>6, <1>7, <1>8, <1>9, <1>10, <1>11, <1>12,
     <1>13, <1>14, <1>15
     DEF Next, LoopStep, PickUp, WorkStep

\* What a group depends on is a dependency, or what one of them depends on.
LEMMA AncestorsStep ==
    ASSUME scenario \in Scenarios, NEW g \in DOMAIN deps, NEW d \in Ancestors(g)
    PROVE  d \in deps[g] \/ \E p \in deps[g] : d \in Ancestors(p)
<1> DEFINE S == {h \in DOMAIN deps : d \in deps[h] \/ \E p \in deps[h] : d \in Ancestors(p)}
<1>1. d \in Groups /\ g \in Downstream(deps, d, {})
  BY DEF Ancestors
<1>2. DOMAIN deps \subseteq Groups /\ \A h \in DOMAIN deps : deps[h] \subseteq DOMAIN deps
  BY GraphTyped
<1>3. Children(deps, d) \subseteq S
  BY DEF Children
<1>4. ASSUME NEW z \in S, NEW y \in Children(deps, z) PROVE y \in S
  <2>1. y \in DOMAIN deps /\ z \in deps[y] /\ z \in DOMAIN deps
    BY <1>4 DEF Children
  <2>2. z \in Downstream(deps, d, {})
    <3>1. CASE d \in deps[z]
      BY <2>1, <3>1, DownstreamClosed DEF Children
    <3>2. ASSUME NEW p \in deps[z], d \in Ancestors(p)
          PROVE  z \in Downstream(deps, d, {})
      <4>1. p \in Downstream(deps, d, {}) /\ z \in Children(deps, p)
        BY <2>1, <3>2 DEF Ancestors, Children
      <4> QED
        BY <4>1, DownstreamClosed
    <3> QED
      BY <1>4, <3>1, <3>2
  <2>3. d \in Ancestors(z)
    BY <1>1, <2>2 DEF Ancestors
  <2> QED
    BY <2>1, <2>3
<1>5. S \in SUBSET DOMAIN deps /\ \A z \in S \ {} : Children(deps, z) \subseteq S
  BY <1>4
<1> HIDE DEF S
<1>6. Downstream(deps, d, {}) \subseteq S \ {}
  BY <1>3, <1>5, DownstreamLeast
<1> QED
  BY <1>1, <1>6 DEF S

\* The branch a group would report is its worktree's, or the name of a group
\* that worked in it.
LEMMA BranchNameFits ==
    ASSUME TypeOK, SetsInv, WorktreeInv, CommitInv, NEW g \in Groups, future[g] = "executing"
    PROVE  LET b == BranchName(g)
           IN /\ b \in Groups /\ wt[g] \in DOMAIN content /\ wt[g] # NoGroup
              /\ b = wt[g] \/ wt[b] = wt[g]
<1>1. g \in DOMAIN deps /\ wt[g] # NoGroup /\ wt[g] \in DOMAIN content /\ scenario \in Scenarios
  BY DEF SetsInv, WorktreeInv
<1>2. /\ BranchName(g) \in Groups
      /\ BranchName(g) # g => Relay(g) \in deps[g] /\ BranchName(g) = named[Relay(g)]
  BY <1>1, BranchNameTyped
<1>3. CASE BranchName(g) = g
  BY <1>1, <1>2, <1>3
<1>4. CASE BranchName(g) # g
  <2>1. Relay(g) \in Groups /\ Relay(g) # NoGroup /\ named[Relay(g)] # NoGroup
    BY <1>1, <1>2, <1>4, GraphTyped, DAGAssumption
  <2>2. wt[g] = wt[Relay(g)]
    BY <1>1, <2>1 DEF WorktreeInv
  <2>3. \/ named[Relay(g)] = wt[Relay(g)]
        \/ wt[named[Relay(g)]] = wt[Relay(g)]
    BY <2>1 DEF CommitInv
  <2> QED
    BY <1>1, <1>2, <1>4, <2>2, <2>3
<1> QED
  BY <1>3, <1>4



\* Commits reach every group that starts after them.
LEMMA NextCommitInv == DAGInv /\ Next => CommitInv'
<1> SUFFICES ASSUME DAGInv, Next PROVE CommitInv'
  OBVIOUS
<1>1. /\ TypeOK /\ LoopInv /\ SetsInv /\ DepsInv /\ RanInv /\ WorktreeInv /\ CommitInv
      /\ scenario' = scenario /\ deps' = deps
  BY GraphFixed DEF DAGInv
<1>2. \A h : Ancestors(h)' = Ancestors(h) /\ Ancestors(h) \subseteq Groups
  BY <1>1 DEF Ancestors
<1>3. ASSUME UNCHANGED <<content, wt, outcome, named>>,
             \A h \in Groups : completed[h] = "completed" => completed'[h] = "completed"
      PROVE  CommitInv'
  <2>1. \A x : Committed(x)' <=> Committed(x)
    BY <1>3 DEF Committed
  <2> QED
    BY <1>1, <1>2, <1>3, <2>1 DEF CommitInv
<1>4. ASSUME NEW g \in Groups, future[g] \in {"queued", "executing"},
             NEW status, status # "completed", outcome' = [outcome EXCEPT ![g] = status],
             UNCHANGED <<content, wt, completed>>,
             \/ UNCHANGED named
             \/ \E b \in Groups : /\ named' = [named EXCEPT ![g] = b] /\ wt[g] # NoGroup
                                  /\ b = wt[g] \/ wt[b] = wt[g]
      PROVE  CommitInv'
  <2>1. \A x : Committed(x)' <=> Committed(x)
    BY <1>4 DEF Committed
  <2>2. outcome[g] = "none" /\ ~Committed(g)
    BY <1>1, <1>4 DEF RanInv, CommitInv
  <2>3. /\ \A h \in Groups \ {g} : outcome'[h] = outcome[h] /\ named'[h] = named[h]
        /\ outcome'[g] # "completed"
        /\ \/ named'[g] = named[g]
           \/ /\ named'[g] \in Groups /\ wt[g] # NoGroup
              /\ named'[g] = wt[g] \/ wt[named'[g]] = wt[g]
    BY <1>1, <1>4 DEF TypeOK
  <2>4. \A h \in Groups :
          /\ Committed(h)' => outcome'[h] = "completed" /\ h \in content'[wt'[h]]
          /\ outcome'[h] = "completed" /\ named'[h] = NoGroup => deps'[h] = {} /\ ~Committed(h)'
    BY <1>1, <1>4, <2>1, <2>2, <2>3 DEF CommitInv
  <2>5. \A h \in Groups : wt'[h] # NoGroup => \A d \in Ancestors(h) :
          completed'[d] = "completed" /\ (Committed(d)' => d \in content'[wt'[h]])
    BY <1>1, <1>2, <1>4, <2>1 DEF CommitInv
  <2>6. \A h \in Groups : named'[h] # NoGroup =>
          \/ named'[h] = wt'[h]
          \/ named'[h] \in Groups /\ wt'[named'[h]] = wt'[h] /\ wt'[h] # NoGroup
    BY <1>1, <1>4, <2>3 DEF CommitInv
  <2> QED
    BY <1>2, <2>4, <2>5, <2>6 DEF CommitInv
<1>5. ASSUME \/ Begin \/ Submit \/ Launch \/ Unwind \/ BeginStop \/ Tick
             \/ Interrupt \/ Converge \/ Return
      PROVE  UNCHANGED <<content, wt, completed, outcome, named>>
  BY ONLY <1>5 DEF Begin, Submit, Launch, Unwind, BeginStop, Tick, Interrupt,
     Converge, Return, vars, schedVars, stopVars, poolVars, gitVars
<1>6. ASSUME RequestStop
      PROVE  UNCHANGED <<content, wt, completed, outcome, named>>
  BY ONLY <1>6 DEF RequestStop, schedVars, stopVars, poolVars, gitVars
<1>7. CASE UNCHANGED <<content, wt, completed, outcome, named>>
  BY <1>3, <1>7
<1>8. CASE AddCallback
  <2>1. Top.gid \in running /\ UNCHANGED <<content, wt, outcome, named>>
    BY <1>8, Registering DEF AddCallback, gitVars
  <2>2. CASE UNCHANGED completed
    BY <1>3, <2>1, <2>2
  <2>3. ASSUME NEW below, NEW ready \in SUBSET (pending \ Lost(Top.gid)),
               Completes(Top.gid, ready, below)
        PROVE  CommitInv'
    <3>1. \A h \in Groups : completed[h] = "completed" => completed'[h] = "completed"
      BY <1>1, <2>1, <2>3 DEF Completes, Done, SetsInv, TypeOK
    <3> QED
      BY <1>3, <2>1, <3>1
  <2> QED
    BY <1>8, <2>2, <2>3, Registering
<1>9. ASSUME NEW g \in Groups, Decline(g) PROVE CommitInv'
  <2>1. /\ future[g] \in {"queued", "executing"} /\ outcome' = [outcome EXCEPT ![g] = "skipped"]
        /\ UNCHANGED named /\ UNCHANGED <<content, wt, completed>>
    BY <1>9 DEF Decline, Resolve, schedVars, gitVars
  <2> QED
    BY <1>9, <1>1, <1>4, <2>1
<1>10. ASSUME NEW g \in Groups, Execute(g) PROVE CommitInv'
  <2> DEFINE w == Worktree(g)
  <2>1. /\ g \in DOMAIN deps /\ wt[g] = NoGroup /\ w \in Groups /\ w # NoGroup
        /\ \A d \in deps[g] : /\ completed[d] = "completed" /\ outcome[d] = "completed"
                              /\ wt[d] # NoGroup /\ wt[d] \in DOMAIN content
        /\ Relay(g) # NoGroup => Relay(g) \in deps[g] /\ w = wt[Relay(g)]
    BY <1>10, <1>1, Starting, DAGAssumption
  <2>2. /\ DOMAIN content' = DOMAIN content \cup {w}
        /\ \A c \in DOMAIN content \ {w} : content'[c] = content[c]
        /\ w \in DOMAIN content => content[w] \subseteq content'[w]
        /\ \A x \in content'[w] : Committed(x)
        /\ \A d \in deps[g] : named[d] # NoGroup /\ d # Relay(g) =>
             named[d] \in DOMAIN content /\ content[named[d]] \subseteq content'[w]
    BY <1>10, <1>1, StartedBranch
  <2>3. wt' = [wt EXCEPT ![g] = w] /\ UNCHANGED <<outcome, completed, named>>
    BY <1>10 DEF Execute, schedVars
  <2> HIDE DEF w
  <2>4. /\ \A h \in Groups \ {g} : wt'[h] = wt[h]
        /\ wt'[g] = w /\ deps[g] \subseteq Groups /\ g \in Groups
    BY <1>10, <1>1, <2>1, <2>3, GraphTyped DEF TypeOK, SetsInv
  <2>5. outcome[g] = "none"
    BY <1>10, <1>1 DEF Execute, RanInv
  <2>6. \A c \in DOMAIN content : content[c] \subseteq content'[c]
    BY <2>2
  <2>7. \A x : Committed(x)' <=> Committed(x)
    BY <2>2, <2>6 DEF Committed
  <2>8. ASSUME NEW p \in deps[g] PROVE \/ deps[p] = {} /\ ~Committed(p)
                                      \/ content[wt[p]] \subseteq content'[w]
    <3>1. CASE p = Relay(g)
      BY <1>1, <2>1, <2>2, <2>4, <2>8, <3>1, DAGAssumption
    <3>2. CASE p # Relay(g) /\ named[p] = NoGroup
      BY <1>1, <2>1, <2>4, <2>8, <3>2 DEF CommitInv
    <3>3. CASE p # Relay(g) /\ named[p] # NoGroup
      <4>1. named[p] \in DOMAIN content /\ content[named[p]] \subseteq content'[w]
        BY <2>2, <2>8, <3>3
      <4>2. wt[named[p]] = named[p]
        BY <1>1, <4>1 DEF WorktreeInv
      <4>3. named[p] = wt[p] \/ wt[named[p]] = wt[p]
        BY <1>1, <2>4, <2>8, <3>3 DEF CommitInv
      <4> QED
        BY <4>1, <4>2, <4>3
    <3> QED
      BY <3>1, <3>2, <3>3
  <2>9. ASSUME NEW d \in Ancestors(g)
        PROVE  completed[d] = "completed" /\ (Committed(d) => d \in content'[w])
    <3>1. CASE d \in deps[g]
      <4>1. Committed(d) => d \in content[wt[d]]
        BY <1>1, <2>4, <3>1 DEF CommitInv
      <4> QED
        BY <2>1, <2>8, <3>1, <4>1
    <3>2. ASSUME NEW p \in deps[g], d \in Ancestors(p)
          PROVE  completed[d] = "completed" /\ (Committed(d) => d \in content'[w])
      <4>1. /\ completed[d] = "completed"
            /\ Committed(d) => d \in content[wt[p]]
        BY <1>1, <2>1, <2>4, <3>2 DEF CommitInv
      <4>2. p \in DOMAIN deps
        BY <1>1, <2>1, <3>2, GraphTyped DEF SetsInv
      <4>3. deps[p] # {}
        BY <1>1, <3>2, <4>2, AncestorsStep DEF SetsInv
      <4> QED
        BY <2>8, <3>2, <4>1, <4>3
    <3> QED
      BY <1>1, <2>1, <2>9, <3>1, <3>2, AncestorsStep DEF SetsInv
  <2>10. ASSUME NEW h \in Groups
         PROVE  Committed(h)' => outcome'[h] = "completed" /\ h \in content'[wt'[h]]
    <3> SUFFICES ASSUME Committed(h) PROVE outcome[h] = "completed" /\ h \in content'[wt'[h]]
      BY <2>3, <2>7
    <3>1. outcome[h] = "completed" /\ h \in content[wt[h]] /\ h # g
      BY <1>1, <2>5 DEF CommitInv
    <3>2. wt[h] \in DOMAIN content /\ wt'[h] = wt[h]
      BY <1>1, <2>4, <3>1 DEF WorktreeInv
    <3> QED
      BY <2>6, <3>1, <3>2
  <2>11. ASSUME NEW h \in Groups, wt'[h] # NoGroup, NEW d \in Ancestors(h)
         PROVE  completed'[d] = "completed" /\ (Committed(d)' => d \in content'[wt'[h]])
    <3>1. CASE h = g
      BY <2>3, <2>4, <2>7, <2>9, <2>11, <3>1
    <3>2. CASE h # g
      <4>1. wt'[h] = wt[h] /\ wt[h] \in DOMAIN content
        BY <1>1, <2>4, <2>11, <3>2 DEF WorktreeInv
      <4>2. completed[d] = "completed" /\ (Committed(d) => d \in content[wt[h]])
        BY <1>1, <2>11, <4>1 DEF CommitInv
      <4> QED
        BY <2>3, <2>6, <2>7, <4>1, <4>2
    <3> QED
      BY <3>1, <3>2
  <2>12. ASSUME NEW h \in Groups
         PROVE  /\ outcome'[h] = "completed" /\ named'[h] = NoGroup =>
                     deps'[h] = {} /\ ~Committed(h)'
                /\ named'[h] # NoGroup =>
                     \/ named'[h] = wt'[h]
                     \/ /\ named'[h] \in Groups /\ wt'[named'[h]] = wt'[h]
                        /\ wt'[h] # NoGroup
    <3>1. /\ outcome[h] = "completed" /\ named[h] = NoGroup => deps[h] = {} /\ ~Committed(h)
          /\ named[h] # NoGroup =>
                \/ named[h] = wt[h]
                \/ named[h] \in Groups /\ wt[named[h]] = wt[h] /\ wt[h] # NoGroup
      BY <1>1, <2>12 DEF CommitInv
    <3>2. named[h] # NoGroup => h # g /\ (named[h] = wt[h] \/ named[h] # g)
      BY <2>1, <3>1
    <3> QED
      BY <1>1, <2>3, <2>4, <2>7, <3>1, <3>2
  <2> QED
    BY <1>2, <2>10, <2>11, <2>12 DEF CommitInv
<1>11. ASSUME NEW g \in Groups, ExecuteFails(g) PROVE CommitInv'
  <2>1. /\ future[g] \in {"queued", "executing"} /\ outcome' = [outcome EXCEPT ![g] = "failed"]
        /\ UNCHANGED named /\ UNCHANGED <<content, wt, completed>>
    BY <1>11 DEF ExecuteFails, Resolve, schedVars, gitVars
  <2> QED
    BY <1>11, <1>1, <1>4, <2>1
<1>12. ASSUME NEW g \in Groups, NEW changes \in BOOLEAN,
               NEW committed \in BOOLEAN, Complete(g, changes, committed) PROVE CommitInv'
  <2> DEFINE w == wt[g]
             b == BranchName(g)
  <2>1. /\ future[g] = "executing" /\ outcome' = [outcome EXCEPT ![g] = "completed"]
        /\ content' = IF committed THEN [content EXCEPT ![w] = @ \cup {g}] ELSE content
        /\ UNCHANGED <<wt, completed>>
    BY <1>12 DEF Complete, Resolve, schedVars
  <2>2. b \in Groups /\ w \in DOMAIN content /\ w # NoGroup /\ (b = w \/ wt[b] = w)
    BY <1>12, <1>1, <2>1, BranchNameFits
  <2>3. named' = [named EXCEPT ![g] =
           IF changes \/ Relay(g) # NoGroup \/ Fork(g) # NoGroup THEN b ELSE NoGroup]
    BY <1>12 DEF Complete
  <2>4. committed => changes
    BY <1>12 DEF Complete
  <2>5. g \in DOMAIN deps /\ outcome[g] = "none" /\ completed[g] = "none"
    BY <1>12, <1>1, <2>1 DEF SetsInv, RanInv
  <2>6. ~Committed(g)
    BY <1>12, <1>1, <2>5 DEF CommitInv
  <2>7. deps[g] # {} => Relay(g) # NoGroup \/ Fork(g) # NoGroup
    BY <1>1, <2>5, RelayPreds DEF SetsInv
  <2>8. /\ \A h \in Groups \ {g} : outcome'[h] = outcome[h] /\ named'[h] = named[h]
        /\ outcome'[g] = "completed"
        /\ named'[g] = IF changes \/ Relay(g) # NoGroup \/ Fork(g) # NoGroup THEN b ELSE NoGroup
    BY <1>12, <1>1, <2>1, <2>3 DEF TypeOK
  <2> HIDE DEF w, b
  <2>9. /\ DOMAIN content' = DOMAIN content
        /\ \A c \in DOMAIN content : /\ content[c] \subseteq content'[c]
                                     /\ content'[c] \subseteq content[c] \cup {g}
        /\ committed => g \in content'[w]
        /\ ~committed => content' = content
    BY <2>1, <2>2
  <2>10. /\ \A h : h # g => (Committed(h)' <=> Committed(h))
         /\ Committed(g)' => committed
    BY <2>6, <2>9 DEF Committed
  <2>11. ASSUME NEW h \in Groups
         PROVE  Committed(h)' => outcome'[h] = "completed" /\ h \in content'[wt'[h]]
    <3>1. CASE h = g
      BY <2>1, <2>8, <2>9, <2>10, <3>1 DEF w
    <3>2. CASE h # g
      <4> SUFFICES ASSUME Committed(h) PROVE outcome[h] = "completed" /\ h \in content'[wt[h]]
        BY <2>1, <2>8, <2>10, <3>2
      <4>1. outcome[h] = "completed" /\ h \in content[wt[h]]
        BY <1>1 DEF CommitInv
      <4>2. wt[h] \in DOMAIN content
        BY <1>1, <4>1 DEF WorktreeInv
      <4> QED
        BY <2>9, <4>1, <4>2
    <3> QED
      BY <3>1, <3>2
  <2>12. ASSUME NEW h \in Groups, wt'[h] # NoGroup, NEW d \in Ancestors(h)
         PROVE  completed'[d] = "completed" /\ (Committed(d)' => d \in content'[wt'[h]])
    <3>1. wt[h] # NoGroup /\ wt[h] \in DOMAIN content
      BY <1>1, <2>1, <2>12 DEF WorktreeInv
    <3>2. completed[d] = "completed" /\ (Committed(d) => d \in content[wt[h]])
      BY <1>1, <2>12, <3>1 DEF CommitInv
    <3> QED
      BY <2>1, <2>5, <2>9, <2>10, <3>1, <3>2
  <2>13. ASSUME NEW h \in Groups
         PROVE  /\ outcome'[h] = "completed" /\ named'[h] = NoGroup =>
                     deps'[h] = {} /\ ~Committed(h)'
                /\ named'[h] # NoGroup =>
                     \/ named'[h] = wt'[h]
                     \/ /\ named'[h] \in Groups /\ wt'[named'[h]] = wt'[h]
                        /\ wt'[h] # NoGroup
    <3>1. CASE h = g
      <4>1. named'[g] = NoGroup => deps[g] = {} /\ ~Committed(g)'
        BY <2>2, <2>4, <2>7, <2>8, <2>10, DAGAssumption
      <4>2. named'[g] # NoGroup => named'[g] = b /\ (b = wt[g] \/ wt[b] = wt[g])
        BY <2>2, <2>8 DEF w
      <4> QED
        BY <1>1, <2>1, <2>2, <3>1, <4>1, <4>2 DEF w
    <3>2. CASE h # g
      <4>1. /\ outcome[h] = "completed" /\ named[h] = NoGroup => deps[h] = {} /\ ~Committed(h)
            /\ named[h] # NoGroup =>
                  \/ named[h] = wt[h]
                  \/ named[h] \in Groups /\ wt[named[h]] = wt[h] /\ wt[h] # NoGroup
        BY <1>1, <2>13 DEF CommitInv
      <4> QED
        BY <1>1, <2>1, <2>8, <2>10, <3>2, <4>1
    <3> QED
      BY <3>1, <3>2
  <2> QED
    BY <1>2, <2>11, <2>12, <2>13 DEF CommitInv
<1>13. ASSUME NEW g \in Groups, Fail(g) PROVE CommitInv'
  <2>1. /\ future[g] \in {"queued", "executing"} /\ outcome' = [outcome EXCEPT ![g] = "failed"]
        /\ UNCHANGED named /\ UNCHANGED <<content, wt, completed>>
    BY <1>13 DEF Fail, Resolve, schedVars, gitVars
  <2> QED
    BY <1>13, <1>1, <1>4, <2>1
<1>14. ASSUME NEW g \in Groups, WindDown(g) PROVE CommitInv'
  <2>1. /\ future[g] = "executing" /\ outcome' = [outcome EXCEPT ![g] = "interrupted"]
        /\ named' = [named EXCEPT ![g] = BranchName(g)] /\ UNCHANGED <<content, wt, completed>>
    BY <1>14 DEF WindDown, Resolve, schedVars, gitVars
  <2>2. LET b == BranchName(g)
        IN /\ b \in Groups /\ wt[g] \in DOMAIN content /\ wt[g] # NoGroup
           /\ b = wt[g] \/ wt[b] = wt[g]
    BY <1>14, <1>1, <2>1, BranchNameFits
  <2> QED
    BY <1>14, <1>1, <1>4, <2>1, <2>2 DEF TypeOK
<1>15. ASSUME NEW g \in Groups, Callback(g) PROVE CommitInv'
  <2>1. g \in running /\ UNCHANGED <<content, wt, outcome, named>>
    BY <1>15, CallingBack DEF Callback, gitVars
  <2>2. PICK ready \in SUBSET (pending \ Lost(g)) : Completes(g, ready, <<>>)
    BY <1>15, CallingBack
  <2>3. \A h \in Groups : completed[h] = "completed" => completed'[h] = "completed"
    BY <1>1, <2>1, <2>2 DEF Completes, Done, SetsInv, TypeOK
  <2> QED
    BY <1>3, <2>1, <2>3
<1>16. ASSUME UNCHANGED vars
      PROVE  UNCHANGED <<content, wt, completed, outcome, named>>
  BY ONLY <1>16 DEF vars, schedVars, stopVars, poolVars, gitVars
<1> QED
  BY <1>1, <1>2, <1>3, <1>4, <1>5, <1>6, <1>7, <1>8, <1>9, <1>10, <1>11, <1>12,
     <1>13, <1>14, <1>15, <1>16
     DEF Next, LoopStep, PickUp, WorkStep

-----------------------------------------------------------------------------
(* The invariant and what follows from it.                                 *)

\* Nothing has happened at the start.
LEMMA InitDAGInv == Init => DAGInv
<1> SUFFICES ASSUME Init PROVE DAGInv
  OBVIOUS
<1>1. /\ scenario \in Scenarios /\ DOMAIN deps \subseteq Groups
      /\ scenario.interrupts \in Nat /\ Groups \cap {NoGroup, "free", "main"} = {}
  BY GraphTyped, DAGAssumption DEF Init
<1>2. /\ pending = DOMAIN deps /\ running = {} /\ launched = {} /\ skipped = {}
      /\ callback = {} /\ lock = "free" /\ interrupts = 0
      /\ completed = [g \in Groups |-> "none"] /\ future = [g \in Groups |-> "none"]
      /\ outcome = [g \in Groups |-> "none"] /\ ran = [g \in Groups |-> 0]
      /\ wt = [g \in Groups |-> NoGroup] /\ named = [g \in Groups |-> NoGroup]
  BY DEF Init
<1>3. frames = <<>> /\ frames \in Seq(Frame) /\ Len(frames) = 0
  BY EmptySeq DEF Init
<1>4. DOMAIN content = {}
  BY DEF Init
<1>5. TypeOK
  <2>1. FramesTyped /\ SetsTyped /\ PoolTyped
    BY <1>1, <1>2, <1>3 DEF FramesTyped, SetsTyped, PoolTyped, Statuses
  <2>2. GitTyped
    BY <1>2, <1>4 DEF GitTyped
  <2>3. MainTyped
    <3>1. stop \in BOOLEAN /\ stopped \in BOOLEAN
      BY Zenon DEF Init
    <3>2. interrupts \in 0 .. scenario.interrupts
      BY ONLY <1>1, <1>2
    <3>3. main = "start"
      BY DEF Init
    <3> QED
      BY <1>2, <3>1, <3>2, <3>3 DEF MainTyped
  <2> QED
    BY <1>1, <2>1, <2>2, <2>3
       DEF TypeOK, FramesTyped, Frame, SetsTyped, PoolTyped, GitTyped, MainTyped
<1>6. LoopInv
  BY <1>1, <1>2, <1>3 DEF LoopInv, Held, Claimed, ClaimedOnce, Midway
<1>7. SetsInv /\ DepsInv
  <2>1. \A g \in DOMAIN deps : deps[g] \subseteq Groups
    BY <1>1, GraphTyped
  <2> QED
    BY <1>1, <1>2, <2>1 DEF SetsInv, DepsInv
<1>8. RanInv
  BY <1>2 DEF RanInv
<1>9. WorktreeInv /\ CommitInv
  BY <1>2, <1>4 DEF WorktreeInv, CommitInv, Committed
<1> QED
  BY <1>5, <1>6, <1>7, <1>8, <1>9 DEF DAGInv

\* Every step keeps the invariant.
THEOREM DAGInvariant == Spec => []DAGInv
<1>1. Init => DAGInv
  BY InitDAGInv
<1>2. DAGInv /\ [Next]_vars => DAGInv'
  <2>1. CASE Next
    BY <2>1, NextTypeOK, NextLoopInv, NextSetsInv, NextDepsInv, NextRanInv,
       NextWorktreeInv, NextCommitInv DEF DAGInv
  <2>2. ASSUME DAGInv, UNCHANGED vars PROVE DAGInv'
    <3>1. UNCHANGED <<scenario, pending, running, launched, completed, skipped, frames, lock, main>>
      BY <2>2 DEF vars, schedVars
    <3>2. UNCHANGED <<stop, stopped, interrupts, future, callback, outcome, ran, wt, named, content>>
      BY <2>2 DEF vars, stopVars, poolVars, gitVars
    <3>3. TypeOK' /\ LoopInv' /\ SetsInv'
      BY <2>2, <3>1, <3>2 DEF DAGInv, TypeOK, LoopInv, Held, Claimed, ClaimedOnce, Midway,
         SetsInv, deps
    <3>4. DepsInv' /\ RanInv'
      BY <2>2, <3>1, <3>2 DEF DAGInv, DepsInv, RanInv, deps
    <3>5. /\ \A g : Relay(g)' = Relay(g) /\ Ancestors(g)' = Ancestors(g)
          /\ \A g : HandedOn(g)' <=> HandedOn(g)
          /\ \A g : Committed(g)' <=> Committed(g)
      BY <3>1, <3>2 DEF Relay, Ancestors, HandedOn, Committed, deps
    <3>6. WorktreeInv'
      BY <2>2, <3>2, <3>5 DEF DAGInv, WorktreeInv
    <3>7. CommitInv'
      BY <2>2, <3>1, <3>2, <3>5 DEF DAGInv, CommitInv, deps
    <3> QED
      BY <3>3, <3>4, <3>6, <3>7 DEF DAGInv
  <2> QED
    BY <2>1, <2>2
<1> QED
  BY <1>1, <1>2, PTL DEF Spec

\* Every variable keeps its type.
THEOREM TypeCorrect == Spec => []TypeOK
<1>1. DAGInv => TypeOK
  BY DEF DAGInv
<1> QED
  BY <1>1, DAGInvariant, PTL

\* No group is executed twice, and what is reported as skipped never ran.
THEOREM GroupsRunOnce == Spec => []RunsOnce
<1>1. DAGInv => RunsOnce
  <2> SUFFICES ASSUME DAGInv PROVE RunsOnce
    OBVIOUS
  <2>1. TypeOK /\ RanInv /\ DOMAIN deps \subseteq Groups
    BY DEF DAGInv, TypeOK
  <2>2. \A g \in Groups : ran[g] <= 1
    BY <2>1 DEF TypeOK, RanInv
  <2>3. ASSUME interrupts = 0, NEW g \in DOMAIN deps, Result(g) = "skipped"
        PROVE  ran[g] = 0
    <3>1. completed[g] # "skipped"
      BY <2>1 DEF TypeOK
    <3>2. g \in skipped
      BY <2>3, <3>1 DEF Result
    <3> QED
      BY <2>1, <2>3, <3>2 DEF RanInv
  <2> QED
    BY <2>2, <2>3 DEF RunsOnce
<1> QED
  BY <1>1, DAGInvariant, PTL

\* Two groups never work in one worktree at a time: of those that ever worked
\* in it all but one have handed it on, and who hands it on has completed.
THEOREM WorktreesApart == Spec => []NoSharedWorktree
<1>1. DAGInv => NoSharedWorktree
  <2> SUFFICES ASSUME DAGInv, NEW g \in Groups, NEW h \in Groups,
                      future[g] = "executing", future[h] = "executing", g # h, wt[g] = wt[h]
               PROVE  FALSE
    BY DEF NoSharedWorktree
  <2>1. ASSUME NEW y \in Groups, HandedOn(y) PROVE future[y] # "executing"
    <3>1. PICK x \in DOMAIN deps : wt[x] # NoGroup /\ Relay(x) = y
      BY <2>1 DEF HandedOn
    <3>2. x \in Groups /\ y \in deps[x]
      BY <3>1, RelayPreds, GraphTyped, DAGAssumption DEF DAGInv, SetsInv
    <3>3. future[x] # "none"
      BY <3>1, <3>2 DEF DAGInv, WorktreeInv
    <3>4. completed[y] = "completed"
      BY <3>2, <3>3 DEF DAGInv, DepsInv
    <3> QED
      BY <3>4 DEF DAGInv, SetsInv
  <2>2. HandedOn(g) \/ HandedOn(h)
    BY DEF DAGInv, WorktreeInv
  <2> QED
    BY <2>1, <2>2
<1> QED
  BY <1>1, DAGInvariant, PTL

\* A group that executes sees every commit of everything it depends on.
THEOREM DependenciesSeen == Spec => []DependenciesVisible
<1>1. DAGInv => DependenciesVisible
  <2> SUFFICES ASSUME DAGInv, NEW g \in Groups, NEW d \in Groups, future[g] = "executing",
                      g \in Downstream(deps, d, {}), Committed(d)
               PROVE  d \in content[wt[g]]
    BY DEF DependenciesVisible
  <2>1. wt[g] # NoGroup /\ d \in Ancestors(g)
    BY DEF DAGInv, WorktreeInv, Ancestors
  <2> QED
    BY <2>1 DEF DAGInv, CommitInv
<1> QED
  BY <1>1, DAGInvariant, PTL

-----------------------------------------------------------------------------
(* The run is a run of the abstract task graph.                            *)

\* What the abstract graph sees of a group.
Seen(g) ==
    IF completed[g] = "completed" THEN "done"
    ELSE IF completed[g] # "none" \/ g \in skipped THEN "abandoned"
    ELSE IF ran[g] > 0 THEN "running" ELSE "waiting"

\* Giving up groups together with everything that depends on them.
LEMMA Abandoning ==
    ASSUME deps' = deps, interrupts = 0, interrupts' = 0, NEW S \in SUBSET DOMAIN deps,
           \A g \in S : Seen(g) \in {"waiting", "running"},
           \A x \in S : \A g \in Children(deps, x) : g \in S \/ Seen(g) = "abandoned",
           \A g \in DOMAIN deps : Seen(g)' = IF g \in S THEN "abandoned" ELSE Seen(g)
    PROVE  TG!Next
<1>1. /\ GraphStatus = [g \in DOMAIN deps |-> Seen(g)]
      /\ GraphStatus' = [g \in DOMAIN deps |-> Seen(g)']
  BY DEF GraphStatus, Seen
<1>2. \A g \in S : GraphStatus[g] \in {"waiting", "running"}
  BY <1>1
<1>3. \A g \in DOMAIN deps : deps[g] \cap S # {} => g \in S \/ GraphStatus[g] = "abandoned"
  BY <1>1 DEF Children
<1>4. GraphStatus' = [g \in DOMAIN deps |-> IF g \in S THEN "abandoned" ELSE GraphStatus[g]]
  BY <1>1
<1>5. ~(interrupts > 0) /\ ~(interrupts' > 0)
  OBVIOUS
<1>6. TG!Abandon(S)
  BY <1>2, <1>3, <1>4, <1>5 DEF TG!Abandon
<1> QED
  BY <1>6 DEF TG!Next

\* Once an interrupt has hit the scheduling thread nothing is promised.
LEMMA Disturbing ==
    ASSUME deps' = deps, (interrupts > 0)' = TRUE PROVE TG!Next
<1>1. GraphStatus' = [g \in DOMAIN deps |-> Seen(g)']
  BY DEF GraphStatus, Seen
<1>2. \A g \in DOMAIN deps : Seen(g)' \in {"waiting", "running", "done", "abandoned"}
  BY DEF Seen
<1>3. GraphStatus' \in [DOMAIN deps -> {"waiting", "running", "done", "abandoned"}]
  BY <1>1, <1>2
<1>4. TG!Disturb
  BY <1>3 DEF TG!Disturb
<1> QED
  BY <1>4 DEF TG!Next

\* A recorded result finishes a group, or gives it up with what it takes along.
LEMMA Recording ==
    ASSUME DAGInv, deps' = deps, interrupts = 0, interrupts' = 0, UNCHANGED ran,
           NEW g \in running, outcome[g] # "none", future[g] \in {"done", "finished"},
           NEW ready \in SUBSET (pending \ Lost(g)), NEW below, Completes(g, ready, below)
    PROVE  TG!Next
<1>1. /\ TypeOK /\ SetsInv /\ DepsInv /\ RanInv /\ g \in Groups /\ g \in DOMAIN deps
      /\ DOMAIN deps \subseteq Groups
  BY DEF DAGInv, SetsInv, TypeOK
<1>2. /\ completed[g] = "none" /\ g \notin skipped
      /\ \A h \in pending : completed[h] = "none" /\ h \notin skipped /\ h # g /\ ran[h] = 0
  BY <1>1 DEF SetsInv, RanInv, TypeOK
<1>3. \A h \in skipped : completed[h] = "none"
  BY <1>1 DEF RanInv, TypeOK
<1>4. /\ \A h \in Groups \ {g} : completed'[h] = completed[h]
      /\ completed'[g] = IF outcome[g] = "skipped" THEN "none" ELSE outcome[g]
  BY <1>1, <1>2 DEF Completes, Done, TypeOK
<1>5. skipped' = skipped \cup Lost(g) \cup (IF outcome[g] = "skipped" THEN {g} ELSE {})
  BY DEF Completes
<1>6. CASE outcome[g] = "completed"
  <2>1. Lost(g) = {} /\ ran[g] = 1
    BY <1>1, <1>6 DEF Lost, RanInv
  <2>2. Seen(g) = "running" /\ Seen(g)' = "done"
    BY <1>2, <1>4, <1>6, <2>1 DEF Seen
  <2>3. \A h \in DOMAIN deps \ {g} : Seen(h)' = Seen(h)
    BY <1>1, <1>4, <1>5, <1>6, <2>1 DEF Seen
  <2>4. /\ GraphStatus = [h \in DOMAIN deps |-> Seen(h)]
        /\ GraphStatus' = [h \in DOMAIN deps |-> Seen(h)']
    BY DEF GraphStatus, Seen
  <2>5. /\ GraphStatus[g] = "running"
        /\ GraphStatus' = [GraphStatus EXCEPT ![g] = "done"]
    BY <1>1, <2>2, <2>3, <2>4
  <2>6. ~(interrupts > 0) /\ ~(interrupts' > 0)
    OBVIOUS
  <2>7. TG!Finish(g)
    BY <2>5, <2>6 DEF TG!Finish
  <2> QED
    BY <1>1, <2>7 DEF TG!Next
<1>7. CASE outcome[g] # "completed"
  <2> DEFINE S == {g} \cup Lost(g)
  <2>1. /\ Lost(g) \subseteq pending
        /\ Children(deps, g) \cap pending \subseteq Lost(g)
        /\ \A x \in Lost(g) : Children(deps, x) \subseteq Lost(g) \cup skipped
    BY <1>1, <1>7, LostIsPending
  <2>2. Children(deps, g) \subseteq pending \cup skipped
    BY <1>1, <1>2, DependantsWait
  <2> HIDE DEF Lost
  <2>3. S \in SUBSET DOMAIN deps /\ \A h \in S : Seen(h) \in {"waiting", "running"}
    BY <1>1, <1>2, <2>1 DEF Seen, SetsInv
  <2>4. \A h \in skipped : Seen(h) = "abandoned"
    BY <1>3 DEF Seen
  <2>5. \A x \in S : \A h \in Children(deps, x) : h \in S \/ Seen(h) = "abandoned"
    BY <2>1, <2>2, <2>4
  <2>6. \A h \in DOMAIN deps : Seen(h)' = IF h \in S THEN "abandoned" ELSE Seen(h)
    <3>1. ASSUME NEW h \in Lost(g) PROVE Seen(h)' = "abandoned"
      BY <1>1, <1>2, <1>4, <1>5, <2>1, <3>1 DEF Seen, SetsInv
    <3>2. Seen(g)' = "abandoned"
      BY <1>4, <1>5, <1>7 DEF Seen
    <3>3. ASSUME NEW h \in DOMAIN deps \ S PROVE Seen(h)' = Seen(h)
      BY <1>1, <1>4, <1>5, <3>3 DEF Seen
    <3> QED
      BY <3>1, <3>2, <3>3
  <2> HIDE DEF S
  <2> QED
    BY <2>3, <2>5, <2>6, Abandoning
<1> QED
  BY <1>6, <1>7

\* execute_fn starts a group all of whose dependencies are done.
LEMMA StartsGroup ==
    ASSUME DAGInv, deps' = deps, interrupts = 0, interrupts' = 0, NEW g \in Groups,
           future[g] = "queued", ran' = [ran EXCEPT ![g] = @ + 1],
           UNCHANGED <<completed, skipped>>
    PROVE  TG!Next
<1>1. TypeOK /\ SetsInv /\ DepsInv /\ RanInv
  BY DEF DAGInv
<1>2. /\ g \in DOMAIN deps /\ g \in running /\ g \notin skipped
      /\ completed[g] = "none" /\ ran[g] = 0
      /\ \A d \in deps[g] : d \in DOMAIN deps /\ completed[d] = "completed"
  BY <1>1, GraphTyped DEF SetsInv, DepsInv, RanInv
<1>3. ran'[g] = 1 /\ \A h \in Groups \ {g} : ran'[h] = ran[h]
  BY <1>1, <1>2 DEF TypeOK
<1>4. /\ Seen(g) = "waiting" /\ Seen(g)' = "running"
      /\ \A d \in deps[g] : Seen(d) = "done"
  BY <1>2, <1>3 DEF Seen
<1>5. \A h \in DOMAIN deps \ {g} : Seen(h)' = Seen(h)
  BY <1>1, <1>3 DEF Seen, TypeOK
<1>6. /\ GraphStatus = [h \in DOMAIN deps |-> Seen(h)]
      /\ GraphStatus' = [h \in DOMAIN deps |-> Seen(h)']
  BY DEF GraphStatus, Seen
<1>7. /\ GraphStatus[g] = "waiting" /\ \A d \in deps[g] : GraphStatus[d] = "done"
      /\ GraphStatus' = [GraphStatus EXCEPT ![g] = "running"]
  BY <1>2, <1>4, <1>5, <1>6
<1>8. ~(interrupts > 0) /\ ~(interrupts' > 0)
  OBVIOUS
<1>9. TG!Start(g)
  BY <1>7, <1>8 DEF TG!Start
<1> QED
  BY <1>2, <1>9 DEF TG!Next

\* The abstract step, or none.
LEMMA StepRefines ==
    DAGInv /\ DAGInv' /\ Next => TG!Next \/ UNCHANGED <<deps, GraphStatus, interrupts > 0>>
<1> SUFFICES ASSUME DAGInv, DAGInv', Next
             PROVE  TG!Next \/ UNCHANGED <<deps, GraphStatus, interrupts > 0>>
  OBVIOUS
<1>1. deps' = deps /\ interrupts \in Nat /\ interrupts' \in Nat
  <2>1. /\ scenario.interrupts \in Nat /\ interrupts \in 0 .. scenario.interrupts
        /\ interrupts' \in 0 .. scenario'.interrupts /\ scenario' = scenario
    BY DAGAssumption, GraphFixed DEF DAGInv, SetsInv, TypeOK
  <2>2. interrupts \in Nat /\ interrupts' \in Nat
    BY ONLY <2>1
  <2> QED
    BY <2>2, GraphFixed
<1>2. interrupts' = interrupts \/ Interrupt
  BY DEF Next, Begin, LoopStep, Submit, Launch, AddCallback, Unwind, BeginStop, Tick,
     Converge, Return, RequestStop, PickUp, Decline, Execute, ExecuteFails, WorkStep,
     Complete, Fail, WindDown, Callback, vars, stopVars
<1>3. interrupts' = interrupts \/ interrupts' = interrupts + 1
  BY <1>2 DEF Interrupt
<1>4. CASE interrupts' # 0
  <2>1. interrupts' > 0
    BY ONLY <1>1, <1>4
  <2> QED
    BY <1>1, <2>1, Disturbing
<1>5. CASE interrupts' = 0
  <2>1. interrupts = 0
    BY ONLY <1>1, <1>3, <1>5
  <2>2. ASSUME UNCHANGED <<completed, skipped, ran>>
        PROVE  UNCHANGED <<deps, GraphStatus, interrupts > 0>>
    <3>1. GraphStatus' = GraphStatus
      BY <1>1, <2>2 DEF GraphStatus
    <3>2. (interrupts > 0)' <=> interrupts > 0
      BY <1>5, <2>1
    <3> QED
      BY <1>1, <3>1, <3>2
  <2>3. ASSUME Begin \/ Submit \/ Launch \/ Unwind \/ Tick \/ Converge \/ Return \/ RequestStop
        PROVE  UNCHANGED <<completed, skipped, ran>>
    BY ONLY <2>3 DEF Begin, Submit, Launch, Unwind, Tick, Converge, Return, RequestStop,
       vars, schedVars, poolVars
  <2>4. ASSUME NEW g \in Groups, Decline(g) \/ Fail(g) \/ WindDown(g)
        PROVE  UNCHANGED <<completed, skipped, ran>>
    BY ONLY <2>4 DEF Decline, Fail, WindDown, Resolve, schedVars
  <2>5. ASSUME NEW g \in Groups, NEW changes \in BOOLEAN, NEW committed \in BOOLEAN,
               Complete(g, changes, committed)
        PROVE  UNCHANGED <<completed, skipped, ran>>
    BY ONLY <2>5 DEF Complete, Resolve, schedVars
  <2>6. ASSUME NEW g \in Groups, Execute(g) \/ ExecuteFails(g) PROVE TG!Next
    <3>1. /\ future[g] = "queued" /\ ran' = [ran EXCEPT ![g] = @ + 1]
          /\ UNCHANGED <<completed, skipped>>
      BY <2>6 DEF Execute, ExecuteFails, schedVars
    <3> QED
      BY <1>1, <1>5, <2>1, <2>6, <3>1, StartsGroup
  <2>7. CASE AddCallback
    <3>1. Top.gid \in running /\ UNCHANGED ran
      BY <2>7, Registering DEF AddCallback
    <3>2. CASE UNCHANGED <<pending, running, completed, skipped>>
      BY <2>2, <3>1, <3>2
    <3>3. ASSUME future[Top.gid] = "finished", outcome[Top.gid] # "none", NEW below,
                 NEW ready \in SUBSET (pending \ Lost(Top.gid)),
                 Completes(Top.gid, ready, below)
          PROVE  TG!Next
      BY <1>1, <1>5, <2>1, <3>1, <3>3, Recording
    <3> QED
      BY <2>7, <3>2, <3>3, Registering
  <2>8. ASSUME NEW g \in Groups, Callback(g) PROVE TG!Next
    <3>1. g \in running /\ outcome[g] # "none" /\ future[g] = "done" /\ UNCHANGED ran
      BY <2>8, CallingBack DEF Callback
    <3>2. PICK ready \in SUBSET (pending \ Lost(g)) : Completes(g, ready, <<>>)
      BY <2>8, CallingBack
    <3> QED
      BY <1>1, <1>5, <2>1, <3>1, <3>2, Recording
  <2>9. CASE BeginStop
    <3>1. skipped' = skipped \cup pending /\ UNCHANGED <<completed, ran>>
      BY <2>9 DEF BeginStop, poolVars
    <3>2. TypeOK /\ SetsInv /\ DepsInv /\ RanInv
      BY DEF DAGInv
    <3>3. /\ pending \subseteq DOMAIN deps
          /\ \A h \in pending : completed[h] = "none" /\ h \notin skipped
      BY <3>2 DEF SetsInv, TypeOK
    <3>4. \A h \in pending : Seen(h) \in {"waiting", "running"} /\ Seen(h)' = "abandoned"
      BY <3>1, <3>3 DEF Seen
    <3>5. \A h \in skipped : Seen(h) = "abandoned"
      BY <2>1, <3>2 DEF Seen, RanInv, TypeOK
    <3>6. \A x \in pending : \A h \in Children(deps, x) : h \in pending \/ Seen(h) = "abandoned"
      BY <3>2, <3>3, <3>5, DependantsWait
    <3>7. \A h \in DOMAIN deps : Seen(h)' = IF h \in pending THEN "abandoned" ELSE Seen(h)
      BY <3>1, <3>4 DEF Seen
    <3> QED
      BY <1>1, <1>5, <2>1, <3>3, <3>4, <3>6, <3>7, Abandoning
  <2>10. ~Interrupt
    BY <1>5, <2>1 DEF Interrupt
  <2>11. ASSUME UNCHANGED vars PROVE UNCHANGED <<completed, skipped, ran>>
    BY ONLY <2>11 DEF vars, schedVars, poolVars
  <2> QED
    BY <2>2, <2>3, <2>4, <2>5, <2>6, <2>7, <2>8, <2>9, <2>10, <2>11
       DEF Next, LoopStep, PickUp, WorkStep
<1> QED
  BY <1>4, <1>5

\* Whatever the graph, a run never does what TaskGraph forbids: the safety half
\* of ImplementsTaskGraph.
THEOREM Refinement ==
    Spec => TG!Init /\ [][TG!Next]_<<deps, GraphStatus, interrupts > 0>>
<1>1. Init => TG!Init
  <2> SUFFICES ASSUME Init PROVE TG!Init
    OBVIOUS
  <2>1. scenario \in Scenarios /\ interrupts = 0
    BY DEF Init
  <2>2. DOMAIN deps \subseteq Groups /\ deps \in [DOMAIN deps -> SUBSET DOMAIN deps]
    BY <2>1, GraphTyped
  <2>3. \A g \in DOMAIN deps : completed[g] = "none" /\ g \notin skipped /\ ran[g] = 0
    BY <2>2 DEF Init
  <2>4. GraphStatus = [g \in DOMAIN deps |-> "waiting"]
    BY <2>3 DEF GraphStatus
  <2>5. (interrupts > 0) = FALSE
    BY <2>1
  <2> QED
    BY <2>2, <2>4, <2>5 DEF TG!Init
<1>2. DAGInv /\ DAGInv' /\ [Next]_vars => [TG!Next]_<<deps, GraphStatus, interrupts > 0>>
  <2>1. CASE Next
    BY <2>1, StepRefines
  <2>2. CASE UNCHANGED vars
    <3>1. UNCHANGED <<scenario, completed, skipped, ran, interrupts>>
      BY <2>2 DEF vars, schedVars, stopVars, poolVars
    <3>2. UNCHANGED <<deps, GraphStatus, interrupts > 0>>
      BY <3>1 DEF deps, GraphStatus
    <3> QED
      BY <3>2
  <2> QED
    BY <2>1, <2>2
<1> QED
  BY <1>1, <1>2, DAGInvariant, PTL DEF Spec


-----------------------------------------------------------------------------
(* The branches that are merged back.                                      *)

\* Peeling off the groups without dependencies goes on as far as one likes.
LEMMA PeelsExist ==
    ASSUME NEW D, NEW n \in Nat
    PROVE  \E f : f = [k \in 0 .. n |-> IF k = 0 THEN D ELSE Peel(deps, f[k - 1])]
<1> DEFINE Peels(f, m) == f = [k \in 0 .. m |-> IF k = 0 THEN D ELSE Peel(deps, f[k - 1])]
           Bad == {m \in Nat : ~\E f : Peels(f, m)}
<1>1. SUFFICES ASSUME Bad # {} PROVE FALSE
  OBVIOUS
<1>2. PICK m \in Bad : \A i \in Bad : m <= i
  BY <1>1, LeastNatural
<1>3. CASE m = 0
  <2>1. Peels([k \in 0 .. 0 |-> D], 0)
    OBVIOUS
  <2> QED
    BY <1>2, <1>3, <2>1
<1>4. CASE m # 0
  <2>1. m - 1 \in Nat /\ m - 1 \notin Bad /\ m \in Nat
    <3>1. m \in Nat
      BY <1>2
    <3> HIDE DEF Bad
    <3> QED
      BY ONLY <1>2, <1>4, <3>1
  <2>2. PICK f : Peels(f, m - 1)
    BY <2>1
  <2> DEFINE e == [k \in 0 .. m |-> IF k = m THEN Peel(deps, f[m - 1]) ELSE f[k]]
  <2>3. /\ f[0] = D
        /\ \A k \in 1 .. m - 1 : f[k] = Peel(deps, f[k - 1])
    BY <2>1, <2>2
  <2>4. ASSUME NEW k \in 0 .. m
        PROVE  e[k] = IF k = 0 THEN D ELSE Peel(deps, e[k - 1])
    <3>1. CASE k = 0
      BY <1>4, <2>1, <2>3, <3>1
    <3>2. CASE k = m
      BY <1>4, <2>1, <3>2
    <3>3. CASE k \in 1 .. m - 1
      BY <2>1, <2>3, <3>3
    <3> QED
      BY <2>1, <3>1, <3>2, <3>3
  <2>5. Peels(e, m)
    BY <2>4
  <2> QED
    BY <1>2, <2>5
<1> QED
  BY <1>3, <1>4

\* No cycle: of any groups there is one on which none of the others depends
\* directly.
LEMMA LastOf ==
    ASSUME scenario \in Scenarios, NEW C \in SUBSET DOMAIN deps, C # {}
    PROVE  \E h \in C : Children(deps, h) \cap C = {}
<1> DEFINE D == DOMAIN deps
           N == Cardinality(D)
<1>1. Acyclic(deps) /\ N \in Nat
  BY DAGAssumption, FS_CardinalityType DEF deps
<1>2. \E f : f = [k \in 0 .. N |-> IF k = 0 THEN D ELSE Peel(deps, f[k - 1])]
  BY <1>1, PeelsExist
<1>3. PICK left : /\ left = [k \in 0 .. N |-> IF k = 0 THEN D ELSE Peel(deps, left[k - 1])]
                  /\ left[N] = {}
  BY <1>1, <1>2 DEF Acyclic
<1> HIDE DEF N
<1>4. left[0] = D /\ \A k \in 1 .. N : left[k] = Peel(deps, left[k - 1])
  BY <1>1, <1>3
<1>5. \A k \in 0 .. N : \A h \in left[k] : h \in D /\ Children(deps, h) \subseteq left[k]
  <2> DEFINE Bad == {k \in 0 .. N :
                       ~\A h \in left[k] : h \in D /\ Children(deps, h) \subseteq left[k]}
  <2> SUFFICES ASSUME Bad # {} PROVE FALSE
    OBVIOUS
  <2>1. PICK k \in Bad : \A i \in Bad : k <= i
    <3>1. Bad \in SUBSET Nat
      BY <1>1
    <3> HIDE DEF Bad
    <3> QED
      BY <3>1, LeastNatural
  <2>2. CASE k = 0
    BY <1>4, <2>1, <2>2 DEF Children
  <2>3. CASE k # 0
    <3>1. k \in 1 .. N /\ k - 1 \in 0 .. N /\ k - 1 \notin Bad
      BY <1>1, <2>1, <2>3
    <3>2. left[k] = {h \in left[k - 1] : deps[h] \cap left[k - 1] # {}}
      BY <1>4, <3>1 DEF Peel
    <3>3. \A h \in left[k] : h \in D /\ Children(deps, h) \subseteq left[k]
      BY <3>1, <3>2 DEF Children
    <3> QED
      BY <2>1, <3>3
  <2> QED
    BY <2>2, <2>3
<1> DEFINE Gone == {k \in 0 .. N : C \cap left[k] = {}}
<1>6. PICK m \in Gone : \A i \in Gone : m <= i
  <2>1. Gone \in SUBSET Nat
    BY <1>1
  <2>2. N \in Gone
    <3>1. N \in 0 .. N
      BY ONLY <1>1
    <3> QED
      BY <1>3, <3>1
  <2> HIDE DEF Gone
  <2> QED
    BY <2>1, <2>2, LeastNatural
<1>7. m \in 1 .. N /\ m - 1 \in 0 .. N /\ m - 1 \notin Gone
  BY <1>1, <1>4, <1>6
<1>8. PICK h \in C : h \in left[m - 1]
  BY <1>7
<1>9. ASSUME NEW c \in Children(deps, h), c \in C PROVE FALSE
  <2>1. c \in left[m - 1] /\ h \in deps[c]
    BY <1>5, <1>7, <1>8, <1>9 DEF Children
  <2>2. c \in left[m]
    BY <1>4, <1>7, <1>8, <2>1 DEF Peel
  <2> QED
    BY <1>6, <1>9, <2>2
<1> QED
  BY <1>9

\* What completed committed, unless it may be empty; a worktree that was not
\* taken over is the group's own; where every group leaves something, the
\* branch a group reports is the one its worktree has checked out.
MergeInv ==
    \A g \in Groups :
      /\ outcome[g] = "completed" /\ g \notin scenario.mayBeEmpty => Committed(g)
      /\ wt[g] # NoGroup /\ Relay(g) = NoGroup => wt[g] = g
      /\ scenario.mayBeEmpty = {} /\ named[g] # NoGroup => named[g] = wt[g]

\* The name an executing group would report is then its worktree's.
LEMMA BranchNameIs ==
    ASSUME TypeOK, SetsInv, DepsInv, WorktreeInv, CommitInv, MergeInv,
           scenario.mayBeEmpty = {}, NEW g \in Groups, future[g] = "executing"
    PROVE  BranchName(g) = wt[g]
<1>1. g \in DOMAIN deps /\ wt[g] # NoGroup /\ scenario \in Scenarios
  BY DEF SetsInv, WorktreeInv
<1>2. CASE Relay(g) = NoGroup
  <2>1. BranchName(g) = g
    BY <1>2 DEF BranchName
  <2> QED
    BY <1>1, <1>2, <2>1 DEF MergeInv
<1>3. CASE Relay(g) # NoGroup
  <2>1. Relay(g) \in deps[g] /\ Relay(g) \in Groups
    BY <1>1, <1>3, RelayPreds, GraphTyped
  <2>2. outcome[Relay(g)] = "completed"
    BY <1>1, <2>1 DEF DepsInv, SetsInv
  <2>3. Committed(Relay(g))
    BY <2>1, <2>2 DEF MergeInv
  <2>4. named[Relay(g)] # NoGroup
    BY <2>1, <2>2, <2>3 DEF CommitInv
  <2>5. named[Relay(g)] = wt[Relay(g)] /\ wt[g] = wt[Relay(g)]
    BY <1>1, <1>3, <2>1, <2>4 DEF MergeInv, WorktreeInv
  <2>6. BranchName(g) = named[Relay(g)]
    BY <1>3, <2>4 DEF BranchName
  <2> QED
    BY <2>5, <2>6
<1> QED
  BY <1>2, <1>3

\* Kept by every step: only a commit completes a group that may not be empty.
LEMMA NextMergeInv == DAGInv /\ MergeInv /\ Next => MergeInv'
<1> SUFFICES ASSUME DAGInv /\ MergeInv, Next PROVE MergeInv'
  OBVIOUS
<1>1. /\ TypeOK /\ LoopInv /\ SetsInv /\ DepsInv /\ RanInv /\ WorktreeInv /\ CommitInv
      /\ MergeInv
      /\ scenario' = scenario /\ deps' = deps
  BY GraphFixed DEF DAGInv
<1>2. ASSUME NEW g \in Groups, NEW status, status # "completed",
             outcome' = [outcome EXCEPT ![g] = status], UNCHANGED <<content, wt>>,
             \A h \in Groups \ {g} : named'[h] = named[h],
             \/ named'[g] = named[g]
             \/ scenario.mayBeEmpty = {} => named'[g] = wt[g]
      PROVE  MergeInv'
  <2>1. /\ \A x : Committed(x)' <=> Committed(x)
        /\ \A h : Relay(h)' = Relay(h)
    BY <1>1, <1>2 DEF Committed, Relay
  <2>2. /\ \A h \in Groups \ {g} : outcome'[h] = outcome[h]
        /\ outcome'[g] # "completed"
    BY <1>1, <1>2 DEF TypeOK
  <2> QED
    BY <1>1, <1>2, <2>1, <2>2 DEF MergeInv
<1>3. ASSUME \/ Begin \/ Submit \/ Launch \/ AddCallback \/ Unwind
             \/ BeginStop \/ Tick \/ Interrupt \/ Converge
      PROVE  UNCHANGED <<content, wt, outcome, named>>
  BY ONLY <1>3 DEF Begin, Submit, Launch, AddCallback, Unwind, BeginStop, Tick,
     Interrupt, Converge, vars, schedVars, stopVars, poolVars, gitVars
<1>4. ASSUME \/ Return \/ RequestStop
      PROVE  UNCHANGED <<content, wt, outcome, named>>
  BY ONLY <1>4 DEF Return, RequestStop, schedVars, stopVars, poolVars, gitVars
<1>5. ASSUME NEW g \in Groups, Callback(g)
      PROVE  UNCHANGED <<content, wt, outcome, named>>
  BY ONLY <1>5 DEF Callback, schedVars, stopVars, poolVars, gitVars
<1>6. CASE UNCHANGED <<content, wt, outcome, named>>
  <2>1. \A g : Relay(g)' = Relay(g) /\ (Committed(g)' <=> Committed(g))
    BY <1>1, <1>6 DEF Relay, Committed
  <2> QED
    BY <1>1, <1>6, <2>1 DEF MergeInv
<1>7. ASSUME NEW g \in Groups, Decline(g) PROVE MergeInv'
  <2>1. /\ outcome' = [outcome EXCEPT ![g] = "skipped"]
        /\ UNCHANGED <<content, wt, named>>
    BY <1>7 DEF Decline, Resolve, gitVars
  <2> QED
    BY <1>7, <1>1, <1>2, <2>1
<1>8. ASSUME NEW g \in Groups, Execute(g) PROVE MergeInv'
  <2>1. /\ g \in DOMAIN deps /\ wt[g] = NoGroup
        /\ Relay(g) = NoGroup => Worktree(g) = g
    BY <1>8, <1>1, Starting
  <2>2. /\ DOMAIN content' = DOMAIN content \cup {Worktree(g)}
        /\ \A c \in DOMAIN content \ {Worktree(g)} : content'[c] = content[c]
        /\ Worktree(g) \in DOMAIN content =>
             content[Worktree(g)] \subseteq content'[Worktree(g)]
    BY <1>8, <1>1, StartedBranch
  <2>3. wt' = [wt EXCEPT ![g] = Worktree(g)] /\ UNCHANGED <<outcome, named>>
    BY <1>8 DEF Execute
  <2>4. wt'[g] = Worktree(g) /\ \A h \in Groups \ {g} : wt'[h] = wt[h]
    BY <1>8, <1>1, <2>3 DEF TypeOK
  <2>5. \A x : Committed(x) => Committed(x)'
    BY <2>2 DEF Committed
  <2>6. \A h : Relay(h)' = Relay(h)
    BY <1>1 DEF Relay
  <2>7. scenario.mayBeEmpty = {} => named[g] = NoGroup
    BY <1>8, <1>1, <2>1 DEF MergeInv
  <2> QED
    BY <1>1, <2>1, <2>3, <2>4, <2>5, <2>6, <2>7 DEF MergeInv
<1>9. ASSUME NEW g \in Groups, ExecuteFails(g) PROVE MergeInv'
  <2>1. /\ outcome' = [outcome EXCEPT ![g] = "failed"]
        /\ UNCHANGED <<content, wt, named>>
    BY <1>9 DEF ExecuteFails, Resolve, gitVars
  <2> QED
    BY <1>9, <1>1, <1>2, <2>1
<1>10. ASSUME NEW g \in Groups, NEW changes \in BOOLEAN,
               NEW committed \in BOOLEAN, Complete(g, changes, committed) PROVE MergeInv'
  <2>1. /\ future[g] = "executing" /\ outcome' = [outcome EXCEPT ![g] = "completed"]
        /\ content' = IF committed THEN [content EXCEPT ![wt[g]] = @ \cup {g}] ELSE content
        /\ committed \/ g \in scenario.mayBeEmpty
        /\ committed => changes /\ UNCHANGED wt
    BY <1>10 DEF Complete, Resolve
  <2>2. named' = [named EXCEPT ![g] =
           IF changes \/ Relay(g) # NoGroup \/ Fork(g) # NoGroup THEN BranchName(g) ELSE NoGroup]
    BY <1>10 DEF Complete
  <2>3. wt[g] \in DOMAIN content /\ UNCHANGED wt
    BY <1>10, <1>1, <2>1 DEF WorktreeInv, Complete
  <2>4. /\ \A x : Committed(x) => Committed(x)'
        /\ committed => Committed(g)'
    BY <2>1, <2>3 DEF Committed
  <2>5. \A h : Relay(h)' = Relay(h)
    BY <1>1 DEF Relay
  <2>6. /\ \A h \in Groups \ {g} : outcome'[h] = outcome[h] /\ named'[h] = named[h]
        /\ committed => named'[g] = BranchName(g)
    BY <1>10, <1>1, <2>1, <2>2 DEF TypeOK
  <2>7. scenario.mayBeEmpty = {} => named'[g] = wt[g]
    BY <1>10, <1>1, <2>1, <2>6, BranchNameIs
  <2> QED
    BY <1>1, <2>1, <2>3, <2>4, <2>5, <2>6, <2>7 DEF MergeInv
<1>11. ASSUME NEW g \in Groups, Fail(g) PROVE MergeInv'
  <2>1. /\ outcome' = [outcome EXCEPT ![g] = "failed"]
        /\ UNCHANGED <<content, wt, named>>
    BY <1>11 DEF Fail, Resolve, gitVars
  <2> QED
    BY <1>11, <1>1, <1>2, <2>1
<1>12. ASSUME NEW g \in Groups, WindDown(g) PROVE MergeInv'
  <2>1. /\ future[g] = "executing" /\ outcome' = [outcome EXCEPT ![g] = "interrupted"]
        /\ named' = [named EXCEPT ![g] = BranchName(g)] /\ UNCHANGED <<content, wt>>
    BY <1>12 DEF WindDown, Resolve
  <2>2. scenario.mayBeEmpty = {} => BranchName(g) = wt[g]
    BY <1>12, <1>1, <2>1, BranchNameIs
  <2>3. named'[g] = BranchName(g) /\ \A h \in Groups \ {g} : named'[h] = named[h]
    BY <1>12, <1>1, <2>1 DEF TypeOK
  <2> QED
    BY <1>12, <1>1, <1>2, <2>1, <2>2, <2>3
<1>13. ASSUME UNCHANGED vars PROVE UNCHANGED <<content, wt, outcome, named>>
  BY ONLY <1>13 DEF vars, schedVars, stopVars, poolVars, gitVars
<1> QED
  BY <1>1, <1>2, <1>3, <1>4, <1>5, <1>6, <1>7, <1>8, <1>9, <1>10, <1>11, <1>12,
     <1>13
     DEF Next, LoopStep, PickUp, WorkStep

\* At the start no group has a result or a worktree.
LEMMA InitMergeInv == Init => MergeInv
  BY DEF Init, MergeInv

\* Every step keeps it.
THEOREM MergeInvariant == Spec => []MergeInv
<1>1. DAGInv /\ MergeInv /\ [Next]_vars => MergeInv'
  <2>1. ASSUME MergeInv, UNCHANGED vars PROVE MergeInv'
    <3>1. UNCHANGED <<scenario, outcome, wt, named, content>>
      BY <2>1 DEF vars, poolVars, gitVars
    <3>2. \A g : Relay(g)' = Relay(g) /\ (Committed(g)' <=> Committed(g))
      BY <3>1 DEF Relay, Committed, deps
    <3> QED
      BY <2>1, <3>1, <3>2 DEF MergeInv
  <2> QED
    BY <2>1, NextMergeInv
<1> QED
  BY <1>1, InitMergeInv, DAGInvariant, PTL DEF Spec

\* The branches that are merged back exist and bring home every commit of every
\* completed group: the last completed group behind it is a leaf or a fallback
\* leaf, and has the commit on the branch it reports.
THEOREM WorkMerged == Spec => []CompletedWorkMerged
<1>1. DAGInv /\ MergeInv => CompletedWorkMerged
  <2> SUFFICES ASSUME DAGInv, MergeInv, scenario.mayBeEmpty = {}
               PROVE  /\ MergedBranches \subseteq DOMAIN content
                      /\ \A g \in DOMAIN deps : Result(g) = "completed" /\ Committed(g) =>
                           \E b \in MergedBranches : g \in content[b]
    BY DEF CompletedWorkMerged
  <2>1. /\ TypeOK /\ SetsInv /\ WorktreeInv /\ CommitInv
        /\ scenario \in Scenarios /\ DOMAIN deps \subseteq Groups
    BY DEF DAGInv, SetsInv, TypeOK
  <2>2. \A h \in DOMAIN deps : Result(h) = "completed" <=> completed[h] = "completed"
    BY <2>1 DEF Result
  <2>3. ASSUME NEW h \in DOMAIN deps, completed[h] = "completed"
        PROVE  /\ Committed(h) /\ named[h] # NoGroup /\ named[h] = wt[h]
               /\ wt[h] # NoGroup /\ wt[h] \in DOMAIN content
    <3>1. h \in Groups /\ outcome[h] = "completed"
      BY <2>1, <2>3 DEF SetsInv
    <3>2. Committed(h)
      BY <3>1 DEF MergeInv
    <3> QED
      BY <2>1, <3>1, <3>2 DEF MergeInv, CommitInv, WorktreeInv
  <2>4. MergedBranches \subseteq DOMAIN content
    BY <2>2, <2>3 DEF MergedBranches, Leaves, FallbackLeaves
  <2>5. ASSUME NEW g \in DOMAIN deps, Result(g) = "completed", Committed(g)
        PROVE  \E b \in MergedBranches : g \in content[b]
    <3> DEFINE C == {h \in DOMAIN deps : /\ completed[h] = "completed"
                                         /\ h = g \/ g \in Ancestors(h)}
    <3>1. PICK h \in C : Children(deps, h) \cap C = {}
      BY <2>1, <2>2, <2>5, LastOf
    <3>2. ASSUME NEW c \in Children(deps, h) PROVE Result(c) # "completed"
      <4>1. c \in DOMAIN deps /\ g \in Groups
        BY <2>1, <3>2 DEF Children
      <4>2. h = g \/ h \in Downstream(deps, g, {})
        BY <3>1 DEF Ancestors
      <4>3. c \in Downstream(deps, g, {})
        BY <3>2, <4>2, DownstreamClosed
      <4>4. g \in Ancestors(c)
        BY <4>1, <4>3 DEF Ancestors
      <4> QED
        BY <2>2, <3>1, <3>2, <4>1, <4>4
    <3>3. h \in Leaves(deps) \cup FallbackLeaves
      BY <2>2, <3>1, <3>2 DEF Leaves, FallbackLeaves
    <3>4. named[h] \in MergedBranches
      BY <2>2, <2>3, <3>1, <3>3 DEF MergedBranches
    <3>5. g \in content[named[h]]
      BY <2>1, <2>3, <2>5, <3>1 DEF CommitInv
    <3> QED
      BY <3>4, <3>5
  <2> QED
    BY <2>4, <2>5
<1> QED
  BY <1>1, DAGInvariant, MergeInvariant, PTL


=============================================================================
