----------------------- MODULE FlowRewindInvariants -----------------------
(***************************************************************************)
(* What is invariant in FlowRewind, and what its steps do to a flow: the   *)
(* vocabulary of FlowRewind_proofs.  RewindInv, SequenceInv, ReviewInv,    *)
(* GateInv, FindingsInv, BudgetInv and ScopeInv are inductive, each with   *)
(* the ones before it that its proof cites.  Of a snapshot they say what   *)
(* they say of the flow, since a restart makes it the flow again.          *)
(***************************************************************************)
EXTENDS FlowRewind

-----------------------------------------------------------------------------
(* The shape of a flow.                                                    *)

Baseline == [at : Nat, available : BOOLEAN]

Rounds == Round \cup {NoRound}

FlowSet ==
  [selected : Seq(Types), index : Nat, current : Types, newest : Types,
   reviews : Types, status : {"running", "completed", "failed"},
   steps : [Types -> Step], fixes : Nat, active : Rounds,
   fullOccurred : BOOLEAN, forced : BOOLEAN, closure : BOOLEAN,
   fingerprint : Nat, fixBaselines : Seq(Baseline), covered : Nat,
   stash : SUBSET Findings, layer : Nat, layers : Nat, beforeRuling : Nat]

-----------------------------------------------------------------------------
(* What a step leaves alone.                                               *)

\* What a handler and a transition leave alone.
SamePlace(g, f) ==
  /\ g.selected = f.selected /\ g.index = f.index /\ g.current = f.current
  /\ g.newest = f.newest /\ g.reviews = f.reviews /\ g.status = f.status
  /\ g.fixes = f.fixes

SameLayers(g, f) ==
  g.layer = f.layer /\ g.layers = f.layers /\ g.beforeRuling = f.beforeRuling

SameRound(g, f) ==
  /\ g.active = f.active /\ g.fullOccurred = f.fullOccurred /\ g.forced = f.forced
  /\ g.closure = f.closure /\ g.fingerprint = f.fingerprint /\ g.covered = f.covered

SameReview(g, f) ==
  /\ SameRound(g, f) /\ SameLayers(g, f)
  /\ g.fixBaselines = f.fixBaselines /\ g.stash = f.stash

-----------------------------------------------------------------------------
(* A flow that is well formed.                                             *)

\* What a transition looks for is there, and the index names a slot, or the end
\* of a flow that is over.
HasSlots(f) ==
  /\ \E i \in 1..Len(f.selected) : f.selected[i] = "IMPLEMENT"
  /\ \E i \in 1..Len(f.selected) : f.selected[i] = "SELF_CHECK"

Routed(f) ==
  /\ f.index \in 1..(Len(f.selected) + 1)
  /\ f.status # "completed" => f.index <= Len(f.selected)
  /\ HasSlots(f)

\* Baselines and layers that are referred to exist.
Grounded(f, c) ==
  /\ f.active # NoRound => f.active.base <= Len(f.fixBaselines)
  /\ \A i \in 1..Len(f.fixBaselines) : f.fixBaselines[i].at <= c
  /\ f.covered <= Len(f.fixBaselines)
  /\ f.layer <= f.layers /\ f.beforeRuling <= f.layers

FlowOK(f, c) == f \in FlowSet /\ Routed(f) /\ Grounded(f, c)

-----------------------------------------------------------------------------
(* Rounds.                                                                 *)

\* A round that goes on: a first pass that widens is credited as a full one.
RoundKept(g, f) ==
  /\ f.active \in Round /\ f.active.layer = f.layer
  /\ g.active.pass = f.active.pass /\ g.active.flushTried = f.active.flushTried
  /\ g.active.credit = f.active.credit \/ g.active.pass = 1
  /\ g.forced = f.forced /\ g.closure = f.closure /\ g.covered = f.covered

\* A round that begins.
RoundNew(g, f) ==
  /\ ~(f.active \in Round /\ f.active.layer = f.layer)
  /\ g.active.pass = 1 /\ ~g.active.flushTried
  /\ ~g.forced /\ ~g.closure /\ g.covered = Len(f.fixBaselines)

\* A round that goes on or begins, for the description in force.
InRound(g, f) ==
  /\ g \in FlowSet /\ SamePlace(g, f) /\ SameLayers(g, f) /\ g.steps = f.steps
  /\ g.fixBaselines = f.fixBaselines /\ g.stash = f.stash
  /\ g.active \in Round /\ g.active.layer = g.layer
  /\ g.active.base <= Len(g.fixBaselines) /\ g.covered <= Len(g.fixBaselines)
  /\ RoundKept(g, f) \/ RoundNew(g, f)
  /\ (f.active \in Round /\ f.active.credit = "full" => f.active.mode = "full")
       => (g.active.credit = "full" => g.active.mode = "full")

\* What entering SELF_CHECK leaves: a round, and a step that waits for its pass.
EnteredSelfCheck(g, f, i) ==
  /\ g \in FlowSet /\ SameLayers(g, f) /\ g.fixBaselines = f.fixBaselines
  /\ g.selected = f.selected /\ g.index = i /\ g.current = "SELF_CHECK"
  /\ g.newest = "SELF_CHECK" /\ g.reviews = f.reviews /\ g.status = f.status
  /\ g.fixes = f.fixes
  /\ g.active \in Round /\ g.active.layer = g.layer
  /\ g.active.base <= Len(g.fixBaselines) /\ g.covered <= Len(g.fixBaselines)
  /\ RoundKept(g, f) \/ RoundNew(g, f)
  /\ (f.active \in Round /\ f.active.credit = "full" => f.active.mode = "full")
       => (g.active.credit = "full" => g.active.mode = "full")
  /\ g.stash = IF g.active.pass = 1 THEN {} ELSE f.stash
  /\ g.steps["SELF_CHECK"] = [NewStep EXCEPT !.pass = g.active.pass,
                                 !.flushTried = g.active.flushTried, !.stash = g.stash]

-----------------------------------------------------------------------------
(* What a handler and a transition do to a flow.                           *)

\* Everything but the steps.
SameButSteps(g, f) == SamePlace(g, f) /\ SameReview(g, f)

\* The baseline of one more fix, of the code as it is.
OneMoreFix(g, f) ==
  /\ Len(g.fixBaselines) = Len(f.fixBaselines) + 1
  /\ g.fixBaselines[Len(f.fixBaselines) + 1].at = code
  /\ \A i \in 1..Len(f.fixBaselines) : g.fixBaselines[i] = f.fixBaselines[i]

\* Only the current step changes, into s.
StepTo(g, f, s) ==
  /\ g \in FlowSet /\ SameButSteps(g, f) /\ g.steps[f.current] = s
  /\ \A u \in Types \ {f.current} : g.steps[u] = f.steps[u]

\* What a pass answers: found are its findings, severe if one of them is.
PassDefers(found, severe) ==
  /\ found # {} /\ Cur.pass < Passes /\ ~severe
  /\ DeferThreshold > 0 /\ Cardinality(found) < DeferThreshold

PassAnswer(found, severe) ==
  LET all == Cur.stash \cup found
      passed == PassDefers(found, severe) \/ NothingLeft(found)
  IN [Cur EXCEPT !.status = IF passed THEN "completed" ELSE "revision",
                 !.wrote = ~passed \/ all # {},
                 !.deferred = IF passed THEN all ELSE {},
                 !.issues = IF passed THEN {} ELSE all]

\* Only the current step changes, into s, and the status of the flow.
StepAndStatus(g, f, s, x) ==
  /\ g \in FlowSet /\ SameReview(g, f) /\ g.status = x /\ g.fixes = f.fixes
  /\ g.selected = f.selected /\ g.index = f.index /\ g.current = f.current
  /\ g.newest = f.newest /\ g.reviews = f.reviews /\ g.steps[f.current] = s
  /\ \A u \in Types \ {f.current} : g.steps[u] = f.steps[u]

\* New layers over the description.
WithLayers(f, a, b, r) == [f EXCEPT !.layers = a, !.layer = b, !.beforeRuling = r]

\* A pass begins, in the round it was prepared for or in a new one.
Refreshed == IF RequirementsChanged(flow) THEN ForceFull(flow) ELSE flow

\* Back to IMPLEMENT, with what the review has, in the same sequence.
AtFix(g, f) ==
  /\ g \in FlowSet /\ SameRound(g, f) /\ SameLayers(g, f) /\ g.stash = f.stash
  /\ g.selected = f.selected /\ g.index = IndexOf(f, "IMPLEMENT")
  /\ g.current = "IMPLEMENT" /\ g.newest = f.newest /\ g.reviews = f.reviews
  /\ g.status = f.status /\ g.fixes = f.fixes + 1 /\ OneMoreFix(g, f)
  /\ g.steps["IMPLEMENT"] = [f.steps["IMPLEMENT"] EXCEPT !.status = "pending"]

\* A flow with one slot more, and the step in it.
AtInserted(g, f, at, t, s) ==
  /\ g \in FlowSet /\ SameReview(g, f)
  /\ g.selected = InsertAt(f.selected, at, t) /\ Len(g.selected) = Len(f.selected) + 1
  /\ \A j \in 1..(Len(f.selected) + 1) :
       g.selected[j] = IF j < at THEN f.selected[j]
                       ELSE IF j = at THEN t ELSE f.selected[j - 1]
  /\ g.index = at /\ g.current = t
  /\ g.newest = IF t = "CONFIRM" THEN f.newest ELSE t
  /\ g.reviews = f.reviews /\ g.status = f.status
  /\ g.steps[t] = s /\ g.fixes = f.fixes
  /\ \A u \in Types \ {t} : g.steps[u] = IF u \in Kept(f, t) THEN f.steps[u] ELSE NoStep

-----------------------------------------------------------------------------
(* Standing flows, saves and the flows a transition leads to.              *)

\* What the invariants say of the flow in force.
Standing ==
  /\ setup \in Setups /\ spent \in [Event -> Nat]
  /\ FlowOK(flow, code) /\ code \in Nat /\ reviewed \in 0..code /\ clean \in Nat
  /\ open \subseteq Findings
  /\ flow.status = "completed" => Cur.status = "completed"

Spent(e) == spent' = [spent EXCEPT ![e] = @ + 1]

Saved(f, bodies) ==
  \/ flow' = f /\ spent' = spent
  \/ flow' = Torn(f, bodies) /\ Left("tears") /\ Spent("tears")

\* A save that is cut leaves the place and the answers of the step there was.
AtTorn(g, f, bodies) ==
  /\ SamePlace(g, flow) /\ SameReview(g, f)
  /\ g.steps[flow.current] =
       [bodies[flow.current] EXCEPT !.skipped = FALSE,
                                    !.status = IF Cur.skipped THEN "failed" ELSE @]
  /\ \A u \in Types \ {flow.current} : g.steps[u] = bodies[u]

Marked == IF flow.current = "SELF_CHECK" THEN MarkFindings(flow) ELSE flow

Ruling(f) == [NewStep EXCEPT !.issues = f.steps["SELF_CHECK"].issues]

\* Without the slots of the ruling.
Unspliced == [flow EXCEPT !.selected = StripAdjudicateRun(flow).selected]

ToConfirm ==
  [Enter([flow EXCEPT !.selected = InsertAt(@, flow.index + 1, "CONFIRM")],
         "CONFIRM", flow.index + 1, NewStep) EXCEPT !.reviews = flow.newest]

\* The sequence without the ruling, a full round owed, one more fix.
Landed == ForceFull([flow EXCEPT !.selected = StripAdjudicateRun(flow).selected, !.fixes = @ + 1])

\* The step that comes next in the sequence.
Entered(t) ==
  [Enter(Departed, t, flow.index + 1, NewStep) EXCEPT
     !.reviews = IF t = "CONFIRM" THEN flow.newest ELSE @]

Ended == [Departed EXCEPT !.status = "completed", !.index = Len(flow.selected) + 1]

\* One more continuation of a whole task.
Counted == [flow EXCEPT !.steps["IMPLEMENT"].continuations = @ + 1]

Continued ==
  SetStatus(Counted, IF Cur.continuations < ContinuationLimit THEN "pending" ELSE "failed")

\* A rejected step, with what the rejection undoes.
Rejected(a) ==
  LET ruled == IF flow.reviews = "ADJUDICATE" THEN [flow EXCEPT !.layer = flow.beforeRuling]
               ELSE flow
  IN CASE flow.reviews = "IMPLEMENT" -> CaptureFixBaseline(ruled, a)
       [] flow.reviews = "SELF_CHECK" -> ForceFull(ruled)
       [] OTHER -> ruled

Returned(a) ==
  [Rejected(a) EXCEPT !.steps[flow.reviews].status = "pending", !.current = flow.reviews,
     !.index = IF IndexOf(flow, flow.reviews) = 0 THEN @ ELSE IndexOf(flow, flow.reviews)]

\* The facts about the world after a step, whatever becomes of the flow.
Scalars ==
  /\ setup' = setup /\ spent' \in [Event -> Nat] /\ \A e \in Event : spent'[e] >= spent[e]
  /\ code' \in Nat /\ code <= code' /\ reviewed' \in 0..code' /\ clean' \in Nat
  /\ open' \subseteq Findings

Progress ==
  /\ Scalars
  /\ FlowOK(flow', code') /\ flow.layers <= flow'.layers
  /\ flow'.status = "completed" => flow'.steps[flow'.current].status = "completed"

-----------------------------------------------------------------------------
(* Every snapshot and the flow are well formed (RewindTyped).              *)

EntrySet == [flow : FlowSet, code : Nat, clean : Nat, open : SUBSET Findings]

\* A snapshot is a flow that was about to begin its current step, and nothing in
\* it is newer than what there is.
EntryOK(e, c, l) ==
  /\ FlowOK(e.flow, e.code) /\ e.code <= c /\ e.flow.layers <= l
  /\ e.flow.status = "running"
  /\ e.flow.steps[e.flow.current].status = "pending"

RewindInv ==
  /\ Standing
  /\ history \in Seq(EntrySet)
  /\ \A i \in 1..Len(history) : EntryOK(history[i], code, flow.layers)
  /\ entered \subseteq Types /\ behind \in BOOLEAN /\ revised \in 1..flow.layers
  /\ Left("restarts") => \A t \in entered : PositionOf(t) > 0

\* Where the newest snapshot of a type stands in h.
LastOf(h, t) == SelectLastInSeq(h, LAMBDA e : e.flow.current = t)

\* The flow of a snapshot with steps and layers of the flow there is.
WithSteps(f, H, l, a, b) ==
  [f EXCEPT !.steps = H, !.layers = l, !.layer = a, !.beforeRuling = b]

AtSteps(g, f, H, l, a, b) ==
  /\ g \in FlowSet /\ SamePlace(g, f) /\ SameRound(g, f)
  /\ g.fixBaselines = f.fixBaselines /\ g.stash = f.stash
  /\ g.steps = H /\ g.layers = l /\ g.layer = a /\ g.beforeRuling = b

Anew == [NewStep EXCEPT !.rebuilt = TRUE]

\* Layers after a restart, the operator's newest revision among them.
LayersThen(r) == IF r THEN flow.layers + 1 ELSE flow.layers

NewestThen(r) == IF r THEN LayersThen(r) ELSE revised

RestartedFlow(i, r, u) == Rebuilt(Restored(i, LayersThen(r), NewestThen(r)), u)

-----------------------------------------------------------------------------
(* The sequence and the place in it (SequenceKept).                        *)

\* The flow has no configured confirmation step, and a confirmation of a ruling
\* cannot be skipped: otherwise a CONFIRM may take an old ruling for what it reviews.
Standard ==
  /\ "CONFIRM" \notin Range(Base)
  /\ ConfirmRulings # "none" => "CONFIRM" \notin Skippable

ReviewSlot == IndexOf([selected |-> Base], "SELF_CHECK")

\* The slot of a ruling before the one of SELF_CHECK, with its confirmations.
Spliced(q, k) ==
  /\ Len(q) = Len(Base) + 1 + k
  /\ \A i \in 1..Len(q) :
       q[i] = IF i < ReviewSlot THEN Base[i]
              ELSE IF i = ReviewSlot THEN "ADJUDICATE"
              ELSE IF i <= ReviewSlot + k THEN "CONFIRM"
              ELSE Base[i - k - 1]

AtSlot(f) ==
  /\ f.selected = Base /\ f.current \notin Dynamic
  /\ f.status # "completed" => f.index \in 1..Len(Base) /\ Base[f.index] = f.current
  /\ f.status = "completed" => f.index = Len(Base) + 1

InRuling(f) ==
  /\ f.current \in Dynamic /\ f.status # "completed" /\ f.newest = "ADJUDICATE"
  /\ \E k \in Nat : Spliced(f.selected, k) /\ (f.current = "CONFIRM" => k > 0)
  /\ f.index = IF f.current = "CONFIRM" THEN ReviewSlot + 1 ELSE ReviewSlot
  /\ f.current = "CONFIRM" =>
       /\ f.reviews = "ADJUDICATE" /\ ConfirmRulings # "none"
       /\ f.steps["CONFIRM"].status = "completed" => f.steps["CONFIRM"].verdict = "approved"

Placed(f) == AtSlot(f) \/ InRuling(f)

SequenceInv ==
  /\ RewindInv /\ Placed(flow)
  /\ \A i \in 1..Len(history) : Placed(history[i].flow)

-----------------------------------------------------------------------------
(* The rounds of a review (CompletionReviewed).                            *)

Ordered == Orderly /\ ~behind

\* What a round owes before its next pass.
PassesBefore(f, n) ==
  f.active.pass > 1 /\ f.active.credit = "full" => n >= f.active.pass - 1 \/ f.stash # {}

\* A round of a flow at its review, with n clean full passes in a row.
RoundHolds(f, n) ==
  f.active # NoRound =>
    /\ ~f.forced /\ f.active.layer = f.layer
    /\ f.active.credit = "full" => f.active.mode = "full"
    /\ f.steps["SELF_CHECK"].status \notin {"completed", "revision"} => PassesBefore(f, n)
    /\ f.steps["SELF_CHECK"].status = "completed" =>
         /\ f.steps["SELF_CHECK"].pass = f.active.pass
         /\ f.active.credit = "full" =>
              n >= f.active.pass \/ f.steps["SELF_CHECK"].deferred # {}

\* What the step has answered, or was asked.
AnswerHolds(f) ==
  LET st == f.steps["SELF_CHECK"] IN
  /\ f.stash = st.stash
  /\ st.status = "running" => f.active # NoRound /\ st.pass = f.active.pass
  /\ st.status = "completed" =>
       /\ f.active # NoRound \/ f.forced
       /\ st.pass >= Passes => st.deferred = {}
       /\ st.wrote <=> st.deferred # {}
       /\ st.stash \subseteq st.deferred

PastReview(f) == f.current \notin Dynamic \cup {"SELF_CHECK"} /\ f.index > ReviewSlot

\* A round is open only at the review; past it, the passes were made or are owed.
ReviewOf(f, n) ==
  /\ f.current # "SELF_CHECK" => f.active = NoRound
  /\ f.current = "SELF_CHECK" => RoundHolds(f, n) /\ AnswerHolds(f)
  /\ PastReview(f) => f.forced \/ n >= Passes
  /\ f.status = "completed" => n >= Passes

ReviewInv ==
  Ordered => /\ ReviewOf(flow, clean)
             /\ \A i \in 1..Len(history) : ReviewOf(history[i].flow, history[i].clean)

-----------------------------------------------------------------------------
(* Entries behind the review (GateKept).                                   *)

\* A pass that was made belongs to a round that is open.
AnsweredInRound(f) ==
  f.current = "SELF_CHECK" /\ f.steps["SELF_CHECK"].status = "completed" => f.active # NoRound

\* A step behind the review that begins: no revision is owed a review.
Fresh(f) == ~f.forced /\ f.steps[f.current].status = "pending"

\* What else leads to a step behind the review is there already.
Stays == flow'.current = flow.current /\ flow'.index = flow.index /\ Cur.status # "pending"

\* While a restart is left, a step behind the review that was not entered begins,
\* and no revision waits for it, nor behind a snapshot of such a step.
GateInv ==
  Ordered /\ ~ReviseDone =>
    /\ AnsweredInRound(flow)
    /\ Left("restarts") /\ PastReview(flow) /\ flow.current \notin entered => Fresh(flow)
    /\ \A i \in 1..Len(history) : PastReview(history[i].flow) => ~history[i].flow.forced

\* A step that leaves a place behind the review, or goes there.
StepsOn == LeavesHistory \/ Revises \/ UNCHANGED rvars

-----------------------------------------------------------------------------
(* Open findings (BookkeepingKept).                                        *)

\* In a ruling they are with the step that rules and with the one that found them.
Ruled(f, o) ==
  f.current \in Dynamic =>
    o \subseteq f.steps["ADJUDICATE"].issues /\ o \subseteq f.steps["SELF_CHECK"].issues

HeldBy(st) ==
  IF st.status = "completed" THEN st.deferred
  ELSE IF st.status = "revision" THEN st.issues ELSE st.stash

\* A pass answers for the description in force, and keeps what was deferred to it.
PassHolds(f, o) ==
  LET st == f.steps["SELF_CHECK"] IN
  /\ o \subseteq HeldBy(st) /\ f.stash \subseteq HeldBy(st) /\ ~st.skipped
  /\ st.status = "running" \/ (st.status = "completed" /\ st.deferred # {}) =>
       f.active # NoRound /\ f.active.layer = f.layer
  /\ st.status = "completed" =>
       (st.wrote <=> st.deferred # {}) /\ (st.pass >= Passes => st.deferred = {})

FindingsAt(f, o) ==
  /\ Ruled(f, o)
  /\ f.current = "SELF_CHECK" => PassHolds(f, o)
  /\ f.current \notin Dynamic \cup {"SELF_CHECK"} => o = {}

FindingsInv ==
  ~ReviseDone /\ "SELF_CHECK" \notin Skippable =>
    /\ FindingsAt(flow, open)
    /\ \A i \in 1..Len(history) : Ruled(history[i].flow, history[i].open)

-----------------------------------------------------------------------------
(* The budget of fixes (BookkeepingKept).                                  *)

\* A ruling costs a fix when it is over, so one is left while it lasts.
Budget(f) == f.fixes <= MaxFix /\ (f.current \in Dynamic => f.fixes < MaxFix)

BudgetInv ==
  Ordered /\ MaxFix > 0 =>
    Budget(flow) /\ \A i \in 1..Len(history) : Budget(history[i].flow)

-----------------------------------------------------------------------------
(* The code a review has been over (BookkeepingKept).                      *)

\* The next incremental round starts at a fix that was seen, or before all others.
NextReaches(f, r) ==
  /\ f.active = NoRound /\ f.fullOccurred /\ ~f.forced
  /\ f.covered < Len(f.fixBaselines)
  => f.fixBaselines[f.covered + 1].at <= r

\* So did the one that is active, and a round discarded for the description it
\* answers leaves its mark.
RoundReaches(f, r) ==
  f.active # NoRound =>
    /\ f.fingerprint = f.active.layer /\ f.active.layer >= 1
    /\ f.active.mode = "incremental" =>
         f.active.base > 0 /\ f.fixBaselines[f.active.base].at <= r

Scoped(f, r) ==
  /\ f.layer >= 1 /\ f.beforeRuling >= 1
  /\ NextReaches(f, r) /\ RoundReaches(f, r)

\* A pass has been over the code as it is.
Seen(f) ==
  \/ f.current \in Dynamic \/ PastReview(f)
  \/ f.current = "SELF_CHECK" /\ f.steps["SELF_CHECK"].status \in {"completed", "revision"}

\* Before the review there is a fix to start from, or a full round comes.
Owed(f) == f.active = NoRound /\ f.fullOccurred /\ ~f.forced => f.covered < Len(f.fixBaselines)

Ahead(f) == f.current \notin Dynamic \cup {"SELF_CHECK"} /\ f.index < ReviewSlot

ScopeOf(f, c, r) ==
  /\ Scoped(f, r)
  /\ Seen(f) => r >= c
  /\ Ahead(f) => Owed(f)

ScopeInv ==
  ~ReviseDone /\ "SELF_CHECK" \notin Skippable /\ ~behind =>
    /\ ScopeOf(flow, code, reviewed)
    /\ \A i \in 1..Len(history) : ScopeOf(history[i].flow, history[i].code, reviewed)
=============================================================================
