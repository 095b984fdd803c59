----------------------------- MODULE FlowEngine -----------------------------
(***************************************************************************)
(* The step router of one flow: StateMachine.run_step and                  *)
(* transition_to_next (engine/state_machine.py), the review rounds of      *)
(* SELF_CHECK (SelfCheckRoundController in engine/review_scope.py), the    *)
(* deferral decision of the SELF_CHECK handler, and what the run loop      *)
(* (commands/run.py) does with a failure, a stop or an operator's revised  *)
(* task description.                                                       *)
(*                                                                         *)
(* flow is what engine.json and the cold files beside it hold.  Every      *)
(* transition ends in save_flow, which writes the bodies of the steps,     *)
(* then the shared context, then the header: a process that dies before    *)
(* any of them comes back to the state before the transition, one that     *)
(* dies before the header to a state with the new context and the old      *)
(* steps (Torn), one that dies inside a handler to a RUNNING step (Resume).*)
(*                                                                         *)
(* What an agent decides (an outcome, a finding, a ruling, whether the     *)
(* ledger reports an oscillation) is any choice.  The workspace is the     *)
(* number of IMPLEMENT executions, the effective task description the      *)
(* number of the newest layer written over it.                             *)
(***************************************************************************)
EXTENDS Naturals, FiniteSets, SequencesExt

CONSTANTS
  Setups,             \* configurations a flow may run under
  ContinuationLimit,  \* _HOLISTIC_CONTINUATION_LIMIT
  MaxRetries          \* max_retries of the failure gate

Dynamic == {"ADJUDICATE", "CONFIRM"}
Gates == {"TEST", "E2E", "INVARIANT_CHECK"}
Types == {"PLAN", "IMPLEMENT", "SELF_CHECK", "COMMIT"} \cup Gates \cup Dynamic

\* The bounded events.
Event == {"failures", "resumes", "revisions", "rejections", "tears", "restarts"}

ASSUME EngineAssumption ==
  /\ ContinuationLimit \in Nat /\ MaxRetries \in Nat
  /\ \A s \in Setups :
       /\ s.base \in Seq(Types \ {"ADJUDICATE"})
       /\ {"IMPLEMENT", "SELF_CHECK"} \subseteq Range(s.base)
       /\ \A i, j \in 1..Len(s.base) :
            /\ s.base[i] = s.base[j] /\ s.base[i] # "CONFIRM" => i = j
            /\ s.base[i] = "SELF_CHECK" =>
                 i < Len(s.base) /\ (s.base[j] = "IMPLEMENT" => j < i)
       /\ s.base # << >> /\ s.base[1] # "CONFIRM"
       /\ s.passes \in Nat \ {0} /\ s.deferThreshold \in Nat /\ s.maxFix \in Nat
       /\ s.confirmRulings \in {"none", "human", "llm"} /\ s.reviseDone \in BOOLEAN
       /\ IsFiniteSet(s.findings) /\ s.skippable \subseteq Types
       /\ s.limit \in [Event -> Nat]

VARIABLES
  setup,     \* the configuration, fixed from the start
  flow,      \* FlowInstance
  code,      \* workspace: IMPLEMENT executions begun so far
  open,      \* findings validated, neither handed to IMPLEMENT nor ruled out
  clean,     \* clean full passes in a row over this code and description
  reviewed,  \* IMPLEMENT executions up to this one were in a finished pass
  spent      \* uses of the bounded events

vars == <<setup, flow, code, open, clean, reviewed, spent>>

Base == setup.base                       \* selected_steps as the flow starts
Passes == setup.passes                   \* passes a SELF_CHECK round needs
DeferThreshold == setup.deferThreshold   \* self_check_defer_fix_threshold, 0 disables
MaxFix == setup.maxFix                   \* max_fix_iterations, 0 is unlimited
ConfirmRulings == setup.confirmRulings   \* reviewer of a ruling, or "none"
Findings == setup.findings               \* what a SELF_CHECK pass can validate
Skippable == setup.skippable             \* step types the operator skips after a failure
ReviseDone == setup.reviseDone           \* whether a dialog over a finished step revises

Left(event) == spent[event] < setup.limit[event]
Spend(event) == spent' = [spent EXCEPT ![event] = @ + 1]

NoRound == [mode |-> "none"]

Round ==   \* active_round; base 0 is the implementation baseline
  [mode: {"full", "incremental"}, credit: {"full", "incremental"}, base: Nat,
   layer: Nat, pass: Nat \ {0}, flushTried: BOOLEAN]

Status == {"none", "pending", "running", "completed", "partial", "revision", "failed"}

Step ==    \* the newest step of a type
  [status: Status, pass: Nat, flushTried: BOOLEAN, stash: SUBSET Findings,
   wrote: BOOLEAN, deferred: SUBSET Findings, issues: SUBSET Findings,
   verdict: {"none", "noop", "description", "plan", "approved", "rejected"},
   retries: Nat, continuations: Nat, skipped: BOOLEAN, rebuilt: BOOLEAN]

NewStep ==
  [status |-> "pending", pass |-> 0, flushTried |-> FALSE, stash |-> {},
   wrote |-> FALSE, deferred |-> {}, issues |-> {}, verdict |-> "none",
   retries |-> 0, continuations |-> 0, skipped |-> FALSE, rebuilt |-> FALSE]

NoStep == [NewStep EXCEPT !.status = "none"]

\* The shape of a persisted flow, and how the baselines a round may name grow.
TypeOK ==
  /\ flow.selected \in Seq(Types)
  /\ flow.index \in 1..(Len(flow.selected) + 1)
  /\ flow.current \in Types /\ flow.newest \in Types /\ flow.reviews \in Types
  /\ flow.status \in {"running", "completed", "failed"}
  /\ flow.steps \in [Types -> Step]
  /\ flow.fixes \in Nat
  /\ flow.active \in Round \cup {NoRound}
  /\ flow.active # NoRound => flow.active.base <= Len(flow.fixBaselines)
  /\ <<flow.fullOccurred, flow.forced, flow.closure>> \in BOOLEAN \X BOOLEAN \X BOOLEAN
  /\ flow.fingerprint \in Nat
  /\ flow.fixBaselines \in Seq([at: 0..code, available: BOOLEAN])
  /\ flow.covered \in 0..Len(flow.fixBaselines)
  /\ flow.stash \subseteq Findings
  /\ flow.layer \in 0..flow.layers /\ flow.layers \in Nat
  /\ flow.beforeRuling \in 0..flow.layers
  /\ code \in Nat /\ reviewed \in 0..code /\ clean \in Nat
  /\ open \subseteq Findings

Init ==
  /\ setup \in Setups
  /\ flow = [selected |-> Base, index |-> 1, current |-> Base[1],
             newest |-> Base[1], reviews |-> Base[1], status |-> "running",
             steps |-> [t \in Types |-> IF t = Base[1] THEN NewStep ELSE NoStep],
             fixes |-> 0, active |-> NoRound, fullOccurred |-> FALSE,
             forced |-> FALSE, closure |-> FALSE, fingerprint |-> 0,
             fixBaselines |-> << >>, covered |-> 0,
             stash |-> {},
             layer |-> 1, layers |-> 1, beforeRuling |-> 1]
  /\ code = 0 /\ open = {} /\ clean = 0 /\ reviewed = 0
  /\ spent = [e \in Event |-> 0]

(***************************************************************************)
(* Helpers on a flow.                                                      *)
(***************************************************************************)
Cur == flow.steps[flow.current]
IndexOf(f, t) == SelectInSeq(f.selected, LAMBDA s : s = t)

\* The steps a later transition still reads: the IMPLEMENT a fix re-enters,
\* what a CONFIRM reviews, and the SELF_CHECK behind a ruling.
Kept(f, t) ==
  {"IMPLEMENT", t} \cup
  (IF t \in Dynamic THEN {f.newest, "SELF_CHECK", "ADJUDICATE"}
   ELSE IF "CONFIRM" \in Range(Base) THEN {f.newest} ELSE {})

\* add_step, current_step_id and the routing index, for a step of type t.
Enter(f, t, i, step) ==
  [f EXCEPT !.steps = [u \in Types |-> IF u = t THEN step
                                       ELSE IF u \in Kept(f, t) THEN f.steps[u] ELSE NoStep],
            !.current = t, !.index = i, !.newest = IF t = "CONFIRM" THEN @ ELSE t]

Credited(f) == f.fullOccurred \/ (f.active # NoRound /\ f.active.credit = "full")

ForceFull(f) ==
  [f EXCEPT !.fullOccurred = Credited(f), !.active = NoRound,
            !.forced = TRUE, !.closure = FALSE]

MarkFindings(f) ==
  [f EXCEPT !.fullOccurred = Credited(f), !.active = NoRound, !.closure = FALSE]

CompleteCleanOwesNothing(f) ==   \* mutant
  [f EXCEPT !.fullOccurred = Credited(f), !.active = NoRound, !.closure = FALSE]

\* complete_clean returns closure: a full closure round is due.
CompleteClean(f) ==
  IF f.active = NoRound THEN f
  ELSE [f EXCEPT !.fullOccurred = Credited(f), !.active = NoRound,
                 !.closure = (f.active.credit = "incremental")]

RequirementsChanged(f) == f.active # NoRound /\ f.active.layer # f.layer

\* The fix baseline an incremental round starts from, 0 if there is none.
EarliestUnreviewed(f) ==
  IF f.covered < Len(f.fixBaselines) /\ f.fixBaselines[f.covered + 1].available
  THEN f.covered + 1 ELSE 0

CoverageWithNext(f) == Len(f.fixBaselines) + 1   \* mutant

\* The fix baselines a new round covers: all so far.
Coverage(f) == Len(f.fixBaselines)

\* prepare_round.
PrepareRound(f) ==
  IF f.active # NoRound /\ f.active.layer = f.layer THEN f
  ELSE LET changed == f.fingerprint # 0 /\ f.fingerprint # f.layer
           full == \/ f.forced \/ f.closure \/ changed
                   \/ ~f.fullOccurred \/ EarliestUnreviewed(f) = 0
           mode == IF full THEN "full" ELSE "incremental"
       IN [f EXCEPT !.active = [mode |-> mode, credit |-> mode,
                                base |-> IF full THEN 0 ELSE EarliestUnreviewed(f),
                                layer |-> f.layer, pass |-> 1, flushTried |-> FALSE],
                    !.forced = FALSE, !.closure = FALSE,
                    !.fingerprint = f.layer, !.covered = Coverage(f)]

\* _prepare_self_check_scope: an incremental diff that cannot be rebuilt
\* widens to the implementation baseline, for the accounting too on pass 1.
PrepareScope(f, undecidable) ==
  LET g == PrepareRound(f) IN
  IF undecidable /\ g.active.mode = "incremental"
  THEN [g EXCEPT !.active.mode = "full", !.active.base = 0,
                 !.active.credit = IF g.active.pass = 1 THEN "full" ELSE @]
  ELSE g

\* _build_step_inputs for SELF_CHECK, entered at index i.
EnterSelfCheck(f, i, undecidable) ==
  LET g == PrepareScope(f, undecidable)
      kept == IF g.active.pass = 1 THEN {} ELSE g.stash
  IN Enter([g EXCEPT !.stash = kept], "SELF_CHECK", i,
           [NewStep EXCEPT !.pass = g.active.pass, !.flushTried = g.active.flushTried,
                           !.stash = kept])

\* The stash put back into the step and the context after the reset of pass 1.
Reinject(f, s) == [f EXCEPT !.stash = s, !.steps["SELF_CHECK"].stash = s]

CaptureFixBaseline(f, available) ==
  [f EXCEPT !.fixBaselines = Append(@, [at |-> code, available |-> available])]

\* _transition_to_fix: the IMPLEMENT step is reused, none is created.
ToFix(f, available) ==
  LET g == Enter(CaptureFixBaseline(f, available), "IMPLEMENT", IndexOf(f, "IMPLEMENT"),
                 [f.steps["IMPLEMENT"] EXCEPT !.status = "pending"])
  IN [g EXCEPT !.fixes = @ + 1, !.newest = f.newest]

\* _transition_to_adjudicate: the slot goes before the SELF_CHECK slot.
ToAdjudicate(f) ==
  LET at == IF f.index <= Len(f.selected) /\ f.selected[f.index] = "SELF_CHECK"
            THEN f.index ELSE IndexOf(f, "SELF_CHECK")
  IN Enter([f EXCEPT !.selected = InsertAt(@, at, "ADJUDICATE")], "ADJUDICATE", at,
           [NewStep EXCEPT !.issues = f.steps["SELF_CHECK"].issues])

\* _strip_inserted_adjudicate_run: what is left of the sequence, and the
\* index of SELF_CHECK in it.
StripAdjudicateRun(f) ==
  LET n == Len(f.selected)
      later == {i \in f.index..n : f.selected[i] = "SELF_CHECK"}
      sc == IF later # {} THEN Min(later) ELSE IndexOf(f, "SELF_CHECK")
      starts == {j \in 1..(sc - 1) :
                   /\ \A k \in j..(sc - 1) : f.selected[k] \in Dynamic
                   /\ \A k \in (j + 1)..(sc - 1) : f.selected[k] # "ADJUDICATE"}
      first == IF starts = {} THEN sc ELSE Min(starts)
  IN [selected |-> SubSeq(f.selected, 1, first - 1) \o SubSeq(f.selected, sc, n),
      selfCheck |-> first]

(***************************************************************************)
(* run_step.                                                               *)
(***************************************************************************)
Running(t) == flow.status = "running" /\ flow.current = t /\ Cur.status = "running"
SetStatus(f, s) == [f EXCEPT !.steps[f.current].status = s]

Start ==
  /\ flow.status = "running" /\ Cur.status = "pending" /\ flow.current # "SELF_CHECK"
  /\ flow' = SetStatus(flow, "running")
  /\ code' = IF flow.current = "IMPLEMENT" THEN code + 1 ELSE code
  /\ clean' = IF flow.current = "IMPLEMENT" THEN 0 ELSE clean
  /\ UNCHANGED <<open, reviewed, spent, setup>>

\* _refresh_self_check_scope comes first.
StartSelfCheck(undecidable) ==
  /\ flow.status = "running" /\ flow.current = "SELF_CHECK" /\ Cur.status = "pending"
  /\ LET g == PrepareScope(IF RequirementsChanged(flow) THEN ForceFull(flow) ELSE flow,
                           undecidable)
     IN flow' = [g EXCEPT !.steps["SELF_CHECK"].status = "running",
                          !.steps["SELF_CHECK"].pass = g.active.pass,
                          !.steps["SELF_CHECK"].flushTried = g.active.flushTried]
  /\ UNCHANGED <<code, open, clean, reviewed, spent, setup>>

\* A handler that only succeeds (or fails, below).
FinishPlain ==
  /\ Running(flow.current) /\ flow.current \in {"PLAN", "COMMIT"}
  /\ flow' = SetStatus(flow, "completed")
  /\ UNCHANGED <<code, open, clean, reviewed, spent, setup>>

FinishImplement(s) ==
  /\ Running("IMPLEMENT") /\ s \in {"completed", "partial"}
  /\ flow' = SetStatus(flow, s)
  /\ UNCHANGED <<code, open, clean, reviewed, spent, setup>>

FinishGate(s) ==
  /\ Running(flow.current) /\ flow.current \in Gates /\ s \in {"completed", "revision"}
  /\ flow' = SetStatus(flow, s)
  /\ UNCHANGED <<code, open, clean, reviewed, spent, setup>>

\* A pass that validated nothing, with no stash waiting for the last one.
NothingLeft(found) == found = {} /\ ~(Cur.pass >= Passes /\ Cur.stash # {})

\* self_check_handler once its findings are validated.  severe: one of them
\* is critical or high.
FinishSelfCheck(found, severe) ==
  /\ Running("SELF_CHECK") /\ (severe => found # {})
  /\ LET defers == /\ found # {} /\ Cur.pass < Passes /\ ~severe
                   /\ DeferThreshold > 0 /\ Cardinality(found) < DeferThreshold
         all == Cur.stash \cup found
         passed == defers \/ NothingLeft(found)
     IN /\ flow' = [flow EXCEPT !.steps["SELF_CHECK"] =
              [Cur EXCEPT !.status = IF passed THEN "completed" ELSE "revision",
                          !.wrote = ~passed \/ all # {},
                          !.deferred = IF passed THEN all ELSE {},
                          !.issues = IF passed THEN {} ELSE all]]
        /\ clean' = IF all # {} \/ flow.active.mode # "full" THEN 0
                    ELSE IF Cur.pass = 1 THEN 1 ELSE clean + 1
  /\ open' = open \cup found /\ reviewed' = code
  /\ UNCHANGED <<code, spent, setup>>

\* adjudicate_handler; a rewritten description takes effect as it completes.
FinishAdjudicate(v) ==
  /\ Running("ADJUDICATE") /\ v \in {"noop", "description", "plan"}
  /\ flow' = [SetStatus(flow, "completed") EXCEPT
                !.steps["ADJUDICATE"].verdict = v,
                !.layers = IF v = "description" THEN @ + 1 ELSE @,
                !.layer = IF v = "description" THEN flow.layers + 1 ELSE @,
                !.beforeRuling = flow.layer]
  /\ clean' = IF v = "description" THEN 0 ELSE clean
  /\ UNCHANGED <<code, open, reviewed, spent, setup>>

FinishConfirm(v) ==
  /\ Running("CONFIRM")
  /\ \/ v = "approved" /\ UNCHANGED spent
     \/ v = "rejected" /\ Left("rejections")
        /\ Spend("rejections")
  /\ flow' = [flow EXCEPT !.steps["CONFIRM"].verdict = v,
                          !.steps["CONFIRM"].status =
                             IF v = "approved" THEN "completed" ELSE "revision"]
  /\ UNCHANGED <<code, open, clean, reviewed, setup>>

\* A handler raises, or reports failure.
Fail ==
  /\ Running(flow.current) /\ Left("failures")
  /\ flow' = SetStatus(flow, "failed")
  /\ Spend("failures")
  /\ UNCHANGED <<code, open, clean, reviewed, setup>>

\* --resume re-arms a step its process left RUNNING, or FAILED at the gate,
\* also when the flow had been given up.
Resume ==
  /\ Left("resumes")
  /\ Running(flow.current) \/ Cur.status = "failed"
  /\ flow' = [SetStatus(flow, "pending") EXCEPT !.steps[flow.current].retries = 0,
                                                !.status = "running"]
  /\ Spend("resumes")
  /\ UNCHANGED <<code, open, clean, reviewed, setup>>

(***************************************************************************)
(* The failure gate and the interjection dialog (commands/run.py).         *)
(***************************************************************************)
Retry ==
  /\ flow.status = "running" /\ Cur.status = "failed" /\ Cur.retries < MaxRetries
  /\ flow' = [SetStatus(flow, "pending") EXCEPT !.steps[flow.current].retries = @ + 1]
  /\ UNCHANGED <<code, open, clean, reviewed, spent, setup>>

\* The step is forced to completed and its transition follows at once.
Skip ==
  /\ flow.status = "running" /\ Cur.status = "failed" /\ Cur.retries < MaxRetries
  /\ flow.current \in Skippable
  /\ flow' = [SetStatus(flow, "completed") EXCEPT !.steps[flow.current].skipped = TRUE]
  /\ UNCHANGED <<code, open, clean, reviewed, spent, setup>>

\* Abort, or no retry left.
GiveUp ==
  /\ flow.status = "running" /\ Cur.status = "failed"
  /\ flow' = [flow EXCEPT !.status = "failed"]
  /\ UNCHANGED <<code, open, clean, reviewed, spent, setup>>

\* apply_decision with a revised description: over a step cut short
\* (continue re-arms it), at the failure gate, or over a finished step.
Revise ==
  /\ flow.status = "running" /\ ~Cur.skipped /\ Left("revisions")
  /\ Cur.status \in {"running", "failed"} \cup
                    (IF ReviseDone THEN {"completed", "revision"} ELSE {})
  /\ LET g == ForceFull([flow EXCEPT !.layers = @ + 1, !.layer = flow.layers + 1,
                                     !.beforeRuling = flow.layers + 1])
     IN flow' = IF Cur.status = "running" THEN SetStatus(g, "pending") ELSE g
  /\ clean' = 0
  /\ Spend("revisions")
  /\ UNCHANGED <<code, open, reviewed, setup>>

(***************************************************************************)
(* transition_to_next, one action per way out of a step.                   *)
(***************************************************************************)
\* save_flow cut between the context and the header.  In the header: the
\* sequence, the routing index, the current step, every status.  In the
\* bodies: what a step was given and what it answered.
Torn(f, bodies) ==
  [f EXCEPT !.selected = flow.selected, !.index = flow.index,
            !.current = flow.current, !.newest = flow.newest,
            !.reviews = flow.reviews, !.status = flow.status, !.fixes = flow.fixes,
            !.steps = [bodies EXCEPT ![flow.current].skipped = FALSE,
                                     ![flow.current].status =
                                        IF Cur.skipped THEN "failed" ELSE @]]

\* handed: the findings that IMPLEMENT, or a ruling, has once f is saved.
Save(f, bodies, handed) ==
  \/ flow' = f /\ open' = open \ handed /\ UNCHANGED spent
  \/ /\ Left("tears")
     /\ flow' = Torn(f, bodies)
     /\ Spend("tears")
     /\ UNCHANGED open

Leaving(t, s) == flow.status = "running" /\ flow.current = t /\ Cur.status = s
Exhausted == MaxFix > 0 /\ flow.fixes >= MaxFix

\* A whole-task IMPLEMENT that is not complete runs again.
ContinueImplement ==
  /\ Leaving("IMPLEMENT", "partial")
  /\ LET g == [flow EXCEPT !.steps["IMPLEMENT"].continuations = @ + 1]
     IN Save(SetStatus(g, IF Cur.continuations < ContinuationLimit
                          THEN "pending" ELSE "failed"), g.steps, {})
  /\ UNCHANGED <<code, clean, reviewed, setup>>

\* The fix budget is spent.
FixesExhausted ==
  /\ Leaving(flow.current, "revision") /\ flow.current \in Gates \cup {"SELF_CHECK"}
  /\ Exhausted
  /\ flow' = [flow EXCEPT !.status = "failed"]
  /\ UNCHANGED <<code, open, clean, reviewed, spent, setup>>

LoopToFix(available) ==
  /\ Leaving(flow.current, "revision") /\ flow.current \in Gates \cup {"SELF_CHECK"}
  /\ ~Exhausted
  /\ Save(ToFix(IF flow.current = "SELF_CHECK" THEN MarkFindings(flow) ELSE flow,
                available), flow.steps, Cur.issues)
  /\ UNCHANGED <<code, clean, reviewed, setup>>

LoopToAdjudicate ==
  /\ Leaving("SELF_CHECK", "revision") /\ ~Exhausted
  /\ Save(ToAdjudicate(MarkFindings(flow)), flow.steps, {})
  /\ UNCHANGED <<code, clean, reviewed, setup>>

\* A ruling that finds no contradiction: as if ADJUDICATE had never run.
PassThroughRuling(available) ==
  /\ Leaving("ADJUDICATE", "completed") /\ Cur.verdict = "noop" /\ ~Cur.rebuilt
  /\ Save(ToFix([flow EXCEPT !.selected = StripAdjudicateRun(flow).selected], available),
          flow.steps, flow.steps["SELF_CHECK"].issues)
  /\ UNCHANGED <<code, clean, reviewed, setup>>

NeedsConfirm ==
  \/ Cur.verdict = "description" /\ ConfirmRulings # "none"
  \/ Cur.verdict = "plan" /\ ConfirmRulings = "llm"

ConfirmRuling ==
  /\ Leaving("ADJUDICATE", "completed") /\ NeedsConfirm
  /\ Save([Enter([flow EXCEPT !.selected = InsertAt(@, flow.index + 1, "CONFIRM")],
                 "CONFIRM", flow.index + 1, NewStep) EXCEPT !.reviews = flow.newest],
          flow.steps, {})
  /\ UNCHANGED <<code, clean, reviewed, setup>>

\* A ruling step that a restart rebuilt does not know the SELF_CHECK it came
\* from: whatever it finds, the review starts over.
RulingStands ==
  \/ Leaving("ADJUDICATE", "completed") /\ (Cur.verdict # "noop" \/ Cur.rebuilt)
     /\ ~NeedsConfirm
  \/ Leaving("CONFIRM", "completed") /\ Cur.verdict = "approved"
     /\ flow.reviews = "ADJUDICATE"

\* The ruling replaces the findings; SELF_CHECK runs again from pass 1.
LandRuling(undecidable) ==
  /\ RulingStands
  /\ LET strip == StripAdjudicateRun(flow)
         g == ForceFull([flow EXCEPT !.selected = strip.selected, !.fixes = @ + 1])
     IN Save(EnterSelfCheck(g, strip.selfCheck, undecidable), flow.steps,
             flow.steps["ADJUDICATE"].issues)
  /\ UNCHANGED <<code, clean, reviewed, setup>>

\* _transition_to_revision: back to the step under review.
ToRevision(available) ==
  /\ Leaving("CONFIRM", "revision")
  /\ LET t == flow.reviews
         i == IndexOf(flow, t)
         ruled == IF t = "ADJUDICATE" THEN [flow EXCEPT !.layer = flow.beforeRuling] ELSE flow
         g == CASE t = "IMPLEMENT" -> CaptureFixBaseline(ruled, available)
                [] t = "SELF_CHECK" -> ForceFull(ruled)
                [] OTHER -> ruled
     IN Save([g EXCEPT !.steps[t].status = "pending", !.current = t,
                       !.index = IF i = 0 THEN @ ELSE i], flow.steps, {})
  /\ UNCHANGED <<code, clean, reviewed, setup>>

ReflowDueAtGates ==   \* mutant
  /\ flow.current \in Gates
  /\ flow.forced /\ flow.index >= IndexOf(flow, "SELF_CHECK")

\* A description revised behind the SELF_CHECK slot leads back to it.
ReflowDue ==
  /\ flow.current \notin {"SELF_CHECK", "ADJUDICATE"} /\ ~RulingStands
  /\ flow.forced /\ flow.index >= IndexOf(flow, "SELF_CHECK")

Reflow(undecidable) ==
  /\ Leaving(flow.current, "completed") /\ ReflowDue
  /\ Save(EnterSelfCheck(flow, IndexOf(flow, "SELF_CHECK"), undecidable), flow.steps, {})
  /\ UNCHANGED <<code, clean, reviewed, setup>>

(***************************************************************************)
(* The ways out of a completed SELF_CHECK pass.  A round that is active    *)
(* answers the description in force (RoundAnswersDescription), so the      *)
(* branch that discards one that does not is never taken here.             *)
(***************************************************************************)
Mirrored == IF Cur.wrote THEN [flow EXCEPT !.stash = Cur.deferred] ELSE flow
Unflushed == Mirrored.stash # {} /\ ~Cur.wrote

\* self_check_deferred_flush_attempted names the round it was tried in.
FlushTried(f) ==
  IF f.active = NoRound THEN f ELSE [f EXCEPT !.active.flushTried = TRUE]

FlushWasTried == Cur.flushTried \/ (flow.active # NoRound /\ flow.active.flushTried)

AdvancePassStays(f) == f   \* mutant

AdvancePass(f) ==
  IF f.active = NoRound THEN f ELSE [f EXCEPT !.active.pass = @ + 1]

RepeatPass(undecidable) ==
  /\ Leaving("SELF_CHECK", "completed") /\ Cur.pass < Passes
  /\ Save(EnterSelfCheck(AdvancePass(Mirrored), flow.index, undecidable), flow.steps, {})
  /\ UNCHANGED <<code, clean, reviewed, setup>>

\* The last pass was skipped over a stash: run it again.
RescuePass(undecidable) ==
  /\ Leaving("SELF_CHECK", "completed") /\ Cur.pass >= Passes
  /\ Unflushed /\ ~FlushWasTried
  /\ Save(Reinject(EnterSelfCheck(FlushTried(Mirrored), flow.index, undecidable),
                   Mirrored.stash), flow.steps, {})
  /\ UNCHANGED <<code, clean, reviewed, setup>>

\* That pass was skipped as well: the stash goes to the fix loop.
Rescued ==
  MarkFindings([Mirrored EXCEPT !.steps["SELF_CHECK"].issues = Mirrored.stash,
                                !.steps["SELF_CHECK"].wrote = TRUE,
                                !.stash = {}])

RescueDue ==
  /\ Leaving("SELF_CHECK", "completed") /\ Cur.pass >= Passes
  /\ Unflushed /\ FlushWasTried

RescueToFix(available) ==
  /\ RescueDue
  /\ Save(ToFix(Rescued, available), Rescued.steps, Mirrored.stash)
  /\ UNCHANGED <<code, clean, reviewed, setup>>

RescueToAdjudicate ==
  /\ RescueDue
  /\ Save(ToAdjudicate(Rescued), Rescued.steps, {})
  /\ UNCHANGED <<code, clean, reviewed, setup>>

RoundOver ==
  Leaving("SELF_CHECK", "completed") /\ Cur.pass >= Passes /\ ~Unflushed

\* A clean incremental round owes a full one.
CloseWithFullRound(undecidable) ==
  /\ RoundOver /\ CompleteClean(Mirrored).closure
  /\ Save(EnterSelfCheck(CompleteClean(Mirrored), flow.index, undecidable), flow.steps, {})
  /\ UNCHANGED <<code, clean, reviewed, setup>>

\* Normal progression.
Onward ==
  \/ RoundOver /\ ~CompleteClean(Mirrored).closure
  \/ /\ Leaving(flow.current, "completed")
     /\ flow.current \notin {"SELF_CHECK", "ADJUDICATE"} /\ ~RulingStands /\ ~ReflowDue

Departed == [(IF flow.current = "SELF_CHECK" THEN CompleteClean(Mirrored) ELSE flow)
           EXCEPT !.steps[flow.current].skipped = FALSE]

Advance(undecidable) ==
  /\ Onward /\ flow.index < Len(flow.selected)
  /\ LET t == flow.selected[flow.index + 1] IN
     Save(IF t = "SELF_CHECK" THEN EnterSelfCheck(Departed, flow.index + 1, undecidable)
          ELSE [Enter(Departed, t, flow.index + 1, NewStep) EXCEPT
                  !.reviews = IF t = "CONFIRM" THEN flow.newest ELSE @], flow.steps, {})
  /\ UNCHANGED <<code, clean, reviewed, setup>>

Complete ==
  /\ Onward /\ flow.index >= Len(flow.selected)
  /\ Save([Departed EXCEPT !.status = "completed", !.index = Len(flow.selected) + 1],
          flow.steps, {})
  /\ UNCHANGED <<code, clean, reviewed, setup>>

-----------------------------------------------------------------------------
Handlers ==
  \/ FinishPlain \/ Fail \/ Resume
  \/ \E s \in Status : FinishImplement(s) \/ FinishGate(s)
  \/ \E found \in SUBSET Findings, severe \in BOOLEAN : FinishSelfCheck(found, severe)
  \/ \E v \in {"noop", "description", "plan"} : FinishAdjudicate(v)
  \/ \E v \in {"approved", "rejected"} : FinishConfirm(v)

Operator == Retry \/ Skip \/ GiveUp \/ Revise

\* Steps begin; a transition leads to a new step, or back to one there was, or
\* nowhere.  choice: the fix baseline was captured, the diff cannot be rebuilt.
Begin == Start \/ \E choice \in BOOLEAN : StartSelfCheck(choice)

ToNewStep ==
  \/ LoopToAdjudicate \/ ConfirmRuling \/ RescueToAdjudicate
  \/ \E choice \in BOOLEAN :
       \/ LandRuling(choice) \/ Reflow(choice) \/ RepeatPass(choice)
       \/ RescuePass(choice) \/ CloseWithFullRound(choice) \/ Advance(choice)

ToKnownStep ==
  \/ ContinueImplement \/ FixesExhausted \/ Complete
  \/ \E choice \in BOOLEAN :
       \/ LoopToFix(choice) \/ PassThroughRuling(choice)
       \/ ToRevision(choice) \/ RescueToFix(choice)

Stopped == flow.status # "running" /\ UNCHANGED vars

Next == Handlers \/ Operator \/ Begin \/ ToNewStep \/ ToKnownStep \/ Stopped

Spec == Init /\ [][Next]_vars

\* The run loop is one thread that always takes the next step, handlers
\* return (their calls have time limits) and the operator answers a gate.
FairSpec == Spec /\ WF_vars(Next)

-----------------------------------------------------------------------------
(***************************************************************************)
(* Properties.                                                             *)
(***************************************************************************)
\* Nobody may skip the review, and no save of this run was cut in the middle.
Orderly == "SELF_CHECK" \notin Skippable /\ spent.tears = 0

\* A flow that completes has had Passes clean SELF_CHECK passes in a row,
\* each over the whole implementation, after its last change to the code or
\* to the effective description (complete_clean and the closure round;
\* _maybe_reflow_self_check_for_requirements).
CompletedReviewed == Orderly /\ flow.status = "completed" => clean >= Passes

\* SELF_CHECK is left forward only after such a run of passes: the gates
\* behind it never judge what it has not (state_machine.py:1913).
GateNeedsCleanRound ==
  [][Orderly /\ flow.current = "SELF_CHECK" /\ flow'.index > flow.index
       => clean >= Passes]_vars

\* A validated finding is with the SELF_CHECK step or its stash, or with the
\* ADJUDICATE step it led to, until IMPLEMENT has it or a ruling replaces it
\* (_unflushed_deferred_issues, _route_deferred_into_fix_loop).
FindingsKept ==
  open \subseteq
    CASE flow.current = "SELF_CHECK" ->
           flow.stash \cup Cur.stash \cup Cur.deferred \cup Cur.issues
      [] flow.current \in Dynamic -> flow.steps["ADJUDICATE"].issues
      [] OTHER -> {}

\* An incremental round reaches back to the first IMPLEMENT execution no
\* finished pass has seen (earliest_unreviewed_fix_baseline and the marker
\* _prepare_self_check_scope moves).
ScopeReachesUnreviewed ==
  Running("SELF_CHECK") /\ flow.active.mode = "incremental" =>
    flow.fixBaselines[flow.active.base].at <= reviewed

\* A round is active only at SELF_CHECK, and answers the effective
\* description in force: everything that rewrites the description drops it.
RoundAnswersDescription ==
  flow.active # NoRound => flow.current = "SELF_CHECK" /\ flow.active.layer = flow.layer

\* The slots spliced in for a ruling and its confirmation are gone once the
\* flow has left them, and the routing index names the current step's slot
\* (_strip_inserted_adjudicate_run).
SequenceRestored ==
  /\ flow.current \notin Dynamic => flow.selected = Base
  /\ flow.status = "running" =>
       flow.index <= Len(flow.selected) /\ flow.selected[flow.index] = flow.current

\* What a review is decided from is kept through every detour: the sequence, how
\* far the diff reaches back and the findings; what the round answers and the
\* fix budget (state_machine.py:1642) only while no pass was skipped (the rescue
\* of its stash spends a fix without asking) and no save was cut.
ReviewBookkeeping ==
  /\ SequenceRestored /\ ScopeReachesUnreviewed /\ FindingsKept
  /\ spent.tears = 0 => RoundAnswersDescription
  /\ Orderly /\ MaxFix > 0 => flow.fixes <= MaxFix

\* A CONFIRM reviews the step its slot follows (insert_confirmation_steps).
ConfirmReviewsItsStep ==
  flow.status = "running" /\ flow.current = "CONFIRM" =>
    flow.reviews = (CHOOSE t \in Types :
      \E i \in 1..(flow.index - 1) :
        /\ flow.selected[i] = t /\ t # "CONFIRM"
        /\ \A j \in (i + 1)..(flow.index - 1) : flow.selected[j] = "CONFIRM")

\* Only a ruling that rewrote the description or the plan sends the flow back
\* to SELF_CHECK: "an approved-CONFIRM reflex can only ever land a
\* real-contradiction ruling" (state_machine.py:1746-1747).
LandedRulingRewrites ==
  [][(\E choice \in BOOLEAN : LandRuling(choice)) =>
       flow.steps["ADJUDICATE"].verdict # "noop"]_vars

\* With a fix budget, every flow comes to an end.
Terminates == <>(flow.status # "running")
=============================================================================
