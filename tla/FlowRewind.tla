----------------------------- MODULE FlowRewind -----------------------------
(***************************************************************************)
(* Restarts: from an interjection dialog the operator sends the flow of    *)
(* FlowEngine back to a step it has been in (apply_decision in             *)
(* engine/interjection_dialog.py, engine/rewind.py,                        *)
(* StateMachine.rebuild_rewound_step), keeping the workspace.              *)
(*                                                                         *)
(* A step's first entry leaves a snapshot of everything derived.  A        *)
(* restart puts it back, except the chain of description revisions and the *)
(* steps before the target, drops the target and what came after it, and   *)
(* builds the target anew.  Building it is the run loop's next act, which  *)
(* a resumed flow repeats if it failed: one step here.                     *)
(***************************************************************************)
EXTENDS FlowEngine

VARIABLES
  history,   \* entry snapshots in the order of the steps, while one may be used
  entered,   \* types whose newest step has been entered
  revised,   \* layer of the operator's newest revision, 1 for the task as given
  behind     \* a restart re-entered what a review had been about (WentBehind)

rewindVars == <<history, entered, revised, behind>>
rvars == <<vars, rewindVars>>

\* ENTRY_SNAPSHOT_CONTEXT_KEY, with the facts about the world then.
Entry(f) == [flow |-> f, code |-> code, clean |-> clean, open |-> open]

\* Where the newest step of type t stands, 0 if it left no snapshot.
PositionOf(t) == SelectLastInSeq(history, LAMBDA e : e.flow.current = t)

\* A snapshot is of a step about to begin and older than the flow; while restarts
\* are left, whatever was entered has one.
RewindTypeOK ==
  /\ TypeOK
  /\ entered \subseteq Types /\ behind \in BOOLEAN
  /\ revised \in 1..flow.layers
  /\ \A i \in 1..Len(history) :
       /\ history[i].code <= code /\ history[i].open \subseteq Findings
       /\ history[i].flow.layers <= flow.layers
       /\ history[i].flow.steps[history[i].flow.current].status = "pending"
  /\ Left("restarts") => \A t \in entered : PositionOf(t) > 0

RewindInit ==
  /\ Init
  /\ history = << >> /\ entered = {} /\ revised = 1 /\ behind = FALSE

\* snapshot_step_entry, the first time a step is entered.
SnapshotEntry ==
  IF Left("restarts") /\ flow.current \notin entered
  THEN /\ history' = Append(history, Entry(flow))
       /\ entered' = entered \cup {flow.current}
  ELSE UNCHANGED <<history, entered>>

(***************************************************************************)
(* apply_decision with restart.                                            *)
(***************************************************************************)
\* The steps that stay are as they are now, the others as snapshot i has them.
StepsBefore(i) ==
  [t \in Types |-> IF PositionOf(t) \in 1..(i - 1) /\ flow.steps[t] # NoStep
                   THEN flow.steps[t] ELSE history[i].flow.steps[t]]

RestoredInPlace(i, layers, newest) ==   \* mutant
  [history[i].flow EXCEPT !.selected = flow.selected, !.steps = StepsBefore(i),
                          !.layers = layers, !.layer = Max({@, newest})]

\* _restore_entry_snapshot.  A ruling's rewrite of the description goes with
\* the ADJUDICATE step that made it; a revision stays, layers are not reissued.
\* self_check_review is derived: a full pass owed to a revision is forgotten.
Restored(i, layers, newest) ==
  LET keeps == PositionOf("ADJUDICATE") \in 1..(i - 1)
      was == IF keeps THEN flow ELSE history[i].flow
  IN [history[i].flow EXCEPT !.steps = StepsBefore(i), !.layers = layers,
                             !.layer = Max({was.layer, newest}),
                             !.beforeRuling = Max({was.beforeRuling, newest})]

\* rebuild_rewound_step: through the ordinary construction of the inputs.
Rebuilt(f, undecidable) ==
  IF f.current = "SELF_CHECK" THEN EnterSelfCheck(f, f.index, undecidable)
  ELSE Enter(f, f.current, f.index, [NewStep EXCEPT !.rebuilt = TRUE])

\* The target lies behind the review, in a ruling on it or inside one of its
\* rounds, and the code or the description has changed since.
WentBehind(i, f) ==
  LET e == history[i]
      changed == code # e.code
  IN IF f.current = "SELF_CHECK" THEN e.flow.active.pass > 1 /\ changed
     ELSE /\ \/ e.flow.index > IndexOf(e.flow, "SELF_CHECK")
             \/ "ADJUDICATE" \in Range(e.flow.selected)
          /\ changed \/ f.layer # e.flow.layer

\* Findings of steps that are dropped go with them.  A rebuilt ruling is not
\* handed those it was to rule on.
Held(f) ==
  CASE f.current = "SELF_CHECK" -> f.stash \cup f.steps["SELF_CHECK"].stash
    [] f.current = "CONFIRM" /\ f.reviews = "ADJUDICATE" -> f.steps["ADJUDICATE"].issues
    [] OTHER -> {}

\* resolve_rewind_target: the current step or an earlier one.
Targets == 1..PositionOf(flow.current)

\* revises: the decision carries a new description as well.  clean, open and
\* behind say what of the review's facts still holds.
Restart(i, revises, undecidable) ==
  /\ flow.status = "running" /\ ~Cur.skipped /\ Left("restarts")
  /\ Cur.status \in {"running", "failed"} \cup
                    (IF ReviseDone THEN {"completed", "revision"} ELSE {})
  /\ i \in Targets
  /\ revises => Left("revisions")
  /\ undecidable => history[i].flow.current = "SELF_CHECK"
  /\ LET layers == IF revises THEN flow.layers + 1 ELSE flow.layers
         newest == IF revises THEN layers ELSE revised
         f == Rebuilt(Restored(i, layers, newest), undecidable)
         same == code = history[i].code /\ f.layer = history[i].flow.layer
         again == spent.restarts + 1 < setup.limit.restarts
     IN /\ flow' = f
        /\ revised' = newest
        /\ clean' = IF same THEN history[i].clean ELSE 0
        /\ open' = open \cap history[i].open \cap Held(f)
        /\ behind' = (behind \/ WentBehind(i, f))
        /\ history' = IF again THEN SubSeq(history, 1, i - 1) ELSE << >>
        /\ entered' = IF again THEN {history[j].flow.current : j \in 1..(i - 1)} \ {f.current}
                      ELSE {}
  /\ spent' = [spent EXCEPT !.restarts = @ + 1,
                            !.revisions = IF revises THEN @ + 1 ELSE @]
  /\ UNCHANGED <<code, reviewed, setup>>

-----------------------------------------------------------------------------
\* A step that was added has not been entered, whatever its type; a cut save
\* leaves the flow at the step it was at.
Adds ==
  /\ ToNewStep
  /\ entered' = IF spent' = spent THEN entered \ {flow'.current} ELSE entered
  /\ UNCHANGED <<history, revised, behind>>

Enters == Begin /\ SnapshotEntry /\ UNCHANGED <<revised, behind>>

Revises == Revise /\ revised' = flow'.layer /\ UNCHANGED <<history, entered, behind>>

LeavesHistory ==
  /\ Handlers \/ Retry \/ Skip \/ GiveUp \/ ToKnownStep \/ Stopped
  /\ UNCHANGED rewindVars

RewindNext ==
  \/ Enters \/ Adds \/ Revises \/ LeavesHistory
  \/ \E i \in 1..Len(history), revises \in BOOLEAN, undecidable \in BOOLEAN :
       Restart(i, revises, undecidable)

RewindSpec == RewindInit /\ [][RewindNext]_rvars

-----------------------------------------------------------------------------
(***************************************************************************)
(* Properties.  behind is the exception: such a restart takes the code as  *)
(* it is past the review, as the operator asked, and forgets what the      *)
(* review still owed.                                                      *)
(***************************************************************************)
\* A flow that completes has been reviewed as CompletedReviewed says, wherever
\* it was restarted from: what a restart puts back is one state, never a mixture
\* of rounds, counters and baselines of two (ensure_rewindable, rewind.py:568).
ReviewedUnlessBehind == behind \/ CompletedReviewed

\* Whatever leads from SELF_CHECK to a step behind its slot, a restart too, finds
\* the clean passes made over this code and this description.
GateUnlessBehind ==
  [][(/\ Orderly /\ ~behind' /\ flow.current = "SELF_CHECK"
      /\ flow'.index > IndexOf(flow', "SELF_CHECK"))
     => clean' >= Passes]_rvars

\* Spliced slots are unwound with the steps they belonged to (rewind.py:919) and
\* findings stay with the step that waits for them after any restart; scopes
\* reach the first unreviewed fix unless a restart went past that fix's review.
BookkeepingUnlessBehind ==
  /\ SequenceRestored /\ FindingsKept
  /\ behind \/ ReviewBookkeeping
=============================================================================
