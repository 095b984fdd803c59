----------------------------- MODULE FlowSetups -----------------------------
(* Configurations of a flow for the instances of FlowEngine and FlowRewind. *)
EXTENDS Naturals

CONSTANTS f1, f2

\* The chain around the review, one without the gate before it, one without
\* gates, and one in which every step that can be confirmed is.
Reviewed == <<"IMPLEMENT", "TEST", "SELF_CHECK", "INVARIANT_CHECK", "COMMIT">>
Gated == <<"IMPLEMENT", "SELF_CHECK", "INVARIANT_CHECK", "COMMIT">>
Short == <<"IMPLEMENT", "SELF_CHECK", "COMMIT">>

Confirmed ==
  <<"PLAN", "CONFIRM", "IMPLEMENT", "CONFIRM", "SELF_CHECK", "CONFIRM", "COMMIT">>

\* How often each bounded event may happen.
UpTo(failures, resumes, revisions, rejections, tears) ==
  [failures |-> failures, resumes |-> resumes, revisions |-> revisions,
   rejections |-> rejections, tears |-> tears, restarts |-> 0]

Plain ==
  [base |-> Short, passes |-> 2, deferThreshold |-> 0, maxFix |-> 2,
   confirmRulings |-> "none", findings |-> {f1}, skippable |-> {},
   reviseDone |-> FALSE, limit |-> UpTo(0, 0, 0, 0, 0)]

\* Rounds over two fixes and a revised description, with a crash, and with a
\* failure; the step behind them may be skipped then.
Rounds == [Plain EXCEPT !.base = Gated, !.limit = UpTo(0, 1, 1, 0, 0)]
FailedRounds == [Rounds EXCEPT !.skippable = {"COMMIT"}, !.limit = UpTo(1, 0, 1, 0, 0)]

\* Rulings behind an LLM confirmation that may reject, with deferral and a
\* revised description.
Rulings == [Plain EXCEPT !.deferThreshold = 2, !.confirmRulings = "llm",
                         !.limit = UpTo(0, 0, 1, 1, 0)]

\* Deferred findings, with passes that fail and are skipped.
Stash == [Plain EXCEPT !.passes = 3, !.deferThreshold = 2, !.maxFix = 1,
                       !.findings = {f1, f2}, !.skippable = {"SELF_CHECK"},
                       !.limit = UpTo(2, 0, 0, 0, 0)]

\* A transition cut between the context and the header, and a crash; two such
\* cuts over one fix.
Cuts == [Plain EXCEPT !.base = Reviewed, !.confirmRulings = "human",
                      !.limit = UpTo(0, 1, 0, 0, 1)]
TwoCuts == [Cuts EXCEPT !.maxFix = 1, !.limit = UpTo(0, 0, 0, 0, 2)]

\* Confirmations that may reject the plan, the code or the review, of a flow
\* that needs no fix, and of one whose review finds something.
Confirmations == [Plain EXCEPT !.base = Confirmed, !.maxFix = 1, !.findings = {},
                               !.limit = UpTo(1, 1, 0, 2, 0)]
ConfirmedFixes == [Confirmations EXCEPT !.findings = {f1}, !.limit = UpTo(0, 0, 0, 1, 0)]


\* One restart, of a flow whose description is revised, and of one whose
\* rulings are confirmed.
Restarts == [Plain EXCEPT !.base = Gated, !.maxFix = 1,
                          !.limit = [UpTo(0, 0, 1, 0, 0) EXCEPT !.restarts = 1]]
RestartedRulings == [Restarts EXCEPT !.base = Short, !.confirmRulings = "human",
                                     !.limit = [UpTo(0, 0, 0, 0, 0) EXCEPT !.restarts = 1]]

\* A flow that is to end: a skipped pass, a ruling that is rejected, a cut.
Ends == [Plain EXCEPT !.deferThreshold = 2, !.maxFix = 1, !.confirmRulings = "human",
                      !.skippable = {"SELF_CHECK"}, !.limit = UpTo(1, 0, 0, 1, 1)]

\* A flow that is to end without a fix: a failure, a crash, a revision.
EndsUnfixed == [Plain EXCEPT !.base = Gated, !.maxFix = 1, !.findings = {},
                             !.limit = UpTo(1, 1, 1, 0, 0)]

SafeSetups == {Rounds, FailedRounds, Rulings, Confirmations, Stash, Cuts,
               TwoCuts, Restarts, RestartedRulings}
LiveSetups == {Ends, EndsUnfixed}
ConfirmedSetups == {ConfirmedFixes}
=============================================================================
