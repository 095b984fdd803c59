-------------------------- MODULE FlowRewind_proofs --------------------------
EXTENDS FlowRewindInvariants, WellFoundedInduction, TLAPS

-----------------------------------------------------------------------------
(* Positions.                                                              *)

\* A nonempty set of positions has a first and a last one.
LEMMA FirstPosition ==
  ASSUME NEW k \in Nat, NEW S \in SUBSET (1..k), S # {}
  PROVE  /\ Min(S) \in S
         /\ \A j \in S : Min(S) <= j
<1> DEFINE R == OpToRel(<, Nat)
<1>1. IsWellFoundedOn(R, Nat)  BY NatLessThanWellFounded
<1>2. \A i, j \in Nat : i < j => <<i, j>> \in R  BY DEF OpToRel
<1>3. S \subseteq Nat  OBVIOUS
<1> HIDE DEF R
<1>4. \E i \in S : \A j \in S : ~ (<<j, i>> \in R)  BY <1>1, <1>3, WFMin
<1>5. PICK i \in S : \A j \in S : ~ (<<j, i>> \in R)  BY <1>4
<1>6. ASSUME NEW j \in S PROVE i <= j
  <2>1. ~ (j < i) /\ i \in Nat /\ j \in Nat  BY <1>2, <1>3, <1>5
  <2>2. QED  BY ONLY <2>1
<1>7. \E h \in S : \A j \in S : h <= j  BY <1>6
<1>8. QED  BY <1>7, Zenon DEF Min

LEMMA LastPosition ==
  ASSUME NEW k \in Nat, NEW S \in SUBSET (1..k), S # {}
  PROVE  /\ Max(S) \in S
         /\ \A j \in S : j <= Max(S)
<1> DEFINE T == {k + 1 - i : i \in S}
<1>1. T \in SUBSET (1..k) /\ T # {}
  <2>1. PICK i : i \in S  BY ONLY S # {}
  <2>2. k + 1 - i \in T  BY ONLY <2>1
  <2>3. \A j \in S : k + 1 - j \in 1..k  BY ONLY k \in Nat, S \in SUBSET (1..k)
  <2>4. QED  BY ONLY <2>2, <2>3
<1>2. Min(T) \in T /\ \A j \in T : Min(T) <= j
  <2> HIDE DEF T
  <2> QED  BY <1>1, FirstPosition
<1>3. PICK i \in S : Min(T) = k + 1 - i  BY <1>2
<1>4. ASSUME NEW j \in S PROVE i >= j
  <2>1. k + 1 - j \in T  OBVIOUS
  <2>2. k + 1 - i <= k + 1 - j  BY <1>2, <1>3, <2>1
  <2>3. QED  BY <2>2
<1>5. \E h \in S : \A j \in S : h >= j  BY <1>4
<1>6. Max(S) \in S /\ \A j \in S : Max(S) >= j  BY <1>5, Zenon DEF Max
<1>7. QED  BY <1>6

\* The place of a type in a sequence is the first one; 0 if it has none.
LEMMA Places ==
  ASSUME NEW f, NEW t, Len(f.selected) \in Nat
  PROVE  /\ IndexOf(f, t) \in 0..Len(f.selected)
         /\ IndexOf(f, t) > 0 => f.selected[IndexOf(f, t)] = t
         /\ \A i \in 1..Len(f.selected) :
              f.selected[i] = t => IndexOf(f, t) > 0 /\ IndexOf(f, t) <= i
<1> DEFINE I == {i \in 1..Len(f.selected) : f.selected[i] = t}
<1>1. IndexOf(f, t) = IF I # {} THEN Min(I) ELSE 0  BY DEF IndexOf, SelectInSeq
<1>2. I # {} => Min(I) \in I /\ \A j \in I : Min(I) <= j
  <2>1. I \in SUBSET (1..Len(f.selected)) /\ Len(f.selected) \in Nat  OBVIOUS
  <2> HIDE DEF I
  <2> QED  BY <2>1, FirstPosition
<1> DEFINE m == Min(I)  x == IndexOf(f, t)  n == Len(f.selected)
<1>3. x = IF I # {} THEN m ELSE 0  BY <1>1
<1>4. I # {} => m \in I /\ \A j \in I : m <= j  BY <1>2
<1>5. \A i : i \in I <=> i \in 1..n /\ f.selected[i] = t  OBVIOUS
<1> HIDE DEF I, m, x
<1>6. x \in 0..n /\ (x > 0 => f.selected[x] = t)  BY ONLY <1>3, <1>4, <1>5, n \in Nat
<1>7. \A i \in 1..n : f.selected[i] = t => x > 0 /\ x <= i
  BY ONLY <1>3, <1>4, <1>5, n \in Nat
<1>8. QED  BY <1>6, <1>7 DEF x

-----------------------------------------------------------------------------
(* The shape of a flow.                                                    *)

LEMMA NoRoundIsNone ==
  /\ NoRound \notin Round
  /\ \A a \in Rounds : a # NoRound => a \in Round
BY DEF NoRound, Round, Rounds

LEMMA NewStepTyped == NewStep \in Step /\ NoStep \in Step
BY DEF NewStep, NoStep, Step, Status

\* A sequence counts, whatever it is of.
LEMMA FlowLengths ==
  ASSUME NEW f \in FlowSet
  PROVE  /\ Len(f.selected) \in Nat /\ Len(f.fixBaselines) \in Nat
         /\ \A i \in 1..Len(f.selected) : f.selected[i] \in Types
         /\ \A i \in 1..Len(f.fixBaselines) :
              f.fixBaselines[i].at \in Nat /\ f.fixBaselines[i].available \in BOOLEAN
<1>1. f.selected \in Seq(Types) /\ f.fixBaselines \in Seq(Baseline)  BY DEF FlowSet
<1>2. Len(f.selected) \in Nat /\ \A i \in 1..Len(f.selected) : f.selected[i] \in Types
  BY ONLY <1>1
<1>3. Len(f.fixBaselines) \in Nat /\ \A i \in 1..Len(f.fixBaselines) : f.fixBaselines[i] \in Baseline
  BY ONLY <1>1
<1>4. \A b \in Baseline : b.at \in Nat /\ b.available \in BOOLEAN  BY ONLY DEF Baseline
<1>5. QED  BY <1>2, <1>3, <1>4

\* What only touches a round keeps the flow on its ground.
LEMMA GroundKept ==
  ASSUME NEW f, NEW g, NEW c, Grounded(f, c),
         g.active = NoRound, g.fixBaselines = f.fixBaselines, g.covered = f.covered,
         SameLayers(g, f)
  PROVE  Grounded(g, c)
BY DEF Grounded, SameLayers

LEMMA ForceFullValues ==
  ASSUME NEW f \in FlowSet
  PROVE  LET g == ForceFull(f) IN
         /\ g \in FlowSet /\ SamePlace(g, f) /\ SameLayers(g, f) /\ g.steps = f.steps
         /\ g.active = NoRound /\ g.forced = TRUE
         /\ g.fixBaselines = f.fixBaselines /\ g.stash = f.stash
         /\ g.covered = f.covered /\ g.fingerprint = f.fingerprint
<1> DEFINE B == Seq(Baseline)  S == Seq(Types)
<1>1. Credited(f) \in BOOLEAN  BY DEF Credited, FlowSet
<1> HIDE DEF B, S
<1>2. QED  BY <1>1 DEF ForceFull, FlowSet, SamePlace, SameLayers, Rounds

LEMMA MarkFindingsValues ==
  ASSUME NEW f \in FlowSet
  PROVE  LET g == MarkFindings(f) IN
         /\ g \in FlowSet /\ SamePlace(g, f) /\ SameLayers(g, f) /\ g.steps = f.steps
         /\ g.active = NoRound /\ g.forced = f.forced
         /\ g.fixBaselines = f.fixBaselines /\ g.stash = f.stash
         /\ g.covered = f.covered /\ g.fingerprint = f.fingerprint
<1> DEFINE B == Seq(Baseline)  S == Seq(Types)
<1>1. Credited(f) \in BOOLEAN  BY DEF Credited, FlowSet
<1> HIDE DEF B, S
<1>2. QED  BY <1>1 DEF MarkFindings, FlowSet, SamePlace, SameLayers, Rounds

LEMMA CompleteCleanValues ==
  ASSUME NEW f \in FlowSet
  PROVE  LET g == CompleteClean(f) IN
         /\ g \in FlowSet /\ SamePlace(g, f) /\ SameLayers(g, f) /\ g.steps = f.steps
         /\ g.active = NoRound /\ g.forced = f.forced
         /\ g.fixBaselines = f.fixBaselines /\ g.stash = f.stash
         /\ g.covered = f.covered /\ g.fingerprint = f.fingerprint
         /\ g.closure = IF f.active = NoRound THEN f.closure
                        ELSE f.active.credit = "incremental"
<1> DEFINE B == Seq(Baseline)  S == Seq(Types)
<1>1. Credited(f) \in BOOLEAN  BY DEF Credited, FlowSet
<1> HIDE DEF B, S
<1>2. CASE f.active = NoRound  BY <1>2 DEF CompleteClean, SamePlace, SameLayers
<1>3. CASE f.active # NoRound
  BY <1>1, <1>3 DEF CompleteClean, FlowSet, SamePlace, SameLayers, Rounds
<1>4. QED  BY <1>2, <1>3

LEMMA EnterValues ==
  ASSUME NEW f \in FlowSet, NEW t \in Types, NEW i \in Nat, NEW s \in Step
  PROVE  LET g == Enter(f, t, i, s) IN
         /\ g \in FlowSet /\ SameReview(g, f)
         /\ g.selected = f.selected /\ g.index = i /\ g.current = t
         /\ g.newest = IF t = "CONFIRM" THEN f.newest ELSE t
         /\ g.reviews = f.reviews /\ g.status = f.status /\ g.fixes = f.fixes
         /\ g.steps[t] = s
         /\ \A u \in Types \ {t} : g.steps[u] = IF u \in Kept(f, t) THEN f.steps[u] ELSE NoStep
<1> DEFINE B == Seq(Baseline)  S == Seq(Types)
           H == [u \in Types |-> IF u = t THEN s
                                ELSE IF u \in Kept(f, t) THEN f.steps[u] ELSE NoStep]
<1>1. H \in [Types -> Step]  BY NewStepTyped DEF FlowSet
<1>2. H[t] = s /\ \A u \in Types \ {t} : H[u] = IF u \in Kept(f, t) THEN f.steps[u] ELSE NoStep
  OBVIOUS
<1> HIDE DEF B, S, H
<1>3. Enter(f, t, i, s) =
        [f EXCEPT !.steps = H, !.current = t, !.index = i,
                  !.newest = IF t = "CONFIRM" THEN @ ELSE t]
  BY DEF Enter, H
<1>4. QED  BY <1>1, <1>2, <1>3 DEF FlowSet, SameReview, SameRound, SameLayers, Rounds

-----------------------------------------------------------------------------
(* Rounds.                                                                 *)

LEMMA EarliestTyped ==
  ASSUME NEW f \in FlowSet
  PROVE  EarliestUnreviewed(f) \in Nat /\ EarliestUnreviewed(f) <= Len(f.fixBaselines)
<1>1. f.covered \in Nat /\ Len(f.fixBaselines) \in Nat  BY FlowLengths DEF FlowSet
<1>2. QED  BY <1>1 DEF EarliestUnreviewed

LEMMA PrepareRoundValues ==
  ASSUME NEW f \in FlowSet, NEW c, Grounded(f, c)
  PROVE  InRound(PrepareRound(f), f)
<1> DEFINE B == Seq(Baseline)  S == Seq(Types)  g == PrepareRound(f)
           n == Len(f.fixBaselines)  e == EarliestUnreviewed(f)
           full == \/ f.forced \/ f.closure \/ (f.fingerprint # 0 /\ f.fingerprint # f.layer)
                   \/ ~f.fullOccurred \/ e = 0
           mode == IF full THEN "full" ELSE "incremental"
           a == [mode |-> mode, credit |-> mode, base |-> IF full THEN 0 ELSE e,
                 layer |-> f.layer, pass |-> 1, flushTried |-> FALSE]
<1>1. f.active \in Rounds /\ f.layer \in Nat /\ f.covered \in Nat /\ f.fingerprint \in Nat
      /\ n \in Nat /\ e \in Nat /\ e <= n  BY FlowLengths, EarliestTyped DEF FlowSet
<1>2. CASE f.active # NoRound /\ f.active.layer = f.layer
  <2>1. f.active \in Round  BY <1>1, <1>2, NoRoundIsNone
  <2>2. f.active.base <= n /\ f.covered <= n  BY <1>2 DEF Grounded
  <2>3. g = f  BY <1>2 DEF PrepareRound
  <2>4. RoundKept(f, f) /\ SamePlace(f, f) /\ SameLayers(f, f)
    BY <1>2, <2>1 DEF SamePlace, SameLayers, RoundKept
  <2>5. InRound(f, f)  BY <1>2, <2>1, <2>2, <2>4 DEF InRound
  <2>6. QED  BY <2>3, <2>5
<1>3. CASE ~(f.active # NoRound /\ f.active.layer = f.layer)
  <2>1. ~(f.active \in Round /\ f.active.layer = f.layer)  BY <1>3, NoRoundIsNone
  <2>2. a \in Round /\ a.layer = f.layer /\ a.base <= n /\ a.pass = 1 /\ ~a.flushTried
        /\ (a.credit = "full" => a.mode = "full")  BY <1>1 DEF Round
  <2>3. g = [f EXCEPT !.active = a, !.forced = FALSE, !.closure = FALSE,
                      !.fingerprint = f.layer, !.covered = n]
    BY <1>3 DEF PrepareRound, Coverage
  <2> HIDE DEF B, S, g, a, e, full, mode
  <2>4. /\ g \in FlowSet /\ g.active = a /\ g.forced = FALSE /\ g.closure = FALSE
        /\ g.covered = n  BY <1>1, <2>2, <2>3 DEF FlowSet, Rounds
  <2>5. SamePlace(g, f) /\ SameLayers(g, f) /\ g.steps = f.steps
        /\ g.fixBaselines = f.fixBaselines /\ g.stash = f.stash
    BY <2>3 DEF FlowSet, SamePlace, SameLayers
  <2>6. g.layer = f.layer  BY <2>5 DEF SameLayers
  <2>7. g.covered <= Len(g.fixBaselines) /\ g.active.base <= Len(g.fixBaselines)
    BY <1>1, <2>2, <2>4, <2>5
  <2>8. RoundNew(g, f)  BY <2>1, <2>2, <2>4 DEF RoundNew
  <2>9. QED  BY <2>2, <2>4, <2>5, <2>6, <2>7, <2>8 DEF InRound, g
<1>4. QED  BY <1>2, <1>3

LEMMA PrepareScopeValues ==
  ASSUME NEW f \in FlowSet, NEW c, Grounded(f, c), NEW u \in BOOLEAN
  PROVE  InRound(PrepareScope(f, u), f)
<1> DEFINE h == PrepareRound(f)  g == PrepareScope(f, u)
           B == Seq(Baseline)  S == Seq(Types)
           a == [h.active EXCEPT !.mode = "full", !.base = 0,
                                 !.credit = IF h.active.pass = 1 THEN "full" ELSE @]
<1>1. InRound(h, f)  BY PrepareRoundValues
<1>2. CASE ~(u /\ h.active.mode = "incremental")  BY <1>1, <1>2 DEF PrepareScope
<1>3. CASE u /\ h.active.mode = "incremental"
  <2>1. h \in FlowSet /\ h.active \in Round /\ Len(h.fixBaselines) \in Nat
    BY <1>1, FlowLengths DEF InRound
  <2> HIDE DEF h
  <2>2. /\ a \in Round /\ a.base = 0 /\ a.mode = "full" /\ a.pass = h.active.pass
        /\ a.layer = h.active.layer /\ a.flushTried = h.active.flushTried
        /\ a.credit = h.active.credit \/ a.pass = 1  BY <2>1 DEF Round
  <2>3. g = [h EXCEPT !.active.mode = "full", !.active.base = 0,
                      !.active.credit = IF h.active.pass = 1 THEN "full" ELSE @]
    BY <1>3 DEF PrepareScope, h
  <2>4. g = [h EXCEPT !.active = a]  BY <2>1, <2>3 DEF FlowSet, Round
  <2> HIDE DEF B, S, a, g
  <2>5. g \in FlowSet /\ g.active = a /\ SamePlace(g, h) /\ SameLayers(g, h)
        /\ g.steps = h.steps /\ g.fixBaselines = h.fixBaselines /\ g.stash = h.stash
        /\ g.forced = h.forced /\ g.closure = h.closure /\ g.covered = h.covered
    BY <2>1, <2>2, <2>4 DEF FlowSet, Rounds, SamePlace, SameLayers
  <2>6. SamePlace(g, f) /\ SameLayers(g, f) /\ g.steps = f.steps
        /\ g.fixBaselines = f.fixBaselines /\ g.stash = f.stash /\ g.layer = h.layer
    BY <1>1, <2>5 DEF InRound, SamePlace, SameLayers
  <2>7. g.active.base <= Len(g.fixBaselines) /\ g.covered <= Len(g.fixBaselines)
        /\ g.active.layer = g.layer  BY <1>1, <2>1, <2>2, <2>5, <2>6 DEF InRound
  <2>8. RoundKept(h, f) => RoundKept(g, f)  BY <2>2, <2>5 DEF RoundKept
  <2>9. RoundNew(h, f) => RoundNew(g, f)  BY <2>2, <2>5 DEF RoundNew
  <2>10. RoundKept(g, f) \/ RoundNew(g, f)  BY <1>1, <2>8, <2>9 DEF InRound
  <2>11. g.active \in Round /\ g.active.mode = "full"  BY <2>2, <2>5
  <2>12. QED  BY <2>5, <2>6, <2>7, <2>10, <2>11 DEF InRound, g
<1>4. QED  BY <1>2, <1>3

LEMMA EnterSelfCheckValues ==
  ASSUME NEW f \in FlowSet, NEW c, Grounded(f, c), NEW i \in Nat, NEW u \in BOOLEAN
  PROVE  EnteredSelfCheck(EnterSelfCheck(f, i, u), f, i)
<1> DEFINE h == PrepareScope(f, u)  g == EnterSelfCheck(f, i, u)
           B == Seq(Baseline)  S == Seq(Types)
           kept == IF h.active.pass = 1 THEN {} ELSE h.stash
           k == [h EXCEPT !.stash = kept]
           s == [NewStep EXCEPT !.pass = h.active.pass,
                                !.flushTried = h.active.flushTried, !.stash = kept]
<1>1. InRound(h, f)  BY PrepareScopeValues
<1> HIDE DEF h
<1>2. h \in FlowSet /\ h.active \in Round /\ h.stash \subseteq Findings
  BY <1>1 DEF InRound, FlowSet
<1>3. kept \subseteq Findings  BY <1>2
<1>4. s \in Step
  <2>1. h.active.pass \in Nat /\ h.active.flushTried \in BOOLEAN  BY <1>2 DEF Round
  <2> HIDE DEF kept
  <2>2. QED  BY <1>3, <2>1 DEF NewStep, Step, Status
<1>5. g = Enter(k, "SELF_CHECK", i, s)  BY DEF EnterSelfCheck, h
<1> HIDE DEF kept
<1>6. k \in FlowSet /\ k.stash = kept /\ k.active = h.active /\ SamePlace(k, h)
      /\ SameLayers(k, h) /\ k.steps = h.steps /\ k.fixBaselines = h.fixBaselines
      /\ k.covered = h.covered /\ k.forced = h.forced /\ k.closure = h.closure
  <2> HIDE DEF B, S
  <2> QED  BY <1>2, <1>3 DEF FlowSet, SamePlace, SameLayers
<1> HIDE DEF k, s, g
<1>7. /\ g \in FlowSet /\ SameReview(g, k)
      /\ g.selected = k.selected /\ g.index = i /\ g.current = "SELF_CHECK"
      /\ g.newest = "SELF_CHECK" /\ g.reviews = k.reviews /\ g.status = k.status
      /\ g.fixes = k.fixes /\ g.steps["SELF_CHECK"] = s
  <2>1. "SELF_CHECK" \in Types  BY DEF Types
  <2>2. QED  BY <1>4, <1>5, <1>6, <2>1, EnterValues
<1>8. /\ g.active = h.active /\ g.stash = kept /\ g.forced = h.forced /\ g.closure = h.closure
      /\ g.covered = h.covered /\ g.fixBaselines = h.fixBaselines
  BY <1>6, <1>7 DEF SameReview, SameRound
<1>9. SameLayers(g, f)  BY <1>1, <1>6, <1>7 DEF InRound, SameReview, SameLayers
<1>10. /\ g.selected = f.selected /\ g.reviews = f.reviews /\ g.status = f.status
       /\ g.fixes = f.fixes /\ g.fixBaselines = f.fixBaselines
  BY <1>1, <1>6, <1>7, <1>8 DEF InRound, SamePlace
<1>11. g.active.layer = g.layer /\ g.active \in Round
       /\ g.active.base <= Len(g.fixBaselines) /\ g.covered <= Len(g.fixBaselines)
  <2>1. g.layer = h.layer  BY <1>1, <1>9 DEF InRound, SameLayers
  <2>2. QED  BY <1>1, <1>8, <2>1 DEF InRound
<1>12. RoundKept(g, f) \/ RoundNew(g, f)
  <2>1. RoundKept(h, f) => RoundKept(g, f)  BY <1>8 DEF RoundKept
  <2>2. RoundNew(h, f) => RoundNew(g, f)  BY <1>8 DEF RoundNew
  <2>3. QED  BY <1>1, <2>1, <2>2 DEF InRound
<1>13. g.stash = IF g.active.pass = 1 THEN {} ELSE f.stash  BY <1>1, <1>8 DEF InRound, kept
<1>14. g.steps["SELF_CHECK"] = [NewStep EXCEPT !.pass = g.active.pass,
                                   !.flushTried = g.active.flushTried, !.stash = g.stash]
  BY <1>7, <1>8 DEF s
<1>15. (f.active \in Round /\ f.active.credit = "full" => f.active.mode = "full")
         => (g.active.credit = "full" => g.active.mode = "full")
  BY <1>1, <1>8 DEF InRound
<1>16. QED  BY <1>7, <1>9, <1>10, <1>11, <1>12, <1>13, <1>14, <1>15 DEF EnteredSelfCheck, g

\* Entered at a slot of its own, it is a flow on its ground.
LEMMA EnterSelfCheckOK ==
  ASSUME NEW f \in FlowSet, NEW c, Grounded(f, c), HasSlots(f),
         NEW i \in 1..Len(f.selected), NEW u \in BOOLEAN
  PROVE  FlowOK(EnterSelfCheck(f, i, u), c)
<1> DEFINE g == EnterSelfCheck(f, i, u)
<1>1. f \in FlowSet /\ Grounded(f, c) /\ Len(f.selected) \in Nat  BY FlowLengths
<1>2. EnteredSelfCheck(g, f, i)  BY <1>1, EnterSelfCheckValues
<1> HIDE DEF g
<1>3. Routed(g)  BY <1>1, <1>2 DEF EnteredSelfCheck, Routed, HasSlots
<1>4. Grounded(g, c)  BY <1>1, <1>2 DEF EnteredSelfCheck, Grounded, SameLayers
<1>5. g \in FlowSet  BY <1>2 DEF EnteredSelfCheck
<1>6. QED  BY <1>3, <1>4, <1>5 DEF FlowOK, g

-----------------------------------------------------------------------------
(* Changes of one step, of the round and of the sequence.                  *)

LEMMA StepsValues ==
  ASSUME NEW f \in FlowSet, NEW s \in [Types -> Step]
  PROVE  LET g == [f EXCEPT !.steps = s] IN
         g \in FlowSet /\ SameButSteps(g, f) /\ g.steps = s
<1> DEFINE B == Seq(Baseline)  S == Seq(Types)  H == [Types -> Step]
<1> HIDE DEF B, S, H
<1>1. QED
  BY DEF FlowSet, H, SameButSteps, SamePlace, SameReview, SameRound, SameLayers, Rounds

LEMMA StepValues ==
  ASSUME NEW f \in FlowSet, NEW t \in Types, NEW s \in Step
  PROVE  LET g == [f EXCEPT !.steps[t] = s] IN
         /\ g \in FlowSet /\ SameButSteps(g, f) /\ g.steps[t] = s
         /\ \A u \in Types \ {t} : g.steps[u] = f.steps[u]
<1> DEFINE H == [f.steps EXCEPT ![t] = s]
<1>1. f.steps \in [Types -> Step]  BY DEF FlowSet
<1>2. /\ H \in [Types -> Step] /\ H[t] = s
      /\ \A u \in Types \ {t} : H[u] = f.steps[u]  BY <1>1
<1>3. [f EXCEPT !.steps[t] = s] = [f EXCEPT !.steps = H]  BY DEF FlowSet
<1> HIDE DEF H
<1>4. QED  BY <1>2, <1>3, StepsValues

LEMMA GroundSteps ==
  ASSUME NEW f, NEW g, NEW c, FlowOK(f, c), g \in FlowSet, SameButSteps(g, f)
  PROVE  FlowOK(g, c)
BY DEF FlowOK, Routed, HasSlots, Grounded, SameButSteps, SamePlace, SameReview, SameRound, SameLayers

LEMMA InsertAtValues ==
  ASSUME NEW S, NEW q \in Seq(S), NEW e \in S, NEW i \in 1..(Len(q) + 1)
  PROVE  /\ InsertAt(q, i, e) \in Seq(S) /\ Len(InsertAt(q, i, e)) = Len(q) + 1
         /\ \A j \in 1..(Len(q) + 1) :
              InsertAt(q, i, e)[j] = IF j < i THEN q[j] ELSE IF j = i THEN e ELSE q[j - 1]
<1> DEFINE n == Len(q)
           a == SubSeq(q, 1, i - 1)  b == SubSeq(q, i, n)  c == a \o <<e>>  d == c \o b
<1>1. n \in Nat /\ i \in 1..(n + 1) /\ q \in Seq(S) /\ Len(q) = n  OBVIOUS
<1>2. InsertAt(q, i, e) = d  BY DEF InsertAt
<1> HIDE DEF n
<1>3. a \in Seq(S) /\ Len(a) = i - 1 /\ \A j \in 1..(i - 1) : a[j] = q[j]  BY ONLY <1>1
<1>4. /\ b \in Seq(S) /\ Len(b) = n - i + 1
      /\ \A j \in 1..(n - i + 1) : b[j] = q[i + j - 1]  BY ONLY <1>1
<1> HIDE DEF a, b
<1>5. c \in Seq(S) /\ Len(c) = i /\ \A j \in 1..i : c[j] = IF j < i THEN q[j] ELSE e
  BY ONLY <1>1, <1>3, e \in S
<1> HIDE DEF c
<1>6. d \in Seq(S) /\ Len(d) = n + 1  BY ONLY <1>1, <1>4, <1>5
<1>7. ASSUME NEW j \in 1..(n + 1)
      PROVE  d[j] = IF j < i THEN q[j] ELSE IF j = i THEN e ELSE q[j - 1]
  <2>1. CASE j <= i
    <3>1. d[j] = c[j]  BY ONLY <1>1, <1>4, <1>5, <2>1, j \in 1..(n + 1)
    <3>2. j \in 1..i  BY ONLY <1>1, <2>1, j \in 1..(n + 1)
    <3> HIDE DEF d
    <3>3. c[j] = IF j < i THEN q[j] ELSE e  BY ONLY <1>5, <3>2
    <3>4. ~ (j < i) => j = i  BY ONLY <1>1, <2>1, j \in 1..(n + 1)
    <3>5. QED  BY ONLY <3>1, <3>3, <3>4
  <2>2. CASE j > i
    <3>1. d[j] = b[j - i]  BY ONLY <1>1, <1>4, <1>5, <2>2, j \in 1..(n + 1)
    <3> HIDE DEF d
    <3>2. b[j - i] = q[i + (j - i) - 1]  BY ONLY <1>1, <1>4, <2>2, j \in 1..(n + 1)
    <3>3. i + (j - i) - 1 = j - 1 /\ ~ (j < i) /\ j # i
      BY ONLY <1>1, <2>2, j \in 1..(n + 1)
    <3>4. QED  BY <3>1, <3>2, <3>3
  <2>3. j <= i \/ j > i  BY ONLY <1>1, j \in 1..(n + 1)
  <2>4. QED  BY ONLY <2>1, <2>2, <2>3
<1> HIDE DEF d
<1>8. QED  BY <1>2, <1>6, <1>7 DEF n

\* The run of ruling steps that goes, and where SELF_CHECK is then.
LEMMA StripValues ==
  ASSUME NEW f \in FlowSet, Routed(f)
  PROVE  LET q == StripAdjudicateRun(f).selected
             first == StripAdjudicateRun(f).selfCheck
         IN \E sc \in 1..Len(f.selected) :
              /\ f.selected[sc] = "SELF_CHECK" /\ first \in 1..sc
              /\ \A k \in first..(sc - 1) : f.selected[k] \in Dynamic
              /\ q \in Seq(Types) /\ Len(q) = Len(f.selected) - (sc - first)
              /\ \A j \in 1..Len(q) :
                   q[j] = IF j < first THEN f.selected[j] ELSE f.selected[j + (sc - first)]
              /\ \A j \in 1..(sc - 1) :
                   (/\ \A k \in j..(sc - 1) : f.selected[k] \in Dynamic
                    /\ \A k \in (j + 1)..(sc - 1) : f.selected[k] # "ADJUDICATE")
                   => first <= j
<1> DEFINE n == Len(f.selected)
           later == {i \in f.index..n : f.selected[i] = "SELF_CHECK"}
           sc == IF later # {} THEN Min(later) ELSE IndexOf(f, "SELF_CHECK")
           starts == {j \in 1..(sc - 1) :
                        /\ \A k \in j..(sc - 1) : f.selected[k] \in Dynamic
                        /\ \A k \in (j + 1)..(sc - 1) : f.selected[k] # "ADJUDICATE"}
           first == IF starts = {} THEN sc ELSE Min(starts)
           q == SubSeq(f.selected, 1, first - 1) \o SubSeq(f.selected, sc, n)
<1>1. StripAdjudicateRun(f) = [selected |-> q, selfCheck |-> first]
  BY DEF StripAdjudicateRun
<1>2. n \in Nat /\ f.index \in 1..(n + 1) /\ f.selected \in Seq(Types)
  BY FlowLengths DEF Routed, FlowSet
<1>3. later # {} => Min(later) \in later /\ \A j \in later : Min(later) <= j
  <2>1. later \in SUBSET (1..n)  BY <1>2
  <2> HIDE DEF later, n
  <2>2. QED  BY <1>2, <2>1, FirstPosition
<1>4. sc \in 1..n /\ f.selected[sc] = "SELF_CHECK"
  <2>1. CASE later # {}  BY <1>2, <1>3, <2>1
  <2>2. CASE later = {}
    <3>1. sc = IndexOf(f, "SELF_CHECK")  BY <2>2
    <3>2. /\ sc \in 0..n /\ (sc > 0 => f.selected[sc] = "SELF_CHECK")
          /\ \A i \in 1..n : f.selected[i] = "SELF_CHECK" => sc > 0 /\ sc <= i
      BY <1>2, <3>1, Places
    <3>3. \E i \in 1..n : f.selected[i] = "SELF_CHECK"  BY DEF Routed, HasSlots
    <3> HIDE DEF sc, later
    <3>4. QED  BY <1>2, <3>2, <3>3
  <2>3. QED  BY <2>1, <2>2
<1> HIDE DEF sc, later
<1>5. starts # {} => Min(starts) \in starts /\ \A j \in starts : Min(starts) <= j
  <2>1. starts \in SUBSET (1..n)  BY <1>2, <1>4
  <2> HIDE DEF starts, n
  <2>2. QED  BY <1>2, <2>1, FirstPosition
<1>6. first \in 1..sc /\ \A k \in first..(sc - 1) : f.selected[k] \in Dynamic
  <2>1. CASE starts = {}  BY <1>2, <1>4, <2>1
  <2>2. CASE starts # {}
    <3>1. first = Min(starts) /\ first \in starts  BY <1>5, <2>2
    <3>2. first \in 1..(sc - 1) /\ \A k \in first..(sc - 1) : f.selected[k] \in Dynamic
      BY <3>1
    <3> HIDE DEF first, starts
    <3>3. QED  BY ONLY <1>2, <1>4, <3>2
  <2>3. QED  BY <2>1, <2>2
<1>7. ASSUME NEW j \in 1..(sc - 1), \A k \in j..(sc - 1) : f.selected[k] \in Dynamic,
             \A k \in (j + 1)..(sc - 1) : f.selected[k] # "ADJUDICATE"
      PROVE  first <= j
  <2>1. j \in starts  BY <1>7
  <2>2. QED  BY <1>5, <2>1
<1> HIDE DEF first, starts
<1>8. /\ q \in Seq(Types) /\ Len(q) = n - (sc - first)
      /\ \A j \in 1..Len(q) :
           q[j] = IF j < first THEN f.selected[j] ELSE f.selected[j + (sc - first)]
  <2> DEFINE a == SubSeq(f.selected, 1, first - 1)  b == SubSeq(f.selected, sc, n)  z == f.selected
  <2>1. z \in Seq(Types) /\ Len(z) = n /\ sc \in 1..n /\ first \in 1..sc /\ n \in Nat
    BY <1>2, <1>4, <1>6
  <2>2. a = SubSeq(z, 1, first - 1) /\ b = SubSeq(z, sc, n) /\ q = a \o b  OBVIOUS
  <2> HIDE DEF n, z, a, b, q
  <2>3. a \in Seq(Types) /\ Len(a) = first - 1 /\ \A j \in 1..(first - 1) : a[j] = z[j]
    BY ONLY <2>1, <2>2
  <2>4. b \in Seq(Types) /\ Len(b) = n - sc + 1 /\ \A j \in 1..(n - sc + 1) : b[j] = z[sc + j - 1]
    BY ONLY <2>1, <2>2
  <2>5. q \in Seq(Types) /\ Len(q) = n - (sc - first)  BY ONLY <2>1, <2>2, <2>3, <2>4
  <2>6. ASSUME NEW j \in 1..Len(q)
        PROVE  q[j] = IF j < first THEN z[j] ELSE z[j + (sc - first)]
    <3>1. CASE j < first
      <4>1. q[j] = a[j]  BY ONLY <2>1, <2>2, <2>3, <2>4, <2>5, <3>1, j \in 1..Len(q)
      <4>2. QED  BY <2>1, <2>3, <2>5, <3>1, <4>1
    <3>2. CASE j >= first
      <4>1. q[j] = b[j - (first - 1)]
        BY ONLY <2>1, <2>2, <2>3, <2>4, <2>5, <3>2, j \in 1..Len(q)
      <4>2. b[j - (first - 1)] = z[sc + (j - (first - 1)) - 1]
        BY ONLY <2>1, <2>4, <2>5, <3>2, j \in 1..Len(q)
      <4>3. sc + (j - (first - 1)) - 1 = j + (sc - first)
        BY ONLY <2>1, <2>5, j \in 1..Len(q)
      <4>4. ~ (j < first)  BY ONLY <2>1, <2>5, <3>2, j \in 1..Len(q)
      <4>5. QED  BY <4>1, <4>2, <4>3, <4>4
    <3>3. QED  BY ONLY <2>1, <2>5, <3>1, <3>2, j \in 1..Len(q)
  <2>7. QED  BY <2>5, <2>6 DEF z
<1> HIDE DEF q, n
<1>9. StripAdjudicateRun(f).selected = q /\ StripAdjudicateRun(f).selfCheck = first
  BY ONLY <1>1
<1>10. QED
  <2>1. n = Len(f.selected)  BY DEF n
  <2>2. QED  BY <1>4, <1>6, <1>7, <1>8, <1>9, <2>1

LEMMA StripOK ==
  ASSUME NEW f, NEW c, FlowOK(f, c)
  PROVE  LET strip == StripAdjudicateRun(f)
             g == [f EXCEPT !.selected = strip.selected]
         IN /\ strip.selected \in Seq(Types)
            /\ strip.selfCheck \in 1..Len(strip.selected)
            /\ g \in FlowSet /\ Grounded(g, c) /\ HasSlots(g)
<1> DEFINE q == StripAdjudicateRun(f).selected  first == StripAdjudicateRun(f).selfCheck
           n == Len(f.selected)  g == [f EXCEPT !.selected = q]
           B == Seq(Baseline)  S == Seq(Types)
<1>1. f \in FlowSet /\ Routed(f) /\ Grounded(f, c)  BY DEF FlowOK
<1>2. PICK sc \in 1..n :
        /\ f.selected[sc] = "SELF_CHECK" /\ first \in 1..sc
        /\ \A k \in first..(sc - 1) : f.selected[k] \in Dynamic
        /\ q \in Seq(Types) /\ Len(q) = n - (sc - first)
        /\ \A j \in 1..Len(q) :
             q[j] = IF j < first THEN f.selected[j] ELSE f.selected[j + (sc - first)]
  BY <1>1, StripValues
<1> HIDE DEF q, first
<1>3. n \in Nat  BY <1>1, FlowLengths
<1>4. PICK p \in 1..n : f.selected[p] = "IMPLEMENT"  BY <1>1 DEF Routed, HasSlots
<1>5. ~ (p \in first..(sc - 1))  BY <1>2, <1>4 DEF Dynamic
<1> HIDE DEF n
<1>6. \E j \in 1..Len(q) : q[j] = "SELF_CHECK"
  <2>1. first \in 1..Len(q) /\ first + (sc - first) = sc /\ ~ (first < first)
    BY ONLY <1>2, <1>3
  <2>2. q[first] = f.selected[first + (sc - first)]  BY <1>2, <2>1
  <2>3. QED  BY <1>2, <2>1, <2>2
<1>7. \E j \in 1..Len(q) : q[j] = "IMPLEMENT"
  <2>1. CASE p < first
    <3>1. p \in 1..Len(q)  BY ONLY <1>2, <1>3, <1>4, <2>1
    <3>2. QED  BY <1>2, <1>4, <2>1, <3>1
  <2>2. CASE p >= sc
    <3> DEFINE j == p - (sc - first)
    <3>1. j \in 1..Len(q) /\ ~ (j < first) /\ j + (sc - first) = p
      BY ONLY <1>2, <1>3, <1>4, <2>2
    <3> HIDE DEF j
    <3>2. q[j] = f.selected[j + (sc - first)]  BY <1>2, <3>1
    <3>3. QED  BY <1>4, <3>1, <3>2
  <2>3. QED  BY ONLY <1>2, <1>3, <1>4, <1>5, <2>1, <2>2
<1>8. first \in 1..Len(q)  BY ONLY <1>2, <1>3
<1>9. g \in FlowSet /\ g.selected = q /\ SameReview(g, f)
  <2>1. q \in S  BY <1>2
  <2> HIDE DEF B, S
  <2>2. QED  BY <1>1, <2>1 DEF FlowSet, SameReview, SameRound, SameLayers, S
<1>10. Grounded(g, c)  BY <1>1, <1>9 DEF Grounded, SameReview, SameRound, SameLayers
<1>11. QED  BY <1>2, <1>6, <1>7, <1>8, <1>9, <1>10 DEF q, first, HasSlots

LEMMA CaptureValues ==
  ASSUME NEW f \in FlowSet, NEW c, Grounded(f, c), code \in Nat, code <= c, NEW a \in BOOLEAN
  PROVE  LET g == CaptureFixBaseline(f, a) IN
         /\ g \in FlowSet /\ Grounded(g, c) /\ SamePlace(g, f) /\ SameRound(g, f) /\ SameLayers(g, f)
         /\ g.steps = f.steps /\ g.stash = f.stash /\ OneMoreFix(g, f)
<1> DEFINE g == CaptureFixBaseline(f, a)  S == Seq(Types)  s == f.fixBaselines
           b == [at |-> code, available |-> a]  q == Append(s, b)  n == Len(s)
<1>1. f \in FlowSet /\ s \in Seq(Baseline) /\ b \in Baseline /\ n \in Nat
  BY FlowLengths DEF FlowSet, Baseline
<1>2. /\ q \in Seq(Baseline) /\ Len(q) = n + 1
      /\ \A i \in 1..(n + 1) : q[i] = IF i = n + 1 THEN b ELSE s[i]
  <2> HIDE DEF b, s
  <2> QED  BY ONLY <1>1
<1>3. g = [f EXCEPT !.fixBaselines = q]  BY DEF CaptureFixBaseline
<1> DEFINE B == Seq(Baseline)
<1>4. q \in B  BY <1>2
<1> HIDE DEF B, S, q, g
<1>5. /\ g \in FlowSet /\ g.fixBaselines = q /\ SamePlace(g, f) /\ SameRound(g, f)
      /\ SameLayers(g, f) /\ g.steps = f.steps /\ g.stash = f.stash
  BY <1>1, <1>3, <1>4 DEF FlowSet, SamePlace, SameRound, SameLayers, B
<1>7. Grounded(f, c)  OBVIOUS
<1>8. \A i \in 1..(n + 1) : q[i].at <= c
  <2>1. \A i \in 1..n : s[i].at <= c  BY <1>7 DEF Grounded
  <2>2. b.at <= c  OBVIOUS
  <2>3. \A i \in 1..(n + 1) : i # n + 1 => i \in 1..n  BY <1>1
  <2> HIDE DEF b, s, n
  <2>4. QED  BY <1>2, <2>1, <2>2, <2>3
<1>9. Grounded(g, c)
  <2>1. g.covered <= n + 1  BY <1>1, <1>5, <1>7 DEF Grounded, SameRound, FlowSet
  <2>2. g.active # NoRound => g.active.base <= n + 1
    <3>1. ASSUME g.active # NoRound PROVE g.active.base \in Nat /\ g.active.base <= n
      <4>1. g.active = f.active /\ f.active \in Round
        BY <1>1, <1>5, <3>1, NoRoundIsNone DEF SameRound, FlowSet
      <4>2. QED  BY <1>7, <3>1, <4>1 DEF Grounded, Round
    <3>2. QED  BY <1>1, <3>1
  <2>3. QED  BY <1>2, <1>5, <1>7, <1>8, <2>1, <2>2 DEF Grounded, SameLayers
<1>10. OneMoreFix(g, f)
  <2>1. b.at = code /\ n + 1 \in 1..(n + 1) /\ \A i \in 1..n : i \in 1..(n + 1) /\ i # n + 1
    BY <1>1
  <2>2. q[n + 1] = b /\ \A i \in 1..n : q[i] = s[i]  BY <1>2, <2>1
  <2> HIDE DEF b, n, s
  <2>3. QED  BY <1>2, <1>5, <2>1, <2>2 DEF OneMoreFix, n, s
<1>11. QED  BY <1>5, <1>9, <1>10 DEF g

-----------------------------------------------------------------------------
(* One step of a flow at a time.                                           *)

LEMMA StepToValues ==
  ASSUME NEW f \in FlowSet, NEW s \in Step
  PROVE  StepTo([f EXCEPT !.steps[f.current] = s], f, s)
<1>1. f.current \in Types  BY DEF FlowSet
<1>2. QED  BY <1>1, StepValues DEF StepTo

LEMMA CurrentTyped ==
  ASSUME NEW f \in FlowSet
  PROVE  /\ f.current \in Types /\ f.newest \in Types /\ f.reviews \in Types
         /\ \A t \in Types : f.steps[t] \in Step
BY DEF FlowSet

LEMMA StatusTyped ==
  ASSUME NEW st \in Step, NEW s \in Status
  PROVE  [st EXCEPT !.status = s] \in Step
<1> DEFINE F == SUBSET Findings
<1> HIDE DEF F
<1>1. QED  BY DEF Step, F

LEMMA SetStatusValues ==
  ASSUME NEW f \in FlowSet, NEW s \in Status
  PROVE  StepTo(SetStatus(f, s), f, [f.steps[f.current] EXCEPT !.status = s])
<1> DEFINE st == [f.steps[f.current] EXCEPT !.status = s]
<1>1. st \in Step  BY CurrentTyped, StatusTyped
<1>2. SetStatus(f, s) = [f EXCEPT !.steps[f.current] = st]  BY DEF SetStatus
<1> HIDE DEF st
<1>3. QED  BY <1>1, <1>2, StepToValues DEF st

-----------------------------------------------------------------------------
(* Handlers and the operator, on the current step.                         *)

LEMMA StartDoes ==
  ASSUME flow \in FlowSet, Start
  PROVE  /\ flow.status = "running" /\ flow.current # "SELF_CHECK" /\ Cur.status = "pending"
         /\ StepTo(flow', flow, [Cur EXCEPT !.status = "running"])
<1>1. flow' = SetStatus(flow, "running")  BY DEF Start
<1>2. "running" \in Status  BY DEF Status
<1>3. QED  BY <1>1, <1>2, SetStatusValues DEF Start, Cur

LEMMA FinishPlainDoes ==
  ASSUME flow \in FlowSet, FinishPlain
  PROVE  /\ flow.status = "running" /\ flow.current \in {"PLAN", "COMMIT"}
         /\ StepTo(flow', flow, [Cur EXCEPT !.status = "completed"])
<1>1. flow' = SetStatus(flow, "completed")  BY DEF FinishPlain
<1>2. "completed" \in Status  BY DEF Status
<1>3. QED  BY <1>1, <1>2, SetStatusValues DEF FinishPlain, Cur, Running

LEMMA FinishImplementDoes ==
  ASSUME flow \in FlowSet, NEW s, FinishImplement(s)
  PROVE  /\ flow.status = "running" /\ flow.current = "IMPLEMENT"
         /\ StepTo(flow', flow, [Cur EXCEPT !.status = s])
<1>1. flow' = SetStatus(flow, s)  BY DEF FinishImplement
<1>2. s \in Status  BY DEF Status, FinishImplement
<1>3. QED  BY <1>1, <1>2, SetStatusValues DEF FinishImplement, Cur, Running

LEMMA FinishGateDoes ==
  ASSUME flow \in FlowSet, NEW s, FinishGate(s)
  PROVE  /\ flow.status = "running" /\ flow.current \in Gates
         /\ StepTo(flow', flow, [Cur EXCEPT !.status = s])
<1>1. flow' = SetStatus(flow, s)  BY DEF FinishGate
<1>2. s \in Status  BY DEF Status, FinishGate
<1>3. QED  BY <1>1, <1>2, SetStatusValues DEF FinishGate, Cur, Running

LEMMA FailDoes ==
  ASSUME flow \in FlowSet, Fail
  PROVE  /\ flow.status = "running" /\ Cur.status = "running"
         /\ StepTo(flow', flow, [Cur EXCEPT !.status = "failed"])
<1>1. flow' = SetStatus(flow, "failed")  BY DEF Fail
<1>2. "failed" \in Status  BY DEF Status
<1>3. QED  BY <1>1, <1>2, SetStatusValues DEF Fail, Cur, Running

LEMMA FinishSelfCheckDoes ==
  ASSUME flow \in FlowSet, NEW found \in SUBSET Findings, NEW severe,
         FinishSelfCheck(found, severe)
  PROVE  /\ flow.status = "running" /\ flow.current = "SELF_CHECK" /\ Cur.status = "running"
         /\ StepTo(flow', flow, PassAnswer(found, severe))
         /\ clean' = IF Cur.stash \cup found # {} \/ flow.active.mode # "full" THEN 0
                     ELSE IF Cur.pass = 1 THEN 1 ELSE clean + 1
<1> DEFINE s == PassAnswer(found, severe)
<1>1. flow' = [flow EXCEPT !.steps["SELF_CHECK"] = s]
  BY DEF FinishSelfCheck, PassAnswer, PassDefers
<1>2. s \in Step
  <2> DEFINE p == PassDefers(found, severe) \/ NothingLeft(found)
             st == IF p THEN "completed" ELSE "revision"
             all == Cur.stash \cup found
             w == ~p \/ all # {}
             d == IF p THEN all ELSE {}
             e == IF p THEN {} ELSE all
             F == SUBSET Findings
  <2>1. Cur \in Step  BY CurrentTyped DEF Cur
  <2>2. Cur.stash \subseteq Findings  BY <2>1 DEF Step
  <2>3. st \in Status /\ w \in BOOLEAN /\ d \in F /\ e \in F
    <3>1. st \in Status  BY DEF Status
    <3>2. w \in BOOLEAN  OBVIOUS
    <3> HIDE DEF p
    <3>3. QED  BY <2>2, <3>1, <3>2
  <2>4. s = [Cur EXCEPT !.status = st, !.wrote = w, !.deferred = d, !.issues = e]
    BY DEF PassAnswer
  <2> HIDE DEF p, st, all, w, d, e, F
  <2>5. QED  BY <2>1, <2>3, <2>4 DEF Step, F
<1>3. flow.status = "running" /\ flow.current = "SELF_CHECK" /\ Cur.status = "running"
  BY DEF FinishSelfCheck, Running
<1>4. clean' = IF Cur.stash \cup found # {} \/ flow.active.mode # "full" THEN 0
               ELSE IF Cur.pass = 1 THEN 1 ELSE clean + 1  BY DEF FinishSelfCheck
<1> HIDE DEF s
<1>5. QED  BY <1>1, <1>2, <1>3, <1>4, StepToValues DEF s

LEMMA FinishConfirmDoes ==
  ASSUME flow \in FlowSet, NEW v, FinishConfirm(v)
  PROVE  /\ flow.status = "running" /\ flow.current = "CONFIRM" /\ v \in {"approved", "rejected"}
         /\ StepTo(flow', flow, [Cur EXCEPT !.verdict = v,
                     !.status = IF v = "approved" THEN "completed" ELSE "revision"])
<1> DEFINE s == [Cur EXCEPT !.verdict = v,
                     !.status = IF v = "approved" THEN "completed" ELSE "revision"]
           F == SUBSET Findings
<1>1. Cur \in Step /\ flow.current = "CONFIRM" /\ flow.status = "running"
      /\ v \in {"approved", "rejected"} /\ "CONFIRM" \in Types
  BY CurrentTyped DEF FinishConfirm, Cur, Running, Types, Dynamic
<1>2. s \in Step
  <2> HIDE DEF F
  <2> QED  BY <1>1 DEF Step, Status, F
<1>3. flow' = [flow EXCEPT !.steps["CONFIRM"] = s]
  <2> DEFINE H == [flow.steps EXCEPT !["CONFIRM"] = s]
  <2>1. H = [flow.steps EXCEPT !["CONFIRM"].verdict = v,
               !["CONFIRM"].status = IF v = "approved" THEN "completed" ELSE "revision"]
    <3> DEFINE T == [flow.steps EXCEPT !["CONFIRM"].verdict = v]
               x == IF v = "approved" THEN "completed" ELSE "revision"
    <3>1. flow.steps \in [Types -> Step]  BY DEF FlowSet
    <3>2. T["CONFIRM"] = [flow.steps["CONFIRM"] EXCEPT !.verdict = v]  BY <1>1, <3>1
    <3>3. s = [T["CONFIRM"] EXCEPT !.status = x]  BY <1>1, <3>2 DEF Cur
    <3> HIDE DEF x, s
    <3>4. QED  BY <3>1, <3>3, <1>1 DEF x
  <2>2. flow' = [flow EXCEPT !.steps = [flow.steps EXCEPT !["CONFIRM"].verdict = v,
                      !["CONFIRM"].status = IF v = "approved" THEN "completed" ELSE "revision"]]
    BY DEF FinishConfirm, FlowSet
  <2>3. [flow EXCEPT !.steps["CONFIRM"] = s] = [flow EXCEPT !.steps = H]  BY DEF FlowSet
  <2>4. QED  BY ONLY <2>1, <2>2, <2>3
<1> HIDE DEF s
<1>4. QED  BY <1>1, <1>2, <1>3, StepToValues DEF s

LEMMA StepAndStatusValues ==
  ASSUME NEW f \in FlowSet, NEW s \in Step, NEW x \in {"running", "completed", "failed"}
  PROVE  StepAndStatus([f EXCEPT !.steps[f.current] = s, !.status = x], f, s, x)
<1> DEFINE g == [f EXCEPT !.steps[f.current] = s, !.status = x]
           h == [f EXCEPT !.steps[f.current] = s]
           B == Seq(Baseline)  S == Seq(Types)  H == [Types -> Step]
<1>1. StepTo(h, f, s)  BY StepToValues
<1>2. g = [h EXCEPT !.status = x]  BY DEF FlowSet
<1> HIDE DEF g, h
<1>3. h \in FlowSet  BY <1>1 DEF StepTo
<1>4. /\ g \in FlowSet /\ SameReview(g, h) /\ g.status = x /\ g.fixes = h.fixes
      /\ g.selected = h.selected /\ g.index = h.index /\ g.current = h.current
      /\ g.newest = h.newest /\ g.reviews = h.reviews /\ g.steps = h.steps
  <2> HIDE DEF B, S, H
  <2> QED  BY <1>2, <1>3 DEF FlowSet, SameReview, SameRound, SameLayers, H, S, B
<1>5. SameReview(g, f)
  BY <1>1, <1>4 DEF StepTo, SameButSteps, SameReview, SameRound, SameLayers
<1>6. QED  BY <1>1, <1>4, <1>5 DEF StepTo, SameButSteps, SamePlace, StepAndStatus, g

LEMMA ResumeDoes ==
  ASSUME flow \in FlowSet, Resume
  PROVE  StepAndStatus(flow', flow, [Cur EXCEPT !.status = "pending", !.retries = 0], "running")
<1> DEFINE g == SetStatus(flow, "pending")  a == [Cur EXCEPT !.status = "pending"]
           s == [a EXCEPT !.retries = 0]  c == flow.current
<1>1. StepTo(g, flow, a)  BY SetStatusValues DEF Status, Cur
<1>2. Cur \in Step /\ c \in Types  BY CurrentTyped DEF Cur
<1>3. s \in Step /\ s = [Cur EXCEPT !.status = "pending", !.retries = 0]
  <2> DEFINE F == SUBSET Findings
  <2> HIDE DEF F
  <2> QED  BY <1>2 DEF Step, F, Status
<1>4. flow' = [g EXCEPT !.steps[c].retries = 0, !.status = "running"]  BY DEF Resume
<1> HIDE DEF g
<1>5. g \in FlowSet /\ g.current = c /\ g.steps[c] = a /\ g.steps \in [Types -> Step]
  BY <1>1 DEF StepTo, SameButSteps, SamePlace, FlowSet
<1>6. flow' = [g EXCEPT !.steps[g.current] = s, !.status = "running"]
  BY <1>2, <1>4, <1>5 DEF FlowSet
<1> HIDE DEF s, a
<1>7. StepAndStatus(flow', g, s, "running")  BY <1>3, <1>5, <1>6, StepAndStatusValues
<1>8. SameReview(flow', flow)
  BY <1>1, <1>7 DEF StepTo, StepAndStatus, SameButSteps, SameReview, SameRound, SameLayers
<1>9. QED  BY <1>1, <1>3, <1>7, <1>8 DEF StepTo, SameButSteps, SamePlace, StepAndStatus

LEMMA RetryDoes ==
  ASSUME flow \in FlowSet, Retry
  PROVE  /\ flow.status = "running" /\ Cur.status = "failed"
         /\ StepTo(flow', flow, [Cur EXCEPT !.status = "pending", !.retries = @ + 1])
<1> DEFINE g == SetStatus(flow, "pending")  a == [Cur EXCEPT !.status = "pending"]
           s == [a EXCEPT !.retries = @ + 1]  c == flow.current
<1>1. StepTo(g, flow, a)  BY SetStatusValues DEF Status, Cur
<1>2. Cur \in Step /\ c \in Types  BY CurrentTyped DEF Cur
<1>3. s \in Step /\ s = [Cur EXCEPT !.status = "pending", !.retries = @ + 1]
  <2> DEFINE F == SUBSET Findings  k == Cur  r == k.retries + 1
  <2>1. k \in Step /\ k = Cur  BY <1>2
  <2> HIDE DEF k
  <2>2. r \in Nat  BY <2>1 DEF Step
  <2>3. s = [k EXCEPT !.status = "pending", !.retries = r]  BY <2>1 DEF Step
  <2> HIDE DEF F, r, s
  <2>4. s \in Step  BY <2>1, <2>2, <2>3 DEF Step, F, Status
  <2>5. QED  BY <2>1, <2>3, <2>4 DEF r
<1>4. flow' = [g EXCEPT !.steps[c].retries = @ + 1]  BY DEF Retry
<1> HIDE DEF g
<1>5. g \in FlowSet /\ g.current = c /\ g.steps[c] = a /\ g.steps \in [Types -> Step]
  BY <1>1 DEF StepTo, SameButSteps, SamePlace, FlowSet
<1>6. flow' = [g EXCEPT !.steps[g.current] = s]  BY <1>2, <1>4, <1>5 DEF FlowSet
<1> HIDE DEF s, a
<1>7. StepTo(flow', g, s)  BY <1>3, <1>5, <1>6, StepToValues
<1>8. SameButSteps(flow', flow)
  BY <1>1, <1>7 DEF StepTo, SameButSteps, SamePlace, SameReview, SameRound, SameLayers
<1>9. flow.status = "running" /\ Cur.status = "failed"  BY DEF Retry
<1>10. QED  BY <1>1, <1>3, <1>5, <1>7, <1>8, <1>9 DEF StepTo

LEMMA SkipDoes ==
  ASSUME flow \in FlowSet, Skip
  PROVE  /\ flow.status = "running" /\ Cur.status = "failed" /\ flow.current \in Skippable
         /\ StepTo(flow', flow, [Cur EXCEPT !.status = "completed", !.skipped = TRUE])
<1> DEFINE g == SetStatus(flow, "completed")  a == [Cur EXCEPT !.status = "completed"]
           s == [a EXCEPT !.skipped = TRUE]  c == flow.current
<1>1. StepTo(g, flow, a)  BY SetStatusValues DEF Status, Cur
<1>2. Cur \in Step /\ c \in Types  BY CurrentTyped DEF Cur
<1>3. s \in Step /\ s = [Cur EXCEPT !.status = "completed", !.skipped = TRUE]
  <2> DEFINE F == SUBSET Findings
  <2> HIDE DEF F
  <2> QED  BY <1>2 DEF Step, F, Status
<1>4. flow' = [g EXCEPT !.steps[c].skipped = TRUE]  BY DEF Skip
<1> HIDE DEF g
<1>5. g \in FlowSet /\ g.current = c /\ g.steps[c] = a /\ g.steps \in [Types -> Step]
  BY <1>1 DEF StepTo, SameButSteps, SamePlace, FlowSet
<1>6. flow' = [g EXCEPT !.steps[g.current] = s]  BY <1>2, <1>4, <1>5 DEF FlowSet
<1> HIDE DEF s, a
<1>7. StepTo(flow', g, s)  BY <1>3, <1>5, <1>6, StepToValues
<1>8. SameButSteps(flow', flow)
  BY <1>1, <1>7 DEF StepTo, SameButSteps, SamePlace, SameReview, SameRound, SameLayers
<1>9. flow.status = "running" /\ Cur.status = "failed" /\ flow.current \in Skippable
  BY DEF Skip
<1>10. QED  BY <1>1, <1>3, <1>5, <1>7, <1>8, <1>9 DEF StepTo

\* The flow ends, whatever step it is at.
LEMMA StatusValues ==
  ASSUME NEW f \in FlowSet, NEW x \in {"running", "completed", "failed"}
  PROVE  LET g == [f EXCEPT !.status = x] IN
         /\ g \in FlowSet /\ SameReview(g, f) /\ g.status = x /\ g.fixes = f.fixes
         /\ g.selected = f.selected /\ g.index = f.index /\ g.current = f.current
         /\ g.newest = f.newest /\ g.reviews = f.reviews /\ g.steps = f.steps
<1> DEFINE B == Seq(Baseline)  S == Seq(Types)  H == [Types -> Step]
<1> HIDE DEF B, S, H
<1>1. QED  BY DEF FlowSet, SameReview, SameRound, SameLayers, H, S, B, Rounds

LEMMA LayersValues ==
  ASSUME NEW f \in FlowSet, NEW a \in Nat, NEW b \in Nat, NEW r \in Nat
  PROVE  LET g == WithLayers(f, a, b, r) IN
         /\ g \in FlowSet /\ SamePlace(g, f) /\ SameRound(g, f) /\ g.steps = f.steps
         /\ g.fixBaselines = f.fixBaselines /\ g.stash = f.stash
         /\ g.layers = a /\ g.layer = b /\ g.beforeRuling = r
<1> DEFINE B == Seq(Baseline)  S == Seq(Types)  H == [Types -> Step]
<1> HIDE DEF B, S, H
<1>1. QED  BY DEF WithLayers, FlowSet, SamePlace, SameRound, H, S, B, Rounds

LEMMA FinishAdjudicateDoes ==
  ASSUME flow \in FlowSet, NEW v, FinishAdjudicate(v)
  PROVE  /\ flow.status = "running" /\ flow.current = "ADJUDICATE"
         /\ v \in {"noop", "description", "plan"} /\ Cur.status = "running"
         /\ flow' \in FlowSet /\ SamePlace(flow', flow) /\ SameRound(flow', flow)
         /\ flow'.fixBaselines = flow.fixBaselines /\ flow'.stash = flow.stash
         /\ flow'.steps["ADJUDICATE"] = [Cur EXCEPT !.status = "completed", !.verdict = v]
         /\ \A u \in Types \ {"ADJUDICATE"} : flow'.steps[u] = flow.steps[u]
         /\ flow'.layers = IF v = "description" THEN flow.layers + 1 ELSE flow.layers
         /\ flow'.layer = IF v = "description" THEN flow.layers + 1 ELSE flow.layer
         /\ flow'.beforeRuling = flow.layer
<1> DEFINE g == SetStatus(flow, "completed")  a == [Cur EXCEPT !.status = "completed"]
           s == [a EXCEPT !.verdict = v]  c == "ADJUDICATE"
           x == IF v = "description" THEN flow.layers + 1 ELSE flow.layers
           y == IF v = "description" THEN flow.layers + 1 ELSE flow.layer
           z == flow.layer
           h == [g EXCEPT !.steps[c] = s]
<1>1. StepTo(g, flow, a)  BY SetStatusValues DEF Status, Cur
<1>2. /\ Cur \in Step /\ c \in Types /\ flow.current = c /\ flow.status = "running"
      /\ Cur.status = "running" /\ v \in {"noop", "description", "plan"}
  BY CurrentTyped DEF Cur, FinishAdjudicate, Running
<1>3. s \in Step /\ s = [Cur EXCEPT !.status = "completed", !.verdict = v]
  <2> DEFINE F == SUBSET Findings
  <2> HIDE DEF F
  <2> QED  BY <1>2 DEF Step, F, Status
<1>4. x \in Nat /\ y \in Nat /\ z \in Nat /\ flow.layers \in Nat  BY DEF FlowSet
<1>5. flow' = [g EXCEPT !.steps[c].verdict = v,
                 !.layers = IF v = "description" THEN @ + 1 ELSE @,
                 !.layer = IF v = "description" THEN flow.layers + 1 ELSE @,
                 !.beforeRuling = flow.layer]
  BY DEF FinishAdjudicate
<1> HIDE DEF g
<1>6. /\ g \in FlowSet /\ g.current = c /\ g.steps[c] = a /\ g.steps \in [Types -> Step]
      /\ g.layers = flow.layers /\ g.layer = flow.layer
  BY <1>1, <1>2 DEF StepTo, SameButSteps, SamePlace, SameReview, SameLayers, FlowSet
<1>7. StepTo(h, g, s)  BY <1>3, <1>6, StepToValues
<1> DEFINE L == flow.layers + 1
<1>8. flow' = [h EXCEPT !.layers = x, !.layer = y, !.beforeRuling = z]
  <2> HIDE DEF L
  <2>1. flow' = [g EXCEPT !.steps[c].verdict = v, !.layers = x, !.layer = y, !.beforeRuling = z]
    BY <1>5, <1>6 DEF FlowSet
  <2> HIDE DEF x, y, z
  <2>2. QED  BY <1>2, <1>6, <2>1 DEF FlowSet
<1> HIDE DEF s, a, h, x, y, z
<1>9. /\ flow' \in FlowSet /\ SamePlace(flow', h) /\ SameRound(flow', h) /\ flow'.steps = h.steps
      /\ flow'.fixBaselines = h.fixBaselines /\ flow'.stash = h.stash
      /\ flow'.layers = x /\ flow'.layer = y /\ flow'.beforeRuling = z
  <2>1. h \in FlowSet  BY <1>7 DEF StepTo
  <2>2. flow' = WithLayers(h, x, y, z)  BY <1>8 DEF WithLayers
  <2> DEFINE k == WithLayers(h, x, y, z)
  <2>3. /\ k \in FlowSet /\ SamePlace(k, h) /\ SameRound(k, h) /\ k.steps = h.steps
        /\ k.fixBaselines = h.fixBaselines /\ k.stash = h.stash
        /\ k.layers = x /\ k.layer = y /\ k.beforeRuling = z
    BY ONLY <1>4, <2>1, LayersValues, SMTT(60)
  <2>4. flow' = k  BY <2>2
  <2> HIDE DEF k
  <2>5. QED  BY ONLY <2>3, <2>4
<1>10. SamePlace(flow', flow) /\ SameRound(flow', flow)
       /\ flow'.fixBaselines = flow.fixBaselines /\ flow'.stash = flow.stash
  BY <1>1, <1>7, <1>9 DEF StepTo, SameButSteps, SamePlace, SameReview, SameRound
<1>11. flow'.steps[c] = s /\ \A u \in Types \ {c} : flow'.steps[u] = flow.steps[u]
  BY <1>1, <1>2, <1>6, <1>7, <1>9 DEF StepTo
<1>12. QED  BY <1>2, <1>3, <1>9, <1>10, <1>11 DEF x, y, z

\* A revision is a new layer, over which a full round is owed.
LEMMA ReviseDoes ==
  ASSUME flow \in FlowSet, Revise
  PROVE  /\ flow.status = "running"
         /\ flow' \in FlowSet /\ SamePlace(flow', flow)
         /\ flow'.active = NoRound /\ flow'.forced = TRUE
         /\ flow'.fixBaselines = flow.fixBaselines /\ flow'.stash = flow.stash
         /\ flow'.covered = flow.covered
         /\ flow'.layers = flow.layers + 1 /\ flow'.layer = flow.layers + 1
         /\ flow'.beforeRuling = flow.layers + 1
         /\ flow'.steps[flow.current] =
              [Cur EXCEPT !.status = IF @ = "running" THEN "pending" ELSE @]
         /\ \A u \in Types \ {flow.current} : flow'.steps[u] = flow.steps[u]
<1> DEFINE x == flow.layers + 1
           h == [flow EXCEPT !.layers = x, !.layer = x, !.beforeRuling = x]
           g == ForceFull(h)
           s == [Cur EXCEPT !.status = IF @ = "running" THEN "pending" ELSE @]
<1>1. flow.status = "running"  BY DEF Revise
<1>2. flow' = IF Cur.status = "running" THEN SetStatus(g, "pending") ELSE g
  <2>1. h = [flow EXCEPT !.layers = @ + 1, !.layer = flow.layers + 1,
                         !.beforeRuling = flow.layers + 1]
    BY DEF FlowSet
  <2>2. QED  BY <2>1 DEF Revise
<1>3. x \in Nat /\ Cur \in Step /\ flow.current \in Types  BY CurrentTyped DEF FlowSet, Cur
<1>4. /\ h \in FlowSet /\ SamePlace(h, flow) /\ SameRound(h, flow) /\ h.steps = flow.steps
      /\ h.fixBaselines = flow.fixBaselines /\ h.stash = flow.stash
      /\ h.layers = x /\ h.layer = x /\ h.beforeRuling = x
  <2> HIDE DEF x
  <2>1. h = WithLayers(flow, x, x, x)  BY DEF WithLayers
  <2> HIDE DEF h
  <2>2. QED  BY <1>3, <2>1, LayersValues
<1> HIDE DEF h
<1>5. /\ g \in FlowSet /\ SamePlace(g, h) /\ SameLayers(g, h) /\ g.steps = h.steps
      /\ g.active = NoRound /\ g.forced = TRUE
      /\ g.fixBaselines = h.fixBaselines /\ g.stash = h.stash /\ g.covered = h.covered
  BY <1>4, ForceFullValues
<1> HIDE DEF g, x
<1>6. /\ g \in FlowSet /\ SamePlace(g, flow) /\ g.steps = flow.steps
      /\ g.active = NoRound /\ g.forced = TRUE
      /\ g.fixBaselines = flow.fixBaselines /\ g.stash = flow.stash /\ g.covered = flow.covered
      /\ g.layers = x /\ g.layer = x /\ g.beforeRuling = x
  BY <1>4, <1>5 DEF SamePlace, SameLayers, SameRound
<1>7. CASE Cur.status = "running"
  <2>1. flow' = SetStatus(g, "pending") /\ g.current = flow.current /\ g.steps[g.current] = Cur
    BY <1>2, <1>6, <1>7 DEF SamePlace, Cur
  <2>2. StepTo(flow', g, [Cur EXCEPT !.status = "pending"])
    BY <1>6, <2>1, SetStatusValues DEF Status
  <2>3. s = [Cur EXCEPT !.status = "pending"]  BY <1>7 DEF Step
  <2> HIDE DEF s
  <2>4. /\ flow' \in FlowSet /\ SamePlace(flow', flow) /\ flow'.active = NoRound
        /\ flow'.forced = TRUE /\ flow'.fixBaselines = flow.fixBaselines
        /\ flow'.stash = flow.stash /\ flow'.covered = flow.covered
        /\ flow'.layers = x /\ flow'.layer = x /\ flow'.beforeRuling = x
    BY <1>6, <2>2 DEF StepTo, SameButSteps, SamePlace, SameReview, SameRound, SameLayers
  <2>5. flow'.steps[flow.current] = s
        /\ \A u \in Types \ {flow.current} : flow'.steps[u] = flow.steps[u]
    BY <1>6, <2>1, <2>2, <2>3 DEF StepTo
  <2>6. QED  BY <1>1, <2>4, <2>5 DEF s, x
<1>8. CASE Cur.status # "running"
  <2>1. flow' = g  BY <1>2, <1>8
  <2>2. s = Cur
    <3> DEFINE F == SUBSET Findings
    <3> HIDE DEF F
    <3> QED  BY <1>3, <1>8 DEF Step, F
  <2> HIDE DEF s
  <2>3. flow'.steps[flow.current] = s  BY <1>6, <2>1, <2>2 DEF Cur
  <2>4. QED  BY <1>1, <1>6, <2>1, <2>3 DEF s, x
<1>9. QED  BY <1>7, <1>8

LEMMA GiveUpDoes ==
  ASSUME flow \in FlowSet, GiveUp
  PROVE  /\ flow.status = "running" /\ Cur.status = "failed"
         /\ StepAndStatus(flow', flow, Cur, "failed")
<1>1. flow.status = "running" /\ Cur.status = "failed"
      /\ flow' = [flow EXCEPT !.status = "failed"]  BY DEF GiveUp
<1>2. QED  BY <1>1, StatusValues DEF StepAndStatus, Cur

LEMMA FixesExhaustedDoes ==
  ASSUME flow \in FlowSet, FixesExhausted
  PROVE  /\ flow.status = "running" /\ Cur.status = "revision"
         /\ flow.current \in Gates \cup {"SELF_CHECK"}
         /\ StepAndStatus(flow', flow, Cur, "failed")
<1>1. flow.status = "running" /\ Cur.status = "revision"
      /\ flow.current \in Gates \cup {"SELF_CHECK"}
      /\ flow' = [flow EXCEPT !.status = "failed"]  BY DEF FixesExhausted, Leaving
<1>2. QED  BY <1>1, StatusValues DEF StepAndStatus, Cur

LEMMA StartSelfCheckDoes ==
  ASSUME flow \in FlowSet, NEW c, Grounded(flow, c), NEW u \in BOOLEAN, StartSelfCheck(u)
  PROVE  LET h == PrepareScope(Refreshed, u) IN
         /\ flow.status = "running" /\ flow.current = "SELF_CHECK" /\ Cur.status = "pending"
         /\ Refreshed \in FlowSet /\ Grounded(Refreshed, c) /\ InRound(h, Refreshed)
         /\ StepTo(flow', h, [Cur EXCEPT !.status = "running", !.pass = h.active.pass,
                                        !.flushTried = h.active.flushTried])
<1> DEFINE f == Refreshed
           h == PrepareScope(f, u)  t == "SELF_CHECK"
           s == [Cur EXCEPT !.status = "running", !.pass = h.active.pass,
                            !.flushTried = h.active.flushTried]
<1>1. flow.status = "running" /\ flow.current = t /\ Cur.status = "pending"
  BY DEF StartSelfCheck
<1>2. f \in FlowSet /\ Grounded(f, c) /\ SamePlace(f, flow) /\ f.steps = flow.steps
  <2>1. CASE RequirementsChanged(flow)
    <3>1. f = ForceFull(flow)  BY <2>1 DEF Refreshed
    <3>2. QED  BY <3>1, ForceFullValues, GroundKept
  <2>2. CASE ~RequirementsChanged(flow)  BY <2>2 DEF SamePlace, Refreshed
  <2>3. QED  BY <2>1, <2>2
<1>3. flow' = [h EXCEPT !.steps[t].status = "running", !.steps[t].pass = h.active.pass,
                        !.steps[t].flushTried = h.active.flushTried]
  BY DEF StartSelfCheck, Refreshed
<1> HIDE DEF f
<1>5. InRound(h, f)  BY <1>2, PrepareScopeValues
<1> HIDE DEF h
<1>6. h \in FlowSet /\ h.steps[t] = Cur /\ h.current = t /\ Cur \in Step /\ h.active \in Round
  BY <1>1, <1>2, <1>5, CurrentTyped DEF InRound, SamePlace, Cur
<1> DEFINE p == h.active.pass  q == h.active.flushTried
<1>7. p \in Nat /\ q \in BOOLEAN  BY <1>6 DEF Round
<1>8. s \in Step
  <2> DEFINE F == SUBSET Findings
  <2> HIDE DEF F, p, q
  <2> QED  BY <1>6, <1>7 DEF Step, F, Status, p, q
<1>9. flow' = [h EXCEPT !.steps[h.current] = s]
  <2>1. h.steps \in [Types -> Step] /\ t \in Types  BY <1>6, CurrentTyped DEF FlowSet
  <2>2. flow' = [h EXCEPT !.steps[t].status = "running", !.steps[t].pass = p,
                          !.steps[t].flushTried = q]
    BY <1>3
  <2>3. s = [h.steps[t] EXCEPT !.status = "running", !.pass = p, !.flushTried = q]  BY <1>6
  <2> HIDE DEF p, q, s
  <2> DEFINE T == [h.steps EXCEPT ![t].status = "running"]  U == [T EXCEPT ![t].pass = p]
             H == [h.steps EXCEPT ![t] = s]
  <2>4. T \in [Types -> Step] /\ T[t] = [h.steps[t] EXCEPT !.status = "running"]
    <3>1. [h.steps[t] EXCEPT !.status = "running"] \in Step  BY <1>6, StatusTyped DEF Status
    <3>2. QED  BY <2>1, <3>1
  <2>5. U[t] = [T[t] EXCEPT !.pass = p]  BY <2>1, <2>4
  <2>6. s = [U[t] EXCEPT !.flushTried = q]  BY <2>3, <2>4, <2>5
  <2>7. H = [U EXCEPT ![t].flushTried = q]  BY <2>1, <2>6
  <2>8. flow' = [h EXCEPT !.steps = [h.steps EXCEPT ![t].status = "running", ![t].pass = p,
                                                    ![t].flushTried = q]]
    BY <1>6, <2>2 DEF FlowSet
  <2>9. [h EXCEPT !.steps[t] = s] = [h EXCEPT !.steps = H]  BY <1>6 DEF FlowSet
  <2>10. QED  BY <1>6, <2>7, <2>8, <2>9
<1>10. StepTo(flow', h, s)
  <2> HIDE DEF s
  <2> QED  BY <1>6, <1>8, <1>9, StepToValues
<1>11. QED  BY <1>1, <1>2, <1>5, <1>10, Zenon DEF s, h, f

-----------------------------------------------------------------------------
(* Where a transition leads.                                               *)

\* Another sequence, with as many fixes as before or one more.
LEMMA SequenceValues ==
  ASSUME NEW f \in FlowSet, NEW q \in Seq(Types)
  PROVE  LET g == [f EXCEPT !.selected = q] IN
         /\ g \in FlowSet /\ SameReview(g, f) /\ g.selected = q
         /\ g.index = f.index /\ g.current = f.current /\ g.newest = f.newest
         /\ g.reviews = f.reviews /\ g.status = f.status /\ g.steps = f.steps
         /\ g.fixes = f.fixes
<1> DEFINE B == Seq(Baseline)  S == Seq(Types)  H == [Types -> Step]
<1>1. q \in S  OBVIOUS
<1> HIDE DEF B, S, H
<1>2. QED  BY <1>1 DEF FlowSet, SameReview, SameRound, SameLayers, H, S, B, Rounds

LEMMA FixesValues ==
  ASSUME NEW f \in FlowSet
  PROVE  LET g == [f EXCEPT !.fixes = @ + 1] IN
         /\ g \in FlowSet /\ SameReview(g, f) /\ g.selected = f.selected
         /\ g.index = f.index /\ g.current = f.current /\ g.newest = f.newest
         /\ g.reviews = f.reviews /\ g.status = f.status /\ g.steps = f.steps
         /\ g.fixes = f.fixes + 1
<1> DEFINE B == Seq(Baseline)  S == Seq(Types)  H == [Types -> Step]  k == f.fixes + 1
<1>1. k \in Nat  BY DEF FlowSet
<1>2. [f EXCEPT !.fixes = @ + 1] = [f EXCEPT !.fixes = k]  OBVIOUS
<1> HIDE DEF B, S, H, k
<1>3. QED  BY <1>1, <1>2 DEF FlowSet, SameReview, SameRound, SameLayers, H, S, B, Rounds, k

LEMMA ToFixValues ==
  ASSUME NEW f \in FlowSet, NEW c, Grounded(f, c), HasSlots(f),
         code \in Nat, code <= c, NEW a \in BOOLEAN
  PROVE  FlowOK(ToFix(f, a), c) /\ AtFix(ToFix(f, a), f)
<1> DEFINE k == CaptureFixBaseline(f, a)  t == "IMPLEMENT"  i == IndexOf(f, t)
           s == [f.steps[t] EXCEPT !.status = "pending"]
           e == Enter(k, t, i, s)  n == f.newest
           g == ToFix(f, a)
<1>1. /\ k \in FlowSet /\ Grounded(k, c) /\ SamePlace(k, f) /\ SameRound(k, f) /\ SameLayers(k, f)
      /\ k.steps = f.steps /\ k.stash = f.stash /\ OneMoreFix(k, f)  BY CaptureValues
<1>2. f \in FlowSet /\ k \in FlowSet /\ t \in Types  BY <1>1 DEF Types
<1>3. i \in 1..Len(f.selected) /\ Len(f.selected) \in Nat
  <2>1. Len(f.selected) \in Nat  BY <1>2, FlowLengths
  <2>2. \E j \in 1..Len(f.selected) : f.selected[j] = t  BY DEF HasSlots
  <2>3. /\ i \in 0..Len(f.selected)
        /\ \A j \in 1..Len(f.selected) : f.selected[j] = t => i > 0 /\ i <= j
    BY <2>1, Places
  <2> HIDE DEF i
  <2>4. QED  BY <2>1, <2>2, <2>3
<1>4. s \in Step /\ i \in Nat /\ n \in Types
  <2>1. f.steps[t] \in Step /\ n \in Types  BY <1>2, CurrentTyped
  <2>2. s \in Step  BY <2>1, StatusTyped DEF Status
  <2>3. QED  BY <1>3, <2>1, <2>2
<1>5. g = [e EXCEPT !.fixes = @ + 1, !.newest = n]  BY DEF ToFix
<1> HIDE DEF k, i, s, n
<1>6. /\ e \in FlowSet /\ SameReview(e, k) /\ e.selected = k.selected /\ e.index = i
      /\ e.current = t /\ e.reviews = k.reviews /\ e.status = k.status /\ e.fixes = k.fixes
      /\ e.steps[t] = s  BY <1>2, <1>4, EnterValues
<1> HIDE DEF e, g
<1> DEFINE h == [e EXCEPT !.fixes = @ + 1]
           B == Seq(Baseline)  S == Seq(Types)  H == [Types -> Step]
<1>7. /\ h \in FlowSet /\ SameReview(h, e) /\ h.selected = e.selected
      /\ h.index = e.index /\ h.current = e.current /\ h.reviews = e.reviews
      /\ h.status = e.status /\ h.steps = e.steps /\ h.fixes = e.fixes + 1
  BY <1>6, FixesValues
<1>8. g = [h EXCEPT !.newest = n]  BY <1>5, <1>6 DEF FlowSet
<1> HIDE DEF h
<1>9. /\ g \in FlowSet /\ SameReview(g, h) /\ g.selected = h.selected
      /\ g.index = h.index /\ g.current = h.current /\ g.reviews = h.reviews
      /\ g.status = h.status /\ g.steps = h.steps /\ g.newest = n /\ g.fixes = h.fixes
  <2> HIDE DEF B, S, H
  <2> QED  BY <1>4, <1>7, <1>8 DEF FlowSet, SameReview, SameRound, SameLayers, Rounds
<1>10. SameReview(g, k)  BY <1>6, <1>7, <1>9 DEF SameReview, SameRound, SameLayers
<1>15. g.fixes = f.fixes + 1 /\ OneMoreFix(g, f)
  BY <1>1, <1>6, <1>7, <1>9, <1>10 DEF SamePlace, SameReview, OneMoreFix
<1>11. AtFix(g, f)  BY <1>1, <1>6, <1>7, <1>9, <1>10, <1>15
     DEF AtFix, SamePlace, SameReview, SameRound, SameLayers, i, s, n, t
<1>12. Routed(g)  BY <1>1, <1>3, <1>11 DEF AtFix, Routed, HasSlots, i
<1>13. Grounded(g, c)  BY <1>1, <1>10 DEF Grounded, SameReview, SameRound, SameLayers
<1>14. QED  BY <1>9, <1>11, <1>12, <1>13 DEF FlowOK, g

\* Nothing is lost from a sequence that grows.
LEMMA InsertedRouted ==
  ASSUME NEW f, NEW g, NEW c, FlowOK(f, c), NEW at \in 1..(Len(f.selected) + 1), NEW t,
         NEW s, AtInserted(g, f, at, t, s)
  PROVE  FlowOK(g, c)
<1> DEFINE n == Len(f.selected)
<1>1. n \in Nat  BY FlowLengths DEF FlowOK
<1>2. ASSUME NEW u, \E j \in 1..n : f.selected[j] = u
      PROVE  \E j \in 1..Len(g.selected) : g.selected[j] = u
  <2>1. PICK j \in 1..n : f.selected[j] = u  BY <1>2
  <2> DEFINE k == IF j < at THEN j ELSE j + 1
  <2>2. k \in 1..(n + 1) /\ (k < at => k = j) /\ (~(k < at) => k # at /\ k - 1 = j)  BY <1>1
  <2> HIDE DEF k
  <2>3. g.selected[k] = u  BY <2>1, <2>2 DEF AtInserted
  <2>4. QED  BY <2>2, <2>3 DEF AtInserted
<1>3. Routed(g)
  <2>1. g.index \in 1..Len(g.selected) /\ Len(g.selected) \in Nat  BY <1>1 DEF AtInserted
  <2>2. HasSlots(f)  BY DEF FlowOK, Routed
  <2>3. HasSlots(g)  BY ONLY <1>2, <2>2 DEF HasSlots
  <2>4. QED  BY ONLY <2>1, <2>3 DEF Routed
<1>4. Grounded(g, c)  BY DEF FlowOK, Grounded, AtInserted, SameReview, SameRound, SameLayers
<1>5. QED  BY <1>3, <1>4 DEF FlowOK, AtInserted

LEMMA InsertedValues ==
  ASSUME NEW f \in FlowSet, NEW at \in 1..(Len(f.selected) + 1), NEW t \in Types, NEW s \in Step
  PROVE  AtInserted(Enter([f EXCEPT !.selected = InsertAt(@, at, t)], t, at, s), f, at, t, s)
<1> DEFINE q == InsertAt(f.selected, at, t)  h == [f EXCEPT !.selected = q]
           g == Enter(h, t, at, s)  n == Len(f.selected)
<1>1. n \in Nat /\ f.selected \in Seq(Types) /\ at \in Nat  BY FlowLengths DEF FlowSet
<1>2. /\ q \in Seq(Types) /\ Len(q) = n + 1
      /\ \A j \in 1..(n + 1) :
           q[j] = IF j < at THEN f.selected[j] ELSE IF j = at THEN t ELSE f.selected[j - 1]
  <2> DEFINE z == f.selected
  <2>1. z \in Seq(Types) /\ at \in 1..(Len(z) + 1)  BY <1>1
  <2> HIDE DEF z
  <2>2. /\ InsertAt(z, at, t) \in Seq(Types) /\ Len(InsertAt(z, at, t)) = Len(z) + 1
        /\ \A j \in 1..(Len(z) + 1) :
             InsertAt(z, at, t)[j] = IF j < at THEN z[j] ELSE IF j = at THEN t ELSE z[j - 1]
    BY ONLY <2>1, t \in Types, InsertAtValues
  <2>3. QED  BY <2>2 DEF z
<1>3. h = [f EXCEPT !.selected = InsertAt(@, at, t)]  OBVIOUS
<1> HIDE DEF q
<1>4. /\ h \in FlowSet /\ SameReview(h, f) /\ h.selected = q
      /\ h.newest = f.newest /\ h.reviews = f.reviews /\ h.status = f.status
      /\ h.steps = f.steps /\ h.fixes = f.fixes  BY <1>2, SequenceValues
<1> HIDE DEF h, g
<1>5. /\ g \in FlowSet /\ SameReview(g, h) /\ g.selected = h.selected /\ g.index = at
      /\ g.current = t /\ g.newest = IF t = "CONFIRM" THEN h.newest ELSE t
      /\ g.reviews = h.reviews /\ g.status = h.status /\ g.steps[t] = s /\ g.fixes = h.fixes
      /\ \A u \in Types \ {t} : g.steps[u] = IF u \in Kept(h, t) THEN h.steps[u] ELSE NoStep
  BY <1>1, <1>4, EnterValues, SMTT(60) DEF g
<1>6. Kept(h, t) = Kept(f, t)  BY <1>4 DEF Kept
<1>7. AtInserted(g, f, at, t, s)
  BY <1>2, <1>4, <1>5, <1>6 DEF AtInserted, SameReview, SameRound, SameLayers, q
<1>8. QED  BY <1>3, <1>7 DEF g

-----------------------------------------------------------------------------
(* Saves.                                                                  *)

LEMMA SaveDoes ==
  ASSUME NEW f, NEW bodies, NEW handed, Save(f, bodies, handed)
  PROVE  Saved(f, bodies) /\ open' \subseteq open
BY DEF Save, Saved, Spend, Spent

LEMMA SpentTyped ==
  ASSUME spent \in [Event -> Nat], NEW e \in Event, Spent(e)
  PROVE  /\ spent' \in [Event -> Nat] /\ spent'[e] = spent[e] + 1
         /\ \A x \in Event \ {e} : spent'[x] = spent[x]
BY DEF Spent

LEMMA TornValues ==
  ASSUME flow \in FlowSet, NEW f \in FlowSet, NEW bodies \in [Types -> Step]
  PROVE  Torn(f, bodies) \in FlowSet /\ AtTorn(Torn(f, bodies), f, bodies)
<1> DEFINE c == flow.current  b == bodies[c]
           s == [b EXCEPT !.skipped = FALSE, !.status = IF Cur.skipped THEN "failed" ELSE @]
           H == [bodies EXCEPT ![c] = s]
           g == Torn(f, bodies)
           B == Seq(Baseline)  S == Seq(Types)  T == [Types -> Step]  F == SUBSET Findings
<1>1. c \in Types /\ b \in Step  BY CurrentTyped
<1>2. s \in Step
  <2> HIDE DEF F, b
  <2> QED  BY <1>1 DEF Step, Status, F
<1>3. H \in T /\ H[c] = s /\ \A u \in Types \ {c} : H[u] = bodies[u]
  <2> HIDE DEF s
  <2> QED  BY <1>1, <1>2
<1>4. [bodies EXCEPT ![c].skipped = FALSE,
                     ![c].status = IF Cur.skipped THEN "failed" ELSE @] = H
  <2> DEFINE K == [bodies EXCEPT ![c].skipped = FALSE]
             x == IF Cur.skipped THEN "failed" ELSE b.status
  <2>1. K[c] = [b EXCEPT !.skipped = FALSE]  BY <1>1
  <2>2. K[c].status = b.status  BY <1>1, <2>1 DEF Step
  <2>3. s = [K[c] EXCEPT !.status = x]  BY <1>1, <2>1
  <2> HIDE DEF s, x
  <2>4. H = [K EXCEPT ![c].status = x]  BY <1>1, <2>3
  <2>5. QED  BY <1>1, <2>2, <2>4 DEF x
<1>5. g = [f EXCEPT !.selected = flow.selected, !.index = flow.index,
                    !.current = flow.current, !.newest = flow.newest,
                    !.reviews = flow.reviews, !.status = flow.status,
                    !.fixes = flow.fixes, !.steps = H]
  BY <1>4 DEF Torn
<1> HIDE DEF H, s, g, b
<1>6. /\ g \in FlowSet /\ SamePlace(g, flow) /\ SameReview(g, f) /\ g.steps = H
  <2> HIDE DEF B, S, T, F
  <2> QED  BY <1>3, <1>5 DEF FlowSet, SamePlace, SameReview, SameRound, SameLayers, B, S, T
<1>7. QED  BY <1>3, <1>6 DEF AtTorn, g, s, b

\* A flow that is saved is on its ground, and so is the one a cut leaves.
LEMMA SavedOK ==
  ASSUME Standing, NEW f, FlowOK(f, code), flow.status = "running",
         NEW bodies \in [Types -> Step], Saved(f, bodies)
  PROVE  /\ FlowOK(flow', code) /\ spent' \in [Event -> Nat]
         /\ flow'.layers = f.layers
         /\ \/ flow' = f /\ spent' = spent
            \/ spent'["tears"] = spent["tears"] + 1 /\ flow'.status = "running"
         /\ \A e \in Event : spent'[e] >= spent[e]
<1>1. spent \in [Event -> Nat] /\ FlowOK(flow, code)  BY DEF Standing
<1>2. CASE flow' = f /\ spent' = spent
  <2>1. \A e \in Event : spent'[e] >= spent[e]  BY ONLY <1>1, <1>2
  <2>2. FlowOK(flow', code) /\ flow'.layers = f.layers  BY <1>2
  <2>3. spent' \in [Event -> Nat]  BY ONLY <1>1, <1>2
  <2>4. QED  BY <1>2, <2>1, <2>2, <2>3
<1>3. CASE flow' = Torn(f, bodies) /\ Spent("tears")
  <2>1. flow \in FlowSet /\ f \in FlowSet /\ Routed(flow) /\ Grounded(f, code)
    BY <1>1 DEF FlowOK
  <2>2. flow' \in FlowSet /\ AtTorn(flow', f, bodies)  BY <1>3, <2>1, TornValues
  <2>3. Routed(flow')  BY <2>1, <2>2 DEF AtTorn, SamePlace, Routed, HasSlots
  <2>4. Grounded(flow', code)
    BY <2>1, <2>2 DEF AtTorn, Grounded, SameReview, SameRound, SameLayers
  <2>5. flow'.layers = f.layers /\ flow'.status = "running"
    BY <2>2 DEF AtTorn, SameReview, SameLayers, SamePlace
  <2>6. "tears" \in Event  BY DEF Event
  <2>7. /\ spent' \in [Event -> Nat] /\ spent'["tears"] = spent["tears"] + 1
        /\ \A x \in Event \ {"tears"} : spent'[x] = spent[x]
    BY <1>1, <1>3, <2>6, SpentTyped
  <2>8. \A e \in Event : spent'[e] >= spent[e]  BY <1>1, <2>6, <2>7
  <2>9. QED  BY <2>2, <2>3, <2>4, <2>5, <2>7, <2>8 DEF FlowOK
<1>4. QED  BY <1>2, <1>3 DEF Saved

-----------------------------------------------------------------------------
(* What a completed pass leaves for the transition.                        *)

LEMMA StandingFlow ==
  ASSUME Standing
  PROVE  /\ flow \in FlowSet /\ Routed(flow) /\ HasSlots(flow) /\ Grounded(flow, code)
         /\ code \in Nat /\ code <= code /\ flow.current \in Types /\ Cur \in Step
         /\ flow.steps \in [Types -> Step] /\ Len(flow.selected) \in Nat
<1>1. flow \in FlowSet /\ Routed(flow) /\ Grounded(flow, code) /\ code \in Nat
  BY DEF Standing, FlowOK
<1>2. code <= code  BY <1>1
<1>3. QED  BY <1>1, <1>2, CurrentTyped, FlowLengths DEF Routed, Cur, FlowSet

\* Another stash.
LEMMA StashValues ==
  ASSUME NEW f \in FlowSet, NEW s \in SUBSET Findings
  PROVE  LET g == [f EXCEPT !.stash = s] IN
         /\ g \in FlowSet /\ SamePlace(g, f) /\ SameRound(g, f) /\ SameLayers(g, f)
         /\ g.steps = f.steps /\ g.fixBaselines = f.fixBaselines /\ g.stash = s
<1> DEFINE B == Seq(Baseline)  S == Seq(Types)  H == [Types -> Step]
<1> HIDE DEF B, S, H
<1>1. QED  BY DEF FlowSet, SamePlace, SameRound, SameLayers, H, S, B, Rounds

\* Another round.
LEMMA ActiveValues ==
  ASSUME NEW f \in FlowSet, NEW a \in Round
  PROVE  LET g == [f EXCEPT !.active = a] IN
         /\ g \in FlowSet /\ SamePlace(g, f) /\ SameLayers(g, f)
         /\ g.steps = f.steps /\ g.fixBaselines = f.fixBaselines /\ g.stash = f.stash
         /\ g.active = a /\ g.forced = f.forced /\ g.closure = f.closure
         /\ g.covered = f.covered
<1> DEFINE B == Seq(Baseline)  S == Seq(Types)  H == [Types -> Step]  R == Rounds
<1>1. a \in R  BY DEF Rounds
<1> HIDE DEF B, S, H, R
<1>2. QED  BY <1>1 DEF FlowSet, SamePlace, SameLayers, H, S, B, R

LEMMA MirroredValues ==
  ASSUME flow \in FlowSet
  PROVE  /\ Mirrored \in FlowSet /\ SamePlace(Mirrored, flow) /\ SameRound(Mirrored, flow)
         /\ SameLayers(Mirrored, flow) /\ Mirrored.steps = flow.steps
         /\ Mirrored.fixBaselines = flow.fixBaselines
         /\ Mirrored.stash = IF Cur.wrote THEN Cur.deferred ELSE flow.stash
<1>1. CASE Cur.wrote
  <2>1. Cur.deferred \in SUBSET Findings  BY CurrentTyped DEF Cur, Step
  <2>2. Mirrored = [flow EXCEPT !.stash = Cur.deferred]  BY <1>1 DEF Mirrored
  <2>3. QED  BY <1>1, <2>1, <2>2, StashValues
<1>2. CASE ~Cur.wrote
  <2>1. Mirrored = flow  BY <1>2 DEF Mirrored
  <2>2. QED  BY <1>2, <2>1 DEF SamePlace, SameRound, SameLayers
<1>3. QED  BY <1>1, <1>2

\* The same slots and the same ground, whatever the stash, the steps and the mode.
LEMMA SlotsAndGround ==
  ASSUME NEW f, NEW g, NEW c, Grounded(f, c), HasSlots(f), g.selected = f.selected,
         g.fixBaselines = f.fixBaselines, g.covered = f.covered, SameLayers(g, f),
         g.active = NoRound \/ g.active = f.active
           \/ (f.active # NoRound /\ g.active.base = f.active.base)
  PROVE  Grounded(g, c) /\ HasSlots(g)
<1>1. HasSlots(g)  BY DEF HasSlots
<1>2. g.active # NoRound => g.active.base <= Len(g.fixBaselines)  BY DEF Grounded
<1>3. QED  BY <1>1, <1>2 DEF Grounded, SameLayers

LEMMA MirroredGround ==
  ASSUME Standing
  PROVE  Grounded(Mirrored, code) /\ HasSlots(Mirrored)
BY StandingFlow, MirroredValues, SlotsAndGround DEF SamePlace, SameRound

\* Another pass of the round that is active.
LEMMA AdvancePassValues ==
  ASSUME NEW f \in FlowSet
  PROVE  LET g == AdvancePass(f) IN
         /\ g \in FlowSet /\ SamePlace(g, f) /\ SameLayers(g, f)
         /\ g.steps = f.steps /\ g.fixBaselines = f.fixBaselines /\ g.stash = f.stash
         /\ g.forced = f.forced /\ g.closure = f.closure /\ g.covered = f.covered
         /\ f.active = NoRound => g.active = NoRound
         /\ f.active # NoRound =>
              /\ f.active \in Round /\ g.active \in Round
              /\ g.active.pass = f.active.pass + 1 /\ g.active.base = f.active.base
              /\ g.active.layer = f.active.layer /\ g.active.credit = f.active.credit
              /\ g.active.mode = f.active.mode
<1>1. CASE f.active = NoRound  BY <1>1 DEF AdvancePass, SamePlace, SameLayers
<1>2. CASE f.active # NoRound
  <2> DEFINE r == f.active  p == r.pass + 1  a == [r EXCEPT !.pass = p]
  <2>1. r \in Round  BY <1>2, NoRoundIsNone DEF FlowSet
  <2> HIDE DEF r
  <2>2. p \in Nat \ {0}  BY <2>1 DEF Round
  <2> HIDE DEF p
  <2>3. /\ a \in Round /\ a.pass = p /\ a.base = r.base /\ a.layer = r.layer
        /\ a.credit = r.credit /\ a.mode = r.mode  BY <2>1, <2>2 DEF Round
  <2>4. AdvancePass(f) = [f EXCEPT !.active = a]  BY <1>2 DEF AdvancePass, FlowSet, p, r
  <2> HIDE DEF a
  <2>5. QED  BY <1>2, <2>1, <2>3, <2>4, ActiveValues DEF p, r
<1>3. QED  BY <1>1, <1>2

LEMMA FlushTriedValues ==
  ASSUME NEW f \in FlowSet
  PROVE  LET g == FlushTried(f) IN
         /\ g \in FlowSet /\ SamePlace(g, f) /\ SameLayers(g, f)
         /\ g.steps = f.steps /\ g.fixBaselines = f.fixBaselines /\ g.stash = f.stash
         /\ g.forced = f.forced /\ g.closure = f.closure /\ g.covered = f.covered
         /\ f.active = NoRound => g.active = NoRound
         /\ f.active # NoRound =>
              /\ f.active \in Round /\ g.active \in Round
              /\ g.active.pass = f.active.pass /\ g.active.base = f.active.base
              /\ g.active.layer = f.active.layer /\ g.active.credit = f.active.credit
              /\ g.active.mode = f.active.mode
<1>1. CASE f.active = NoRound  BY <1>1 DEF FlushTried, SamePlace, SameLayers
<1>2. CASE f.active # NoRound
  <2> DEFINE r == f.active  a == [r EXCEPT !.flushTried = TRUE]
  <2>1. r \in Round  BY <1>2, NoRoundIsNone DEF FlowSet
  <2> HIDE DEF r
  <2>2. /\ a \in Round /\ a.pass = r.pass /\ a.base = r.base /\ a.layer = r.layer
        /\ a.credit = r.credit /\ a.mode = r.mode  BY <2>1 DEF Round
  <2>3. FlushTried(f) = [f EXCEPT !.active = a]  BY <1>2 DEF FlushTried, FlowSet, r
  <2> HIDE DEF a
  <2>4. QED  BY <1>2, <2>1, <2>2, <2>3, ActiveValues DEF r
<1>3. QED  BY <1>1, <1>2

\* The stash in the step and in the context.
LEMMA ReinjectValues ==
  ASSUME NEW f \in FlowSet, NEW s \in SUBSET Findings
  PROVE  LET g == Reinject(f, s) IN
         /\ g \in FlowSet /\ SamePlace(g, f) /\ SameRound(g, f) /\ SameLayers(g, f)
         /\ g.fixBaselines = f.fixBaselines /\ g.stash = s
         /\ g.steps["SELF_CHECK"] = [f.steps["SELF_CHECK"] EXCEPT !.stash = s]
         /\ \A u \in Types \ {"SELF_CHECK"} : g.steps[u] = f.steps[u]
<1> DEFINE t == "SELF_CHECK"  k == f.steps[t]  x == [k EXCEPT !.stash = s]
           h == [f EXCEPT !.stash = s]  g == Reinject(f, s)  F == SUBSET Findings
<1>1. t \in Types  BY DEF Types
<1>2. k \in Step  BY <1>1, CurrentTyped
<1>3. /\ h \in FlowSet /\ SamePlace(h, f) /\ SameRound(h, f) /\ SameLayers(h, f)
      /\ h.steps = f.steps /\ h.fixBaselines = f.fixBaselines /\ h.stash = s
  BY StashValues
<1>4. x \in Step
  <2>1. s \in F  OBVIOUS
  <2> HIDE DEF F, k
  <2>2. QED  BY <1>2, <2>1 DEF Step, F
<1>5. g = [h EXCEPT !.steps[t] = x]
  <2>1. g = [f EXCEPT !.stash = s, !.steps[t].stash = s]  BY DEF Reinject
  <2> HIDE DEF F
  <2>2. QED  BY <1>1, <2>1 DEF FlowSet
<1> HIDE DEF g, h, x, k
<1>6. /\ g \in FlowSet /\ SameButSteps(g, h) /\ g.steps[t] = x
      /\ \A u \in Types \ {t} : g.steps[u] = h.steps[u]
  BY <1>1, <1>3, <1>4, <1>5, StepValues
<1>7. QED
  BY <1>3, <1>6 DEF SameButSteps, SamePlace, SameReview, SameRound, SameLayers, g, x, k

\* A stash that was skipped over is findings to fix.
LEMMA RescuedValues ==
  ASSUME flow \in FlowSet
  PROVE  /\ Rescued \in FlowSet /\ SamePlace(Rescued, flow) /\ SameLayers(Rescued, flow)
         /\ Rescued.fixBaselines = flow.fixBaselines /\ Rescued.covered = flow.covered
         /\ Rescued.active = NoRound /\ Rescued.forced = flow.forced /\ Rescued.stash = {}
         /\ Rescued.steps["SELF_CHECK"] =
              [flow.steps["SELF_CHECK"] EXCEPT !.issues = Mirrored.stash, !.wrote = TRUE]
         /\ \A u \in Types \ {"SELF_CHECK"} : Rescued.steps[u] = flow.steps[u]
<1> DEFINE t == "SELF_CHECK"  m == Mirrored  k == flow.steps[t]
           x == [k EXCEPT !.issues = m.stash, !.wrote = TRUE]
           h == [m EXCEPT !.steps[t] = x]  e == {}
           j == [h EXCEPT !.stash = e]  g == MarkFindings(j)  F == SUBSET Findings
<1>1. /\ m \in FlowSet /\ SamePlace(m, flow) /\ SameRound(m, flow) /\ SameLayers(m, flow)
      /\ m.steps = flow.steps /\ m.fixBaselines = flow.fixBaselines  BY MirroredValues
<1> HIDE DEF m
<1>2. t \in Types /\ k \in Step /\ m.stash \in F  BY <1>1, CurrentTyped DEF Types, FlowSet
<1>3. x \in Step
  <2> HIDE DEF F, k
  <2> QED  BY <1>2 DEF Step, F
<1>4. [m EXCEPT !.steps[t].issues = m.stash, !.steps[t].wrote = TRUE, !.stash = {}] = j
  <2> DEFINE H == [m.steps EXCEPT ![t].issues = m.stash, ![t].wrote = TRUE]
             K == [m.steps EXCEPT ![t].issues = m.stash]  L == [m.steps EXCEPT ![t] = x]
  <2>1. m.steps \in [Types -> Step] /\ m.steps[t] = k  BY <1>1 DEF FlowSet
  <2>2. K[t] = [k EXCEPT !.issues = m.stash]  BY <1>2, <2>1
  <2>3. x = [K[t] EXCEPT !.wrote = TRUE]  BY <2>2
  <2> HIDE DEF x, k
  <2>4. H = L  BY <1>2, <2>1, <2>3
  <2> DEFINE A == [m EXCEPT !.steps[t].issues = m.stash, !.steps[t].wrote = TRUE]
  <2>5. A = [m EXCEPT !.steps = H]  BY <1>1 DEF FlowSet
  <2>6. h = [m EXCEPT !.steps = L]  BY <1>1 DEF FlowSet
  <2>7. A = h  BY ONLY <2>4, <2>5, <2>6
  <2>8. [m EXCEPT !.steps[t].issues = m.stash, !.steps[t].wrote = TRUE, !.stash = {}]
        = [A EXCEPT !.stash = {}]
    OBVIOUS
  <2> HIDE DEF A, h
  <2>9. QED  BY ONLY <2>7, <2>8
<1>5. Rescued = g  BY <1>4 DEF Rescued, m
<1> HIDE DEF x, k, h, j, e
<1>6. /\ h \in FlowSet /\ SameButSteps(h, m) /\ h.steps[t] = x
      /\ \A u \in Types \ {t} : h.steps[u] = m.steps[u]
  BY <1>1, <1>2, <1>3, StepValues DEF h
<1>7. /\ j \in FlowSet /\ SamePlace(j, h) /\ SameRound(j, h) /\ SameLayers(j, h)
      /\ j.steps = h.steps /\ j.fixBaselines = h.fixBaselines /\ j.stash = e
  <2>1. e \in SUBSET Findings  BY DEF e
  <2>2. QED  BY <1>6, <2>1, StashValues DEF j
<1> HIDE DEF g
<1>8. /\ g \in FlowSet /\ SamePlace(g, j) /\ SameLayers(g, j) /\ g.steps = j.steps
      /\ g.active = NoRound /\ g.forced = j.forced
      /\ g.fixBaselines = j.fixBaselines /\ g.stash = j.stash /\ g.covered = j.covered
  BY <1>7, MarkFindingsValues DEF g
<1>9. SamePlace(g, flow) /\ SameLayers(g, flow) /\ g.fixBaselines = flow.fixBaselines
      /\ g.covered = flow.covered /\ g.forced = flow.forced  BY <1>1, <1>6, <1>7, <1>8
     DEF SamePlace, SameLayers, SameRound, SameReview, SameButSteps
<1>10. g.stash = {} /\ g.steps[t] = x /\ \A u \in Types \ {t} : g.steps[u] = flow.steps[u]
  BY <1>1, <1>6, <1>7, <1>8 DEF e
<1>11. QED  BY <1>5, <1>8, <1>9, <1>10 DEF x, k, m

LEMMA RescuedGround ==
  ASSUME Standing
  PROVE  Grounded(Rescued, code) /\ HasSlots(Rescued)
BY StandingFlow, RescuedValues, SlotsAndGround DEF SamePlace

\* What normal progression leaves: a round that is over, the skip accounted for.
LEMMA DepartedValues ==
  ASSUME flow \in FlowSet
  PROVE  /\ Departed \in FlowSet /\ SamePlace(Departed, flow) /\ SameLayers(Departed, flow)
         /\ Departed.fixBaselines = flow.fixBaselines /\ Departed.covered = flow.covered
         /\ Departed.forced = flow.forced
         /\ Departed.active = NoRound \/ Departed.active = flow.active
         /\ flow.current = "SELF_CHECK" => Departed.active = NoRound
         /\ Departed.steps[flow.current] = [Cur EXCEPT !.skipped = FALSE]
         /\ \A u \in Types \ {flow.current} : Departed.steps[u] = flow.steps[u]
         /\ Departed.stash = IF flow.current = "SELF_CHECK" THEN Mirrored.stash ELSE flow.stash
         /\ flow.current # "SELF_CHECK" => SameRound(Departed, flow)
<1> DEFINE m == Mirrored  h == IF flow.current = "SELF_CHECK" THEN CompleteClean(m) ELSE flow
           s == [Cur EXCEPT !.skipped = FALSE]
<1>1. flow.current \in Types /\ Cur \in Step  BY CurrentTyped DEF Cur
<1>2. s \in Step
  <2> DEFINE F == SUBSET Findings
  <2> HIDE DEF F
  <2> QED  BY <1>1 DEF Step, F
<1>3. /\ h \in FlowSet /\ SamePlace(h, flow) /\ SameLayers(h, flow) /\ h.steps = flow.steps
      /\ h.fixBaselines = flow.fixBaselines /\ h.covered = flow.covered
      /\ h.forced = flow.forced
      /\ h.active = NoRound \/ h.active = flow.active
      /\ flow.current = "SELF_CHECK" => h.active = NoRound
      /\ h.stash = IF flow.current = "SELF_CHECK" THEN m.stash ELSE flow.stash
      /\ flow.current # "SELF_CHECK" => SameRound(h, flow)
  <2>1. CASE flow.current = "SELF_CHECK"
    <3>1. h = CompleteClean(m)  BY <2>1
    <3>2. /\ m \in FlowSet /\ SamePlace(m, flow) /\ SameRound(m, flow) /\ SameLayers(m, flow)
          /\ m.steps = flow.steps /\ m.fixBaselines = flow.fixBaselines  BY MirroredValues
    <3> HIDE DEF m, h
    <3>3. /\ h \in FlowSet /\ SamePlace(h, m) /\ SameLayers(h, m) /\ h.steps = m.steps
          /\ h.active = NoRound /\ h.forced = m.forced
          /\ h.fixBaselines = m.fixBaselines /\ h.covered = m.covered /\ h.stash = m.stash
      BY <3>1, <3>2, CompleteCleanValues
    <3>4. QED  BY <2>1, <3>2, <3>3 DEF SamePlace, SameLayers, SameRound
  <2>2. CASE flow.current # "SELF_CHECK"  BY <2>2 DEF SamePlace, SameLayers, SameRound
  <2>3. QED  BY <2>1, <2>2
<1>4. Departed = [h EXCEPT !.steps[flow.current].skipped = FALSE]  BY DEF Departed
<1> HIDE DEF h
<1>5. h.steps \in [Types -> Step] /\ h.steps[flow.current] = Cur  BY <1>3 DEF FlowSet, Cur
<1>6. Departed = [h EXCEPT !.steps[flow.current] = s]  BY <1>1, <1>3, <1>4, <1>5 DEF FlowSet
<1> HIDE DEF s
<1>7. /\ Departed \in FlowSet /\ SameButSteps(Departed, h) /\ Departed.steps[flow.current] = s
      /\ \A u \in Types \ {flow.current} : Departed.steps[u] = h.steps[u]
  BY <1>1, <1>2, <1>3, <1>6, StepValues
<1>8. /\ SamePlace(Departed, flow) /\ SameLayers(Departed, flow)
      /\ Departed.fixBaselines = flow.fixBaselines /\ Departed.covered = flow.covered
      /\ Departed.forced = flow.forced /\ Departed.active = h.active
  BY <1>3, <1>7 DEF SamePlace, SameLayers, SameRound, SameReview, SameButSteps
<1>9. /\ Departed.stash = IF flow.current = "SELF_CHECK" THEN Mirrored.stash ELSE flow.stash
      /\ flow.current # "SELF_CHECK" => SameRound(Departed, flow)
  BY <1>3, <1>7 DEF SameButSteps, SameReview, SameRound, m
<1>10. QED  BY <1>3, <1>7, <1>8, <1>9 DEF s

LEMMA DepartedGround ==
  ASSUME Standing
  PROVE  Grounded(Departed, code) /\ HasSlots(Departed)
BY StandingFlow, DepartedValues, SlotsAndGround DEF SamePlace

-----------------------------------------------------------------------------
(* The transitions, each up to its save.                                   *)

LEMMA MarkedValues ==
  ASSUME Standing
  PROVE  /\ Marked \in FlowSet /\ SamePlace(Marked, flow) /\ SameLayers(Marked, flow)
         /\ Marked.steps = flow.steps /\ Marked.stash = flow.stash
         /\ Marked.forced = flow.forced /\ Marked.fixBaselines = flow.fixBaselines
         /\ Marked.covered = flow.covered
         /\ flow.current = "SELF_CHECK" => Marked.active = NoRound
         /\ flow.current # "SELF_CHECK" => Marked.active = flow.active
         /\ Grounded(Marked, code) /\ HasSlots(Marked) /\ Routed(Marked)
<1>1. flow \in FlowSet /\ Grounded(flow, code) /\ HasSlots(flow) /\ Routed(flow)
  BY StandingFlow
<1>2. CASE flow.current = "SELF_CHECK"
  <2> DEFINE g == MarkFindings(flow)
  <2>1. Marked = g  BY <1>2 DEF Marked
  <2>2. /\ g \in FlowSet /\ SamePlace(g, flow) /\ SameLayers(g, flow) /\ g.steps = flow.steps
        /\ g.active = NoRound /\ g.forced = flow.forced
        /\ g.fixBaselines = flow.fixBaselines /\ g.stash = flow.stash
        /\ g.covered = flow.covered  BY <1>1, MarkFindingsValues
  <2> HIDE DEF g
  <2>3. Grounded(g, code) /\ HasSlots(g)  BY <1>1, <2>2, SlotsAndGround DEF SamePlace
  <2>4. Routed(g)  BY <1>1, <2>2, <2>3 DEF Routed, SamePlace
  <2>5. QED  BY <1>2, <2>1, <2>2, <2>3, <2>4
<1>3. CASE flow.current # "SELF_CHECK"  BY <1>1, <1>3 DEF Marked, SamePlace, SameLayers
<1>4. QED  BY <1>2, <1>3

LEMMA LoopToFixDoes ==
  ASSUME Standing, NEW a \in BOOLEAN, LoopToFix(a)
  PROVE  LET f == ToFix(Marked, a) IN
         /\ flow.status = "running" /\ Cur.status = "revision"
         /\ flow.current \in Gates \cup {"SELF_CHECK"}
         /\ FlowOK(f, code) /\ AtFix(f, Marked) /\ Saved(f, flow.steps) /\ open' \subseteq open
         /\ ~Exhausted
<1>1. /\ flow.status = "running" /\ Cur.status = "revision"
      /\ flow.current \in Gates \cup {"SELF_CHECK"} /\ ~Exhausted
      /\ Save(ToFix(Marked, a), flow.steps, Cur.issues)  BY DEF LoopToFix, Leaving, Marked
<1>2. FlowOK(ToFix(Marked, a), code) /\ AtFix(ToFix(Marked, a), Marked)
  BY StandingFlow, MarkedValues, ToFixValues
<1>3. QED  BY <1>1, <1>2, SaveDoes

LEMMA RescueToFixDoes ==
  ASSUME Standing, NEW a \in BOOLEAN, RescueToFix(a)
  PROVE  LET f == ToFix(Rescued, a) IN
         /\ RescueDue
         /\ FlowOK(f, code) /\ AtFix(f, Rescued) /\ Saved(f, Rescued.steps)
         /\ open' \subseteq open
<1>1. RescueDue /\ Save(ToFix(Rescued, a), Rescued.steps, Mirrored.stash)
  BY DEF RescueToFix
<1>2. FlowOK(ToFix(Rescued, a), code) /\ AtFix(ToFix(Rescued, a), Rescued)
  BY StandingFlow, RescuedValues, RescuedGround, ToFixValues
<1>3. QED  BY <1>1, <1>2, SaveDoes

LEMMA ToAdjudicateValues ==
  ASSUME NEW f \in FlowSet, NEW c, Grounded(f, c), Routed(f)
  PROVE  LET g == ToAdjudicate(f) IN
         /\ FlowOK(g, c)
         /\ \E at \in 1..Len(f.selected) :
              /\ f.selected[at] = "SELF_CHECK"
              /\ AtInserted(g, f, at, "ADJUDICATE",
                            [NewStep EXCEPT !.issues = f.steps["SELF_CHECK"].issues])
<1> DEFINE t == "ADJUDICATE"  sc == "SELF_CHECK"  n == Len(f.selected)
           at == IF f.index <= n /\ f.selected[f.index] = sc THEN f.index ELSE IndexOf(f, sc)
           s == [NewStep EXCEPT !.issues = f.steps[sc].issues]
           g == Enter([f EXCEPT !.selected = InsertAt(@, at, t)], t, at, s)
<1>1. n \in Nat /\ t \in Types /\ sc \in Types /\ f.steps[sc] \in Step
  BY FlowLengths, CurrentTyped DEF Types, Dynamic
<1>2. at \in 1..n /\ f.selected[at] = sc
  <2>1. CASE f.index <= n /\ f.selected[f.index] = sc  BY <1>1, <2>1 DEF Routed
  <2>2. CASE ~(f.index <= n /\ f.selected[f.index] = sc)
    <3> DEFINE i == IndexOf(f, sc)
    <3>1. at = i  BY <2>2
    <3>2. /\ i \in 0..n /\ (i > 0 => f.selected[i] = sc)
          /\ \A j \in 1..n : f.selected[j] = sc => i > 0 /\ i <= j  BY <1>1, Places
    <3>3. \E j \in 1..n : f.selected[j] = sc  BY DEF Routed, HasSlots
    <3> HIDE DEF i, at
    <3>4. QED  BY <1>1, <3>1, <3>2, <3>3
  <2>3. QED  BY <2>1, <2>2
<1>3. s \in Step
  <2> DEFINE i == f.steps[sc].issues  F == SUBSET Findings
  <2>1. i \in F  BY <1>1 DEF Step
  <2> HIDE DEF i, F
  <2>2. NewStep \in Step  BY NewStepTyped
  <2>3. QED  BY <2>1, <2>2 DEF Step, F, i
<1>4. at \in 1..(n + 1)
  <2> HIDE DEF at
  <2> QED  BY <1>1, <1>2
<1>5. ToAdjudicate(f) = g  BY DEF ToAdjudicate
<1> HIDE DEF at, s
<1>6. AtInserted(g, f, at, t, s)  BY <1>1, <1>3, <1>4, InsertedValues
<1> HIDE DEF g
<1>7. FlowOK(f, c)  BY DEF FlowOK
<1>8. FlowOK(g, c)  BY <1>4, <1>6, <1>7, InsertedRouted
<1>9. QED  BY <1>2, <1>5, <1>6, <1>8 DEF s

LEMMA LoopToAdjudicateDoes ==
  ASSUME Standing, LoopToAdjudicate
  PROVE  LET f == ToAdjudicate(Marked) IN
         /\ flow.status = "running" /\ flow.current = "SELF_CHECK" /\ Cur.status = "revision"
         /\ FlowOK(f, code) /\ Saved(f, flow.steps) /\ open' \subseteq open
         /\ \E at \in 1..Len(flow.selected) :
              flow.selected[at] = "SELF_CHECK" /\ AtInserted(f, Marked, at, "ADJUDICATE", Ruling(Marked))
<1> DEFINE f == ToAdjudicate(Marked)
<1>1. /\ flow.status = "running" /\ Cur.status = "revision" /\ flow.current = "SELF_CHECK"
      /\ Save(f, flow.steps, {})  BY DEF LoopToAdjudicate, Leaving, Marked
<1>2. Marked.selected = flow.selected  BY MarkedValues DEF SamePlace
<1>3. /\ FlowOK(f, code)
      /\ \E at \in 1..Len(Marked.selected) :
           /\ Marked.selected[at] = "SELF_CHECK"
           /\ AtInserted(f, Marked, at, "ADJUDICATE", Ruling(Marked))
  BY MarkedValues, ToAdjudicateValues DEF Ruling
<1> HIDE DEF f
<1>4. QED  BY <1>1, <1>2, <1>3, SaveDoes DEF f

LEMMA RescueToAdjudicateDoes ==
  ASSUME Standing, RescueToAdjudicate
  PROVE  LET f == ToAdjudicate(Rescued) IN
         /\ RescueDue
         /\ FlowOK(f, code) /\ Saved(f, Rescued.steps) /\ open' \subseteq open
         /\ \E at \in 1..Len(flow.selected) :
              flow.selected[at] = "SELF_CHECK" /\ AtInserted(f, Rescued, at, "ADJUDICATE", Ruling(Rescued))
<1> DEFINE f == ToAdjudicate(Rescued)
<1>1. RescueDue /\ Save(f, Rescued.steps, {})  BY DEF RescueToAdjudicate
<1>2. /\ Rescued.selected = flow.selected /\ Rescued \in FlowSet /\ Grounded(Rescued, code)
      /\ Routed(Rescued)
  BY StandingFlow, RescuedValues, RescuedGround DEF SamePlace, Routed
<1>3. /\ FlowOK(f, code)
      /\ \E at \in 1..Len(Rescued.selected) :
           /\ Rescued.selected[at] = "SELF_CHECK"
           /\ AtInserted(f, Rescued, at, "ADJUDICATE", Ruling(Rescued))
  BY <1>2, ToAdjudicateValues DEF Ruling
<1> HIDE DEF f
<1>4. QED  BY <1>1, <1>2, <1>3, SaveDoes DEF f

LEMMA UnsplicedValues ==
  ASSUME Standing
  PROVE  /\ Unspliced \in FlowSet /\ Grounded(Unspliced, code) /\ HasSlots(Unspliced)
         /\ SameReview(Unspliced, flow)
         /\ Unspliced.selected = StripAdjudicateRun(flow).selected
         /\ Unspliced.selected \in Seq(Types)
         /\ Unspliced.index = flow.index /\ Unspliced.current = flow.current
         /\ Unspliced.newest = flow.newest /\ Unspliced.reviews = flow.reviews
         /\ Unspliced.status = flow.status /\ Unspliced.steps = flow.steps
         /\ Unspliced.fixes = flow.fixes
         /\ StripAdjudicateRun(flow).selfCheck \in 1..Len(Unspliced.selected)
<1>1. FlowOK(flow, code) /\ flow \in FlowSet  BY DEF Standing, FlowOK
<1> DEFINE q == StripAdjudicateRun(flow).selected
<1>2. /\ q \in Seq(Types) /\ StripAdjudicateRun(flow).selfCheck \in 1..Len(q)
      /\ Unspliced \in FlowSet /\ Grounded(Unspliced, code) /\ HasSlots(Unspliced)
  BY <1>1, StripOK DEF Unspliced
<1>3. Unspliced = [flow EXCEPT !.selected = q]  BY DEF Unspliced
<1> HIDE DEF q
<1>4. /\ SameReview(Unspliced, flow) /\ Unspliced.selected = q
      /\ Unspliced.index = flow.index /\ Unspliced.current = flow.current
      /\ Unspliced.newest = flow.newest /\ Unspliced.reviews = flow.reviews
      /\ Unspliced.status = flow.status /\ Unspliced.steps = flow.steps
      /\ Unspliced.fixes = flow.fixes  BY <1>1, <1>2, <1>3, SequenceValues
<1>5. QED  BY <1>2, <1>4 DEF q

LEMMA PassThroughRulingDoes ==
  ASSUME Standing, NEW a \in BOOLEAN, PassThroughRuling(a)
  PROVE  LET f == ToFix(Unspliced, a) IN
         /\ flow.status = "running" /\ flow.current = "ADJUDICATE" /\ Cur.status = "completed"
         /\ FlowOK(f, code) /\ AtFix(f, Unspliced) /\ Saved(f, flow.steps)
         /\ open' \subseteq open
<1>1. /\ flow.status = "running" /\ flow.current = "ADJUDICATE" /\ Cur.status = "completed"
      /\ Save(ToFix(Unspliced, a), flow.steps, flow.steps["SELF_CHECK"].issues)
  BY DEF PassThroughRuling, Leaving, Unspliced
<1>2. FlowOK(ToFix(Unspliced, a), code) /\ AtFix(ToFix(Unspliced, a), Unspliced)
  BY StandingFlow, UnsplicedValues, ToFixValues
<1>3. QED  BY <1>1, <1>2, SaveDoes

\* The step a CONFIRM reviews.
LEMMA ReviewsValues ==
  ASSUME NEW f \in FlowSet, NEW t \in Types
  PROVE  LET g == [f EXCEPT !.reviews = t] IN
         /\ g \in FlowSet /\ SameReview(g, f) /\ g.selected = f.selected
         /\ g.index = f.index /\ g.current = f.current /\ g.newest = f.newest
         /\ g.reviews = t /\ g.status = f.status /\ g.steps = f.steps
         /\ g.fixes = f.fixes
<1> DEFINE B == Seq(Baseline)  S == Seq(Types)  H == [Types -> Step]
<1> HIDE DEF B, S, H
<1>1. QED  BY DEF FlowSet, SameReview, SameRound, SameLayers, H, S, B, Rounds

LEMMA ConfirmRulingDoes ==
  ASSUME Standing, ConfirmRuling
  PROVE  /\ flow.status = "running" /\ flow.current = "ADJUDICATE" /\ Cur.status = "completed"
         /\ NeedsConfirm /\ flow.index \in 1..Len(flow.selected)
         /\ FlowOK(ToConfirm, code) /\ Saved(ToConfirm, flow.steps) /\ open' \subseteq open
         /\ \E g : /\ AtInserted(g, flow, flow.index + 1, "CONFIRM", NewStep)
                   /\ SameReview(ToConfirm, g) /\ ToConfirm.selected = g.selected
                   /\ ToConfirm.index = g.index /\ ToConfirm.current = g.current
                   /\ ToConfirm.newest = g.newest /\ ToConfirm.reviews = flow.newest
                   /\ ToConfirm.status = g.status /\ ToConfirm.steps = g.steps
                   /\ ToConfirm.fixes = g.fixes
<1> DEFINE i == flow.index + 1  t == "CONFIRM"
           g == Enter([flow EXCEPT !.selected = InsertAt(@, i, t)], t, i, NewStep)
<1>1. /\ flow.status = "running" /\ flow.current = "ADJUDICATE" /\ Cur.status = "completed"
      /\ NeedsConfirm /\ Save(ToConfirm, flow.steps, {})
  BY DEF ConfirmRuling, Leaving, ToConfirm
<1>2. flow \in FlowSet /\ Routed(flow) /\ Len(flow.selected) \in Nat  BY StandingFlow
<1>3. flow.index \in 1..Len(flow.selected)  BY <1>1, <1>2 DEF Routed
<1>4. i \in 1..(Len(flow.selected) + 1)  BY <1>2, <1>3
<1>5. t \in Types /\ NewStep \in Step /\ flow.newest \in Types
  BY <1>2, NewStepTyped, CurrentTyped DEF Types, Dynamic
<1> HIDE DEF i
<1>6. AtInserted(g, flow, i, t, NewStep)  BY <1>2, <1>4, <1>5, InsertedValues
<1>7. ToConfirm = [g EXCEPT !.reviews = flow.newest]  BY DEF ToConfirm, i
<1> HIDE DEF g
<1>8. FlowOK(g, code)  BY <1>4, <1>6, InsertedRouted DEF Standing
<1>9. g \in FlowSet  BY <1>8 DEF FlowOK
<1>10. /\ ToConfirm \in FlowSet /\ SameReview(ToConfirm, g) /\ ToConfirm.selected = g.selected
       /\ ToConfirm.index = g.index /\ ToConfirm.current = g.current
       /\ ToConfirm.newest = g.newest /\ ToConfirm.reviews = flow.newest
       /\ ToConfirm.status = g.status /\ ToConfirm.steps = g.steps
       /\ ToConfirm.fixes = g.fixes  BY <1>5, <1>7, <1>9, ReviewsValues
<1>11. FlowOK(ToConfirm, code)
  BY <1>8, <1>10 DEF FlowOK, Routed, HasSlots, Grounded, SameReview, SameRound, SameLayers
<1>12. Saved(ToConfirm, flow.steps) /\ open' \subseteq open  BY <1>1, SaveDoes
<1>13. QED  BY <1>1, <1>3, <1>6, <1>10, <1>11, <1>12 DEF i

LEMMA LandedValues ==
  ASSUME Standing
  PROVE  /\ Landed \in FlowSet /\ Grounded(Landed, code) /\ HasSlots(Landed)
         /\ SameLayers(Landed, flow) /\ Landed.selected = Unspliced.selected
         /\ Landed.reviews = flow.reviews /\ Landed.status = flow.status
         /\ Landed.active = NoRound /\ Landed.stash = flow.stash
         /\ Landed.forced = TRUE /\ Landed.fixes = flow.fixes + 1
         /\ Landed.fixBaselines = flow.fixBaselines /\ Landed.covered = flow.covered
<1> DEFINE u == Unspliced  h == [u EXCEPT !.fixes = @ + 1]  g == ForceFull(h)
<1>1. /\ u \in FlowSet /\ Grounded(u, code) /\ HasSlots(u) /\ SameReview(u, flow)
      /\ u.reviews = flow.reviews /\ u.status = flow.status /\ u.fixes = flow.fixes
  BY UnsplicedValues
<1>2. h = [flow EXCEPT !.selected = StripAdjudicateRun(flow).selected, !.fixes = @ + 1]
  BY DEF Unspliced, FlowSet
<1>3. Landed = g  BY <1>2 DEF Landed
<1> HIDE DEF u, h, g
<1>4. /\ h \in FlowSet /\ SameReview(h, u) /\ h.selected = u.selected /\ h.reviews = u.reviews
      /\ h.status = u.status /\ h.fixes = u.fixes + 1  BY <1>1, FixesValues DEF h
<1>5. /\ g \in FlowSet /\ SamePlace(g, h) /\ SameLayers(g, h)
      /\ g.active = NoRound /\ g.fixBaselines = h.fixBaselines /\ g.stash = h.stash
      /\ g.covered = h.covered /\ g.forced = TRUE  BY <1>4, ForceFullValues DEF g
<1>6. Grounded(g, code) /\ HasSlots(g)
  <2>1. SameLayers(g, u) /\ g.selected = u.selected /\ g.fixBaselines = u.fixBaselines
        /\ g.covered = u.covered
    BY <1>4, <1>5 DEF SameLayers, SamePlace, SameReview, SameRound
  <2>2. QED  BY <1>1, <1>5, <2>1, SlotsAndGround
<1>7. SameLayers(g, flow) /\ g.selected = u.selected /\ g.stash = flow.stash
      /\ g.reviews = flow.reviews /\ g.status = flow.status /\ g.fixes = flow.fixes + 1
      /\ g.fixBaselines = flow.fixBaselines /\ g.covered = flow.covered
  BY <1>1, <1>4, <1>5 DEF SameLayers, SamePlace, SameReview, SameRound
<1>8. QED  BY <1>3, <1>5, <1>6, <1>7 DEF u

LEMMA LandRulingDoes ==
  ASSUME Standing, NEW a \in BOOLEAN, LandRuling(a)
  PROVE  LET i == StripAdjudicateRun(flow).selfCheck
             f == EnterSelfCheck(Landed, i, a)
         IN /\ RulingStands /\ FlowOK(f, code) /\ EnteredSelfCheck(f, Landed, i)
            /\ Saved(f, flow.steps) /\ open' \subseteq open
<1> DEFINE i == StripAdjudicateRun(flow).selfCheck  f == EnterSelfCheck(Landed, i, a)
<1>1. RulingStands /\ Save(f, flow.steps, flow.steps["ADJUDICATE"].issues)
  BY DEF LandRuling, Landed
<1>2. i \in 1..Len(Landed.selected)  BY LandedValues, UnsplicedValues
<1>3. i \in Nat  BY <1>2
<1> HIDE DEF i
<1>4. FlowOK(f, code) /\ EnteredSelfCheck(f, Landed, i)
  BY <1>2, <1>3, LandedValues, EnterSelfCheckOK, EnterSelfCheckValues
<1> HIDE DEF f
<1>5. QED  BY <1>1, <1>4, SaveDoes DEF f, i

\* Where SELF_CHECK is in a sequence that has one.
LEMMA SelfCheckPlace ==
  ASSUME NEW f \in FlowSet, HasSlots(f), NEW t \in {"IMPLEMENT", "SELF_CHECK"}
  PROVE  /\ IndexOf(f, t) \in 1..Len(f.selected) /\ f.selected[IndexOf(f, t)] = t
         /\ \A j \in 1..Len(f.selected) : f.selected[j] = t => IndexOf(f, t) <= j
<1> DEFINE i == IndexOf(f, t)  n == Len(f.selected)
<1>1. n \in Nat  BY FlowLengths
<1>2. /\ i \in 0..n /\ (i > 0 => f.selected[i] = t)
      /\ \A j \in 1..n : f.selected[j] = t => i > 0 /\ i <= j  BY <1>1, Places
<1>3. \E j \in 1..n : f.selected[j] = t  BY DEF HasSlots
<1> HIDE DEF i, n
<1>4. i \in 1..n /\ f.selected[i] = t  BY <1>1, <1>2, <1>3
<1>5. QED  BY <1>2, <1>4 DEF i, n

LEMMA ReflowDoes ==
  ASSUME Standing, NEW a \in BOOLEAN, Reflow(a)
  PROVE  LET i == IndexOf(flow, "SELF_CHECK")
             f == EnterSelfCheck(flow, i, a)
         IN /\ flow.status = "running" /\ Cur.status = "completed"
            /\ flow.current \notin {"SELF_CHECK", "ADJUDICATE"}
            /\ i \in 1..Len(flow.selected) /\ flow.selected[i] = "SELF_CHECK"
            /\ FlowOK(f, code) /\ EnteredSelfCheck(f, flow, i)
            /\ Saved(f, flow.steps) /\ open' \subseteq open
<1> DEFINE i == IndexOf(flow, "SELF_CHECK")  f == EnterSelfCheck(flow, i, a)
<1>1. /\ flow.status = "running" /\ Cur.status = "completed"
      /\ flow.current \notin {"SELF_CHECK", "ADJUDICATE"} /\ Save(f, flow.steps, {})
  BY DEF Reflow, Leaving, ReflowDue
<1>2. i \in 1..Len(flow.selected) /\ flow.selected[i] = "SELF_CHECK"
  BY StandingFlow, SelfCheckPlace
<1>3. i \in Nat  BY <1>2
<1> HIDE DEF i
<1>4. FlowOK(f, code) /\ EnteredSelfCheck(f, flow, i)
  BY <1>2, <1>3, StandingFlow, EnterSelfCheckOK, EnterSelfCheckValues
<1> HIDE DEF f
<1>5. QED  BY <1>1, <1>2, <1>4, SaveDoes DEF f, i

\* The slot of the step in force.
LEMMA RunningIndex ==
  ASSUME Standing, flow.status = "running"
  PROVE  flow.index \in 1..Len(flow.selected) /\ flow.index \in Nat
BY StandingFlow DEF Routed

LEMMA RepeatPassDoes ==
  ASSUME Standing, NEW a \in BOOLEAN, RepeatPass(a)
  PROVE  LET h == AdvancePass(Mirrored)
             f == EnterSelfCheck(h, flow.index, a)
         IN /\ flow.status = "running" /\ flow.current = "SELF_CHECK"
            /\ Cur.status = "completed" /\ Cur.pass < Passes
            /\ FlowOK(f, code) /\ EnteredSelfCheck(f, h, flow.index)
            /\ h.selected = flow.selected /\ SameLayers(h, flow) /\ h.status = flow.status
            /\ Saved(f, flow.steps) /\ open' \subseteq open
<1> DEFINE h == AdvancePass(Mirrored)  f == EnterSelfCheck(h, flow.index, a)
<1>1. /\ flow.status = "running" /\ flow.current = "SELF_CHECK" /\ Cur.status = "completed"
      /\ Cur.pass < Passes /\ Save(f, flow.steps, {})  BY DEF RepeatPass, Leaving
<1>2. flow.index \in 1..Len(flow.selected) /\ flow.index \in Nat  BY <1>1, RunningIndex
<1>3. /\ Mirrored \in FlowSet /\ SamePlace(Mirrored, flow) /\ SameLayers(Mirrored, flow)
      /\ Grounded(Mirrored, code) /\ HasSlots(Mirrored)
  BY StandingFlow, MirroredValues, MirroredGround
<1>4. /\ h \in FlowSet /\ SamePlace(h, Mirrored) /\ SameLayers(h, Mirrored)
      /\ h.fixBaselines = Mirrored.fixBaselines /\ h.covered = Mirrored.covered
      /\ h.active = NoRound \/ (Mirrored.active # NoRound /\ h.active.base = Mirrored.active.base)
  BY <1>3, AdvancePassValues
<1> HIDE DEF h
<1>5. Grounded(h, code) /\ HasSlots(h)  BY <1>3, <1>4, SlotsAndGround DEF SamePlace
<1>6. h.selected = flow.selected /\ SameLayers(h, flow) /\ h.status = flow.status
  BY <1>3, <1>4 DEF SamePlace, SameLayers
<1>7. FlowOK(f, code) /\ EnteredSelfCheck(f, h, flow.index)
  BY <1>2, <1>4, <1>5, <1>6, EnterSelfCheckOK, EnterSelfCheckValues
<1> HIDE DEF f
<1>8. QED  BY <1>1, <1>6, <1>7, SaveDoes DEF f, h

LEMMA CloseDoes ==
  ASSUME Standing, NEW a \in BOOLEAN, CloseWithFullRound(a)
  PROVE  LET h == CompleteClean(Mirrored)
             f == EnterSelfCheck(h, flow.index, a)
         IN /\ flow.status = "running" /\ flow.current = "SELF_CHECK"
            /\ FlowOK(f, code) /\ EnteredSelfCheck(f, h, flow.index)
            /\ h.selected = flow.selected /\ SameLayers(h, flow) /\ h.status = flow.status
            /\ h.active = NoRound
            /\ Saved(f, flow.steps) /\ open' \subseteq open
<1> DEFINE h == CompleteClean(Mirrored)  f == EnterSelfCheck(h, flow.index, a)
<1>1. /\ flow.status = "running" /\ flow.current = "SELF_CHECK"
      /\ Save(f, flow.steps, {})  BY DEF CloseWithFullRound, RoundOver, Leaving
<1>2. flow.index \in 1..Len(flow.selected) /\ flow.index \in Nat  BY <1>1, RunningIndex
<1>3. /\ Mirrored \in FlowSet /\ SamePlace(Mirrored, flow) /\ SameLayers(Mirrored, flow)
      /\ Grounded(Mirrored, code) /\ HasSlots(Mirrored)
  BY StandingFlow, MirroredValues, MirroredGround
<1>4. /\ h \in FlowSet /\ SamePlace(h, Mirrored) /\ SameLayers(h, Mirrored)
      /\ h.fixBaselines = Mirrored.fixBaselines /\ h.covered = Mirrored.covered
      /\ h.active = NoRound  BY <1>3, CompleteCleanValues
<1> HIDE DEF h
<1>5. Grounded(h, code) /\ HasSlots(h)  BY <1>3, <1>4, SlotsAndGround DEF SamePlace
<1>6. h.selected = flow.selected /\ SameLayers(h, flow) /\ h.status = flow.status
  BY <1>3, <1>4 DEF SamePlace, SameLayers
<1>7. FlowOK(f, code) /\ EnteredSelfCheck(f, h, flow.index)
  BY <1>2, <1>4, <1>5, <1>6, EnterSelfCheckOK, EnterSelfCheckValues
<1> HIDE DEF f
<1>8. QED  BY <1>1, <1>4, <1>6, <1>7, SaveDoes DEF f, h

LEMMA RescuePassDoes ==
  ASSUME Standing, NEW a \in BOOLEAN, RescuePass(a)
  PROVE  LET h == FlushTried(Mirrored)
             g == EnterSelfCheck(h, flow.index, a)
             f == Reinject(g, Mirrored.stash)
         IN /\ flow.status = "running" /\ flow.current = "SELF_CHECK"
            /\ Cur.status = "completed" /\ Cur.pass >= Passes /\ Unflushed
            /\ FlowOK(f, code) /\ EnteredSelfCheck(g, h, flow.index)
            /\ SamePlace(f, g) /\ SameRound(f, g) /\ SameLayers(f, g)
            /\ f.stash = Mirrored.stash
            /\ f.steps["SELF_CHECK"] = [g.steps["SELF_CHECK"] EXCEPT !.stash = Mirrored.stash]
            /\ h.selected = flow.selected /\ SameLayers(h, flow) /\ h.status = flow.status
            /\ Saved(f, flow.steps) /\ open' \subseteq open
<1> DEFINE h == FlushTried(Mirrored)  g == EnterSelfCheck(h, flow.index, a)
           f == Reinject(g, Mirrored.stash)
<1>1. /\ flow.status = "running" /\ flow.current = "SELF_CHECK" /\ Cur.status = "completed"
      /\ Cur.pass >= Passes /\ Unflushed /\ Save(f, flow.steps, {})
  BY DEF RescuePass, Leaving
<1>2. flow.index \in 1..Len(flow.selected) /\ flow.index \in Nat  BY <1>1, RunningIndex
<1>3. /\ Mirrored \in FlowSet /\ SamePlace(Mirrored, flow) /\ SameLayers(Mirrored, flow)
      /\ Grounded(Mirrored, code) /\ HasSlots(Mirrored)
  BY StandingFlow, MirroredValues, MirroredGround
<1>4. /\ h \in FlowSet /\ SamePlace(h, Mirrored) /\ SameLayers(h, Mirrored)
      /\ h.fixBaselines = Mirrored.fixBaselines /\ h.covered = Mirrored.covered
      /\ h.active = NoRound \/ (Mirrored.active # NoRound /\ h.active.base = Mirrored.active.base)
  BY <1>3, FlushTriedValues
<1> HIDE DEF h
<1>5. Grounded(h, code) /\ HasSlots(h)  BY <1>3, <1>4, SlotsAndGround DEF SamePlace
<1>6. h.selected = flow.selected /\ SameLayers(h, flow) /\ h.status = flow.status
  BY <1>3, <1>4 DEF SamePlace, SameLayers
<1>7. FlowOK(g, code) /\ EnteredSelfCheck(g, h, flow.index)
  BY <1>2, <1>4, <1>5, <1>6, EnterSelfCheckOK, EnterSelfCheckValues
<1>8. Mirrored.stash \subseteq Findings  BY <1>3 DEF FlowSet
<1>9. g \in FlowSet  BY <1>7 DEF FlowOK
<1> HIDE DEF g
<1>10. /\ f \in FlowSet /\ SamePlace(f, g) /\ SameRound(f, g) /\ SameLayers(f, g)
       /\ f.fixBaselines = g.fixBaselines /\ f.stash = Mirrored.stash
       /\ f.steps["SELF_CHECK"] = [g.steps["SELF_CHECK"] EXCEPT !.stash = Mirrored.stash]
  BY <1>8, <1>9, ReinjectValues
<1> HIDE DEF f
<1>11. FlowOK(f, code)  BY <1>7, <1>10
     DEF FlowOK, Routed, HasSlots, Grounded, SamePlace, SameRound, SameLayers
<1>12. QED  BY <1>1, <1>6, <1>7, <1>10, <1>11, SaveDoes DEF f, g, h

LEMMA AdvanceDoes ==
  ASSUME Standing, NEW a \in BOOLEAN, Advance(a)
  PROVE  LET i == flow.index + 1
             t == flow.selected[i]
             f == IF t = "SELF_CHECK" THEN EnterSelfCheck(Departed, i, a) ELSE Entered(t)
         IN /\ Onward /\ flow.status = "running" /\ Cur.status = "completed"
            /\ i \in 2..Len(flow.selected) /\ t \in Types
            /\ FlowOK(f, code) /\ Saved(f, flow.steps) /\ open' \subseteq open
            /\ f.selected = flow.selected /\ f.index = i /\ f.current = t
            /\ f.status = "running" /\ SameLayers(f, flow)
            /\ f.newest = IF t = "CONFIRM" THEN flow.newest ELSE t
            /\ f.reviews = IF t = "CONFIRM" THEN flow.newest ELSE flow.reviews
            /\ f.fixes = flow.fixes /\ f.fixBaselines = flow.fixBaselines
            /\ t = "SELF_CHECK" => EnteredSelfCheck(f, Departed, i)
            /\ t # "SELF_CHECK" => SameReview(f, Departed)
            /\ t # "SELF_CHECK" =>
                 f.active = Departed.active /\ f.forced = flow.forced /\ f.steps[t] = NewStep
<1> DEFINE i == flow.index + 1  t == flow.selected[i]  n == Len(flow.selected)
           f == IF t = "SELF_CHECK" THEN EnterSelfCheck(Departed, i, a) ELSE Entered(t)
           e == Enter(Departed, t, i, NewStep)
           r == IF t = "CONFIRM" THEN flow.newest ELSE e.reviews
<1>1. /\ Onward /\ flow.index < n /\ Save(f, flow.steps, {})
      /\ flow.status = "running" /\ Cur.status = "completed"
  BY DEF Advance, Entered, Onward, RoundOver, Leaving
<1>2. /\ flow \in FlowSet /\ Routed(flow) /\ n \in Nat /\ flow.newest \in Types
      /\ flow.reviews \in Types  BY StandingFlow, CurrentTyped
<1>3. i \in 2..n /\ i \in Nat  BY <1>1, <1>2 DEF Routed
<1>4. t \in Types
  <2> HIDE DEF i
  <2> QED  BY <1>2, <1>3, FlowLengths
<1>5. /\ Departed \in FlowSet /\ SamePlace(Departed, flow) /\ SameLayers(Departed, flow)
      /\ Departed.forced = flow.forced /\ Grounded(Departed, code) /\ HasSlots(Departed)
      /\ Departed.fixBaselines = flow.fixBaselines
  BY <1>2, DepartedValues, DepartedGround
<1>6. Departed.selected = flow.selected /\ Departed.reviews = flow.reviews
      /\ Departed.newest = flow.newest /\ Departed.status = flow.status
      /\ Departed.fixes = flow.fixes  BY <1>5 DEF SamePlace
<1> HIDE DEF i, t
<1>7. CASE t = "SELF_CHECK"
  <2>1. f = EnterSelfCheck(Departed, i, a)  BY <1>7
  <2>2. i \in 1..Len(Departed.selected)  BY <1>2, <1>3, <1>6
  <2>3. FlowOK(f, code) /\ EnteredSelfCheck(f, Departed, i)
    BY <1>3, <1>5, <2>1, <2>2, EnterSelfCheckOK, EnterSelfCheckValues
  <2> HIDE DEF f
  <2>4. /\ f.selected = flow.selected /\ f.index = i /\ f.current = t
        /\ f.status = "running" /\ SameLayers(f, flow) /\ f.newest = t
        /\ f.reviews = flow.reviews /\ f.fixes = flow.fixes
        /\ f.fixBaselines = flow.fixBaselines
    BY <1>1, <1>5, <1>6, <1>7, <2>3 DEF EnteredSelfCheck, SameLayers
  <2>5. Saved(f, flow.steps) /\ open' \subseteq open  BY <1>1, SaveDoes
  <2>6. QED  BY <1>1, <1>3, <1>4, <1>7, <2>3, <2>4, <2>5 DEF f, t, i
<1>8. CASE t # "SELF_CHECK"
  <2>1. f = Entered(t)  BY <1>8
  <2>2. NewStep \in Step  BY NewStepTyped
  <2>3. /\ e \in FlowSet /\ SameReview(e, Departed)
        /\ e.selected = flow.selected /\ e.index = i /\ e.current = t
        /\ e.newest = (IF t = "CONFIRM" THEN flow.newest ELSE t)
        /\ e.reviews = flow.reviews /\ e.status = flow.status
        /\ e.steps[t] = NewStep /\ e.fixes = flow.fixes
    <3>1. /\ e \in FlowSet /\ SameReview(e, Departed)
          /\ e.selected = Departed.selected /\ e.index = i /\ e.current = t
          /\ e.newest = (IF t = "CONFIRM" THEN Departed.newest ELSE t)
          /\ e.reviews = Departed.reviews /\ e.status = Departed.status
          /\ e.steps[t] = NewStep /\ e.fixes = Departed.fixes
      <4> DEFINE d == Departed
      <4>1. d \in FlowSet  BY <1>5
      <4> HIDE DEF d
      <4>2. /\ Enter(d, t, i, NewStep) \in FlowSet /\ SameReview(Enter(d, t, i, NewStep), d)
            /\ Enter(d, t, i, NewStep).selected = d.selected
            /\ Enter(d, t, i, NewStep).index = i /\ Enter(d, t, i, NewStep).current = t
            /\ Enter(d, t, i, NewStep).newest = (IF t = "CONFIRM" THEN d.newest ELSE t)
            /\ Enter(d, t, i, NewStep).reviews = d.reviews
            /\ Enter(d, t, i, NewStep).status = d.status
            /\ Enter(d, t, i, NewStep).steps[t] = NewStep
            /\ Enter(d, t, i, NewStep).fixes = d.fixes
        BY ONLY <1>3, <1>4, <4>1, <2>2, EnterValues
      <4>3. QED  BY <4>2 DEF d
    <3> HIDE DEF e
    <3>2. QED  BY <1>6, <3>1
  <2>4. f = [e EXCEPT !.reviews = r]  BY <2>1 DEF Entered, i
  <2> HIDE DEF e, f
  <2>5. r \in Types /\ r = IF t = "CONFIRM" THEN flow.newest ELSE flow.reviews
    BY <1>2, <2>3
  <2> HIDE DEF r
  <2>6. /\ f \in FlowSet /\ SameReview(f, e) /\ f.selected = e.selected
        /\ f.index = e.index /\ f.current = e.current /\ f.newest = e.newest
        /\ f.reviews = r /\ f.status = e.status /\ f.steps = e.steps /\ f.fixes = e.fixes
    BY <2>3, <2>4, <2>5, ReviewsValues
  <2>7. SameReview(f, Departed) /\ SameLayers(f, flow) /\ f.active = Departed.active
        /\ f.forced = flow.forced /\ f.fixBaselines = flow.fixBaselines
    BY <1>5, <2>3, <2>6 DEF SameReview, SameRound, SameLayers
  <2>8. Routed(f)  BY <1>2, <1>3, <1>5, <1>6, <2>3, <2>6 DEF Routed, HasSlots
  <2>9. Grounded(f, code)  BY <1>5, <2>7 DEF Grounded, SameReview, SameRound, SameLayers
  <2>10. FlowOK(f, code)  BY <2>6, <2>8, <2>9 DEF FlowOK
  <2>11. Saved(f, flow.steps) /\ open' \subseteq open  BY <1>1, SaveDoes
  <2>12. f.selected = flow.selected /\ f.index = i /\ f.current = t /\ f.status = "running"
         /\ f.newest = (IF t = "CONFIRM" THEN flow.newest ELSE t)
         /\ f.reviews = (IF t = "CONFIRM" THEN flow.newest ELSE flow.reviews)
         /\ f.steps[t] = NewStep /\ f.fixes = flow.fixes  BY <1>1, <2>3, <2>5, <2>6
  <2>13. QED  BY <1>1, <1>3, <1>4, <1>8, <2>7, <2>10, <2>11, <2>12 DEF f, t, i
<1>9. QED  BY <1>7, <1>8

LEMMA CompleteDoes ==
  ASSUME Standing, Complete
  PROVE  /\ Onward /\ flow.status = "running" /\ Cur.status = "completed"
         /\ flow.index >= Len(flow.selected)
         /\ FlowOK(Ended, code) /\ Saved(Ended, flow.steps) /\ open' \subseteq open
         /\ Ended.selected = flow.selected /\ Ended.index = Len(flow.selected) + 1
         /\ Ended.current = flow.current /\ Ended.status = "completed"
         /\ Ended.newest = flow.newest /\ Ended.reviews = flow.reviews
         /\ SameLayers(Ended, flow) /\ Ended.active = Departed.active
         /\ Ended.forced = flow.forced /\ Ended.fixes = flow.fixes
         /\ SameReview(Ended, Departed) /\ Ended.fixBaselines = flow.fixBaselines
         /\ Ended.steps[flow.current] = [Cur EXCEPT !.skipped = FALSE]
         /\ \A u \in Types \ {flow.current} : Ended.steps[u] = flow.steps[u]
<1> DEFINE n == Len(flow.selected)  k == n + 1  d == Departed
           B == Seq(Baseline)  S == Seq(Types)  H == [Types -> Step]
<1>1. /\ Onward /\ flow.index >= n /\ Save(Ended, flow.steps, {})
      /\ flow.status = "running" /\ Cur.status = "completed"
  BY DEF Complete, Ended, Onward, RoundOver, Leaving
<1>2. flow \in FlowSet /\ n \in Nat /\ k \in Nat  BY StandingFlow
<1>3. /\ d \in FlowSet /\ SamePlace(d, flow) /\ SameLayers(d, flow)
      /\ d.forced = flow.forced /\ Grounded(d, code) /\ HasSlots(d)
      /\ d.fixBaselines = flow.fixBaselines
      /\ d.steps[flow.current] = [Cur EXCEPT !.skipped = FALSE]
      /\ \A u \in Types \ {flow.current} : d.steps[u] = flow.steps[u]
  BY <1>2, DepartedValues, DepartedGround
<1>4. Ended = [d EXCEPT !.status = "completed", !.index = k]  BY DEF Ended
<1> HIDE DEF d, k
<1>5. /\ Ended \in FlowSet /\ SameReview(Ended, d) /\ Ended.selected = d.selected
      /\ Ended.index = k /\ Ended.current = d.current /\ Ended.newest = d.newest
      /\ Ended.reviews = d.reviews /\ Ended.status = "completed" /\ Ended.steps = d.steps
      /\ Ended.fixes = d.fixes
  <2> HIDE DEF B, S, H
  <2> QED  BY <1>2, <1>3, <1>4 DEF FlowSet, SameReview, SameRound, SameLayers, H, S, B, Rounds
<1>6. /\ Ended.selected = flow.selected /\ Ended.current = flow.current
      /\ Ended.newest = flow.newest /\ Ended.reviews = flow.reviews
      /\ SameLayers(Ended, flow) /\ Ended.active = d.active /\ Ended.forced = flow.forced
      /\ Ended.fixes = flow.fixes /\ Ended.fixBaselines = flow.fixBaselines
  BY <1>3, <1>5 DEF SamePlace, SameReview, SameRound, SameLayers
<1>7. k \in 1..(n + 1)  BY <1>2 DEF k
<1>8. HasSlots(Ended)  BY <1>3, <1>5 DEF HasSlots
<1>9. Routed(Ended)  BY <1>5, <1>6, <1>7, <1>8 DEF Routed
<1>10. Grounded(Ended, code)  BY <1>3, <1>5 DEF Grounded, SameReview, SameRound, SameLayers
<1>11. FlowOK(Ended, code)  BY <1>5, <1>9, <1>10 DEF FlowOK
<1>12. Saved(Ended, flow.steps) /\ open' \subseteq open  BY <1>1, SaveDoes
<1>13. QED  BY <1>1, <1>3, <1>5, <1>6, <1>11, <1>12 DEF d, k

LEMMA ContinueDoes ==
  ASSUME Standing, ContinueImplement
  PROVE  /\ flow.status = "running" /\ flow.current = "IMPLEMENT" /\ Cur.status = "partial"
         /\ FlowOK(Continued, code) /\ Saved(Continued, Counted.steps) /\ open' \subseteq open
         /\ Counted.steps \in [Types -> Step] /\ SameButSteps(Continued, flow)
         /\ \A u \in Types \ {"IMPLEMENT"} : Continued.steps[u] = flow.steps[u]
<1> DEFINE t == "IMPLEMENT"  k == flow.steps[t]  c == k.continuations + 1
           x == [k EXCEPT !.continuations = c]
           s == IF Cur.continuations < ContinuationLimit THEN "pending" ELSE "failed"
<1>1. /\ flow.status = "running" /\ flow.current = t /\ Cur.status = "partial"
      /\ Save(Continued, Counted.steps, {})
  BY DEF ContinueImplement, Leaving, Counted, Continued
<1>2. /\ flow \in FlowSet /\ FlowOK(flow, code) /\ t \in Types /\ k \in Step
      /\ flow.steps \in [Types -> Step]  BY StandingFlow, CurrentTyped DEF Standing, Types
<1> HIDE DEF k
<1>3. c \in Nat  BY <1>2 DEF Step
<1>4. Counted = [flow EXCEPT !.steps[t].continuations = c]  BY <1>2 DEF Counted, FlowSet, k
<1> HIDE DEF c
<1>5. x \in Step
  <2> DEFINE F == SUBSET Findings
  <2> HIDE DEF F
  <2> QED  BY <1>2, <1>3 DEF Step, F
<1>6. Counted = [flow EXCEPT !.steps[t] = x]  BY <1>2, <1>4 DEF FlowSet, k
<1> HIDE DEF x
<1>7. /\ Counted \in FlowSet /\ SameButSteps(Counted, flow)
      /\ \A u \in Types \ {t} : Counted.steps[u] = flow.steps[u]
  BY <1>2, <1>5, <1>6, StepValues
<1>8. s \in Status  BY DEF Status
<1>9. Continued = SetStatus(Counted, s)  BY DEF Continued
<1> HIDE DEF s
<1>10. StepTo(Continued, Counted, [Counted.steps[Counted.current] EXCEPT !.status = s])
  BY <1>7, <1>8, <1>9, SetStatusValues
<1>11. Counted.current = t  BY <1>1, <1>7 DEF SameButSteps, SamePlace
<1>12. /\ Continued \in FlowSet /\ SameButSteps(Continued, Counted)
       /\ \A u \in Types \ {t} : Continued.steps[u] = Counted.steps[u]
  BY <1>10, <1>11 DEF StepTo
<1>13. SameButSteps(Continued, flow)
  BY <1>7, <1>12 DEF SameButSteps, SamePlace, SameReview, SameRound, SameLayers
<1>14. FlowOK(Continued, code)  BY <1>2, <1>12, <1>13, GroundSteps
<1>15. Counted.steps \in [Types -> Step]  BY <1>7 DEF FlowSet
<1>16. Saved(Continued, Counted.steps) /\ open' \subseteq open  BY <1>1, SaveDoes
<1>17. QED  BY <1>1, <1>7, <1>12, <1>13, <1>14, <1>15, <1>16

LEMMA RejectedValues ==
  ASSUME Standing, NEW a \in BOOLEAN
  PROVE  LET g == Rejected(a) IN
         /\ g \in FlowSet /\ Grounded(g, code) /\ SamePlace(g, flow) /\ g.steps = flow.steps
         /\ g.stash = flow.stash /\ g.layers = flow.layers
         /\ flow.reviews = "SELF_CHECK" => g.active = NoRound /\ g.forced = TRUE
         /\ flow.reviews # "SELF_CHECK" => g.active = flow.active /\ g.forced = flow.forced
         /\ flow.reviews # "ADJUDICATE" => SameLayers(g, flow)
         /\ flow.reviews = "ADJUDICATE" =>
              /\ SameRound(g, flow) /\ g.fixBaselines = flow.fixBaselines
              /\ g.layer = flow.beforeRuling /\ g.beforeRuling = flow.beforeRuling
<1> DEFINE t == flow.reviews  g == Rejected(a)
<1>1. flow \in FlowSet /\ Grounded(flow, code) /\ code \in Nat /\ code <= code
  BY StandingFlow
<1>2. CASE t = "IMPLEMENT"
  <2>1. g = CaptureFixBaseline(flow, a)  BY <1>2 DEF Rejected
  <2> HIDE DEF g
  <2>2. /\ g \in FlowSet /\ Grounded(g, code) /\ SamePlace(g, flow) /\ SameRound(g, flow)
        /\ SameLayers(g, flow) /\ g.steps = flow.steps /\ g.stash = flow.stash
    BY <1>1, <2>1, CaptureValues
  <2>3. QED  BY <1>2, <2>2 DEF SameRound, SameLayers, g
<1>3. CASE t = "SELF_CHECK"
  <2>1. g = ForceFull(flow)  BY <1>3 DEF Rejected
  <2> HIDE DEF g
  <2>2. /\ g \in FlowSet /\ SamePlace(g, flow) /\ SameLayers(g, flow) /\ g.steps = flow.steps
        /\ g.active = NoRound /\ g.forced = TRUE
        /\ g.fixBaselines = flow.fixBaselines /\ g.stash = flow.stash
        /\ g.covered = flow.covered  BY <1>1, <2>1, ForceFullValues
  <2>3. Grounded(g, code)  BY <1>1, <2>2, GroundKept
  <2>4. QED  BY <1>3, <2>2, <2>3 DEF SameLayers, g
<1>4. CASE t = "ADJUDICATE"
  <2> DEFINE b == flow.beforeRuling
             B == Seq(Baseline)  S == Seq(Types)  H == [Types -> Step]
  <2>1. g = [flow EXCEPT !.layer = b]  BY <1>4 DEF Rejected
  <2>2. b \in Nat /\ b <= flow.layers  BY <1>1 DEF FlowSet, Grounded
  <2> HIDE DEF g, b
  <2>3. /\ g \in FlowSet /\ SamePlace(g, flow) /\ SameRound(g, flow) /\ g.steps = flow.steps
        /\ g.fixBaselines = flow.fixBaselines /\ g.stash = flow.stash
        /\ g.layers = flow.layers /\ g.layer = b /\ g.beforeRuling = flow.beforeRuling
    <3> HIDE DEF B, S, H
    <3> QED  BY <1>1, <2>1, <2>2 DEF FlowSet, SamePlace, SameRound, B, S, H, Rounds
  <2>4. Grounded(g, code)  BY <1>1, <2>2, <2>3 DEF Grounded, SameRound
  <2>5. QED  BY <1>4, <2>3, <2>4 DEF SameRound, g, b
<1>5. CASE t \notin {"IMPLEMENT", "SELF_CHECK", "ADJUDICATE"}
  <2>1. g = flow  BY <1>5 DEF Rejected
  <2>2. QED  BY <1>1, <1>5, <2>1 DEF SamePlace, SameLayers
<1>6. QED  BY <1>2, <1>3, <1>4, <1>5

LEMMA ToRevisionDoes ==
  ASSUME Standing, NEW a \in BOOLEAN, ToRevision(a)
  PROVE  LET f == Returned(a)  t == flow.reviews IN
         /\ flow.status = "running" /\ flow.current = "CONFIRM" /\ Cur.status = "revision"
         /\ FlowOK(f, code) /\ Saved(f, flow.steps) /\ open' \subseteq open
         /\ f.selected = flow.selected /\ f.current = t /\ f.newest = flow.newest
         /\ f.index = IF IndexOf(flow, t) = 0 THEN flow.index ELSE IndexOf(flow, t)
         /\ f.reviews = t /\ f.status = "running" /\ f.stash = flow.stash
         /\ f.layers = flow.layers
         /\ f.active = Rejected(a).active /\ f.forced = Rejected(a).forced
         /\ f.fixes = flow.fixes /\ SameReview(f, Rejected(a))
         /\ f.steps[t] = [flow.steps[t] EXCEPT !.status = "pending"]
         /\ \A u \in Types \ {t} : f.steps[u] = flow.steps[u]
<1> DEFINE t == flow.reviews  g == Rejected(a)  i == IndexOf(flow, t)  f == Returned(a)
           k == IF i = 0 THEN flow.index ELSE i
           s == [flow.steps[t] EXCEPT !.status = "pending"]
           h == [g EXCEPT !.steps[t] = s]
           B == Seq(Baseline)  S == Seq(Types)  H == [Types -> Step]
<1>1. /\ flow.status = "running" /\ flow.current = "CONFIRM" /\ Cur.status = "revision"
      /\ Save(f, flow.steps, {})  BY DEF ToRevision, Leaving, Returned, Rejected
<1>2. /\ flow \in FlowSet /\ Routed(flow) /\ HasSlots(flow) /\ t \in Types
      /\ Len(flow.selected) \in Nat /\ flow.steps[t] \in Step
  BY StandingFlow, CurrentTyped
<1>3. /\ g \in FlowSet /\ Grounded(g, code) /\ SamePlace(g, flow) /\ g.steps = flow.steps
      /\ g.stash = flow.stash /\ g.layers = flow.layers  BY RejectedValues
<1>4. k \in 1..Len(flow.selected) /\ k \in Nat
  <2>1. i \in 0..Len(flow.selected)  BY <1>2, Places
  <2>2. flow.index \in 1..Len(flow.selected)  BY <1>1, RunningIndex
  <2> HIDE DEF i
  <2>3. QED  BY <1>2, <2>1, <2>2
<1>5. s \in Step  BY <1>2, StatusTyped DEF Status
<1>6. f = [h EXCEPT !.current = t, !.index = k]
  <2>1. f = [g EXCEPT !.steps[t].status = "pending", !.current = t,
                      !.index = IF i = 0 THEN @ ELSE i]
    BY DEF Returned
  <2>2. g.index = flow.index  BY <1>3 DEF SamePlace
  <2>3. s = [g.steps[t] EXCEPT !.status = "pending"]  BY <1>3
  <2> HIDE DEF i, g, s, f
  <2>4. [g EXCEPT !.steps[t].status = "pending"] = h  BY <1>3, <2>3 DEF FlowSet
  <2>5. f = [[g EXCEPT !.steps[t].status = "pending"] EXCEPT !.current = t, !.index = k]
    BY <1>2, <1>3, <2>1, <2>2 DEF FlowSet
  <2>6. QED  BY ONLY <2>4, <2>5
<1> HIDE DEF g, s, f, k, h
<1>7. /\ h \in FlowSet /\ SameButSteps(h, g) /\ h.steps[t] = s
      /\ \A u \in Types \ {t} : h.steps[u] = g.steps[u]
  BY <1>2, <1>3, <1>5, StepValues DEF h
<1>8. /\ f \in FlowSet /\ SameReview(f, h) /\ f.selected = h.selected /\ f.index = k
      /\ f.current = t /\ f.newest = h.newest /\ f.reviews = h.reviews
      /\ f.status = h.status /\ f.steps = h.steps /\ f.fixes = h.fixes
  <2> HIDE DEF B, S, H
  <2> QED  BY <1>2, <1>4, <1>6, <1>7
           DEF FlowSet, SameReview, SameRound, SameLayers, H, S, B, Rounds
<1>9. /\ f.selected = flow.selected /\ f.newest = flow.newest /\ f.reviews = t
      /\ f.status = "running" /\ f.stash = flow.stash /\ f.layers = flow.layers
      /\ f.active = g.active /\ f.forced = g.forced
      /\ f.fixes = flow.fixes /\ SameReview(f, g)
      /\ f.steps[t] = s /\ \A u \in Types \ {t} : f.steps[u] = flow.steps[u]
  BY <1>1, <1>3, <1>7, <1>8
     DEF SamePlace, SameButSteps, SameReview, SameRound, SameLayers
<1>10. Routed(f)  BY <1>2, <1>4, <1>8, <1>9 DEF Routed, HasSlots
<1>11. Grounded(f, code)
  BY <1>3, <1>7, <1>8 DEF Grounded, SameButSteps, SameReview, SameRound, SameLayers
<1>12. FlowOK(f, code)  BY <1>8, <1>10, <1>11 DEF FlowOK
<1>13. Saved(f, flow.steps) /\ open' \subseteq open  BY <1>1, SaveDoes
<1>14. QED  BY <1>1, <1>8, <1>9, <1>12, <1>13 DEF f, g, s, k

-----------------------------------------------------------------------------
(* Every step of the engine keeps the flow and the facts about the world   *)
(* well formed.                                                            *)

LEMMA OlderCode ==
  ASSUME NEW f, NEW c \in Nat, NEW d \in Nat, c <= d, FlowOK(f, c)
  PROVE  FlowOK(f, d)
<1>1. f \in FlowSet /\ Routed(f) /\ Grounded(f, c)  BY DEF FlowOK
<1>2. \A i \in 1..Len(f.fixBaselines) : f.fixBaselines[i].at <= d
  <2>1. ASSUME NEW i \in 1..Len(f.fixBaselines) PROVE f.fixBaselines[i].at <= d
    <3> DEFINE x == f.fixBaselines[i].at
    <3>1. x \in Nat /\ x <= c  BY <1>1, FlowLengths DEF Grounded
    <3> HIDE DEF x
    <3>2. x <= d  BY ONLY c \in Nat, d \in Nat, c <= d, <3>1
    <3>3. QED  BY <3>2 DEF x
  <2>2. QED  BY <2>1
<1>3. Grounded(f, d)  BY <1>1, <1>2 DEF Grounded
<1>4. QED  BY <1>1, <1>3 DEF FlowOK

\* What stays as it is counts as kept.
LEMMA ScalarsKept ==
  ASSUME Standing, UNCHANGED <<setup, code, reviewed>>, clean' \in Nat, open' \subseteq Findings,
         spent' = spent \/ \E e \in Event : Spent(e)
  PROVE  Scalars
<1>1. spent \in [Event -> Nat] /\ code \in Nat /\ reviewed \in 0..code  BY DEF Standing
<1>2. spent' \in [Event -> Nat] /\ \A e \in Event : spent'[e] >= spent[e]
  <2>1. CASE spent' = spent  BY ONLY <1>1, <2>1
  <2>2. ASSUME NEW x \in Event, Spent(x)
        PROVE  spent' \in [Event -> Nat] /\ \A e \in Event : spent'[e] >= spent[e]
    <3>1. /\ spent' \in [Event -> Nat] /\ spent'[x] = spent[x] + 1
          /\ \A e \in Event \ {x} : spent'[e] = spent[e]  BY <1>1, <2>2, SpentTyped
    <3>2. QED  BY ONLY <1>1, <3>1, x \in Event
  <2>3. QED  BY <2>1, <2>2
<1>3. code <= code'  BY <1>1
<1>4. QED  BY <1>1, <1>2, <1>3 DEF Scalars

LEMMA StepToProgress ==
  ASSUME Standing, Scalars, NEW s, StepTo(flow', flow, s), flow.status = "running"
  PROVE  Progress
<1>1. FlowOK(flow, code) /\ code \in Nat /\ flow \in FlowSet  BY DEF Standing, FlowOK
<1>2. FlowOK(flow', code)  BY <1>1, GroundSteps DEF StepTo
<1>3. FlowOK(flow', code')  BY <1>1, <1>2, OlderCode DEF Scalars
<1>4. flow'.layers = flow.layers /\ flow'.status = "running" /\ flow.layers \in Nat
  BY <1>1 DEF StepTo, SameButSteps, SamePlace, SameReview, SameLayers, FlowSet
<1>5. QED  BY <1>3, <1>4 DEF Progress

LEMMA StatusProgress ==
  ASSUME Standing, Scalars, UNCHANGED code, NEW s, NEW x \in {"running", "failed"},
         flow.index <= Len(flow.selected), StepAndStatus(flow', flow, s, x)
  PROVE  Progress
<1>1. flow \in FlowSet /\ Routed(flow) /\ Grounded(flow, code)  BY DEF Standing, FlowOK
<1>2. Routed(flow')  BY <1>1 DEF Routed, HasSlots, StepAndStatus
<1>3. Grounded(flow', code')
  BY <1>1 DEF Grounded, StepAndStatus, SameReview, SameRound, SameLayers
<1>4. flow'.layers = flow.layers /\ flow.layers \in Nat /\ flow'.status # "completed"
  BY <1>1 DEF StepAndStatus, SameReview, SameLayers, FlowSet
<1>5. QED  BY <1>2, <1>3, <1>4 DEF Progress, FlowOK, StepAndStatus

LEMMA SavedProgress ==
  ASSUME Standing, NEW f, FlowOK(f, code), f.layers = flow.layers, flow.status = "running",
         f.status = "completed" => f.steps[f.current].status = "completed",
         NEW bodies \in [Types -> Step], Saved(f, bodies), open' \subseteq open,
         UNCHANGED <<code, clean, reviewed, setup>>
  PROVE  Progress
<1>1. /\ FlowOK(flow', code) /\ flow'.layers = f.layers
      /\ flow' = f \/ flow'.status = "running"  BY SavedOK
<1>2. Scalars
  <2>1. clean' \in Nat /\ open' \subseteq Findings  BY DEF Standing
  <2>2. spent' = spent \/ Spent("tears")  BY DEF Saved
  <2>3. QED  BY <2>1, <2>2, ScalarsKept DEF Event
<1>3. flow.layers \in Nat  BY StandingFlow DEF FlowSet
<1>4. QED  BY <1>1, <1>2, <1>3 DEF Progress

LEMMA HandlersProgress ==
  ASSUME Standing, Handlers
  PROVE  Progress
<1>1. /\ flow \in FlowSet /\ Routed(flow) /\ code \in Nat /\ clean \in Nat
      /\ open \subseteq Findings /\ reviewed \in 0..code /\ flow.layers \in Nat
  BY StandingFlow DEF Standing, FlowSet
<1>2. CASE FinishPlain
  <2>1. Scalars  BY <1>1, <1>2, ScalarsKept DEF FinishPlain
  <2>2. QED  BY <1>1, <1>2, <2>1, FinishPlainDoes, StepToProgress
<1>3. CASE Fail
  <2>1. Scalars  BY <1>1, <1>3, ScalarsKept DEF Fail, Spend, Spent, Event
  <2>2. QED  BY <1>1, <1>3, <2>1, FailDoes, StepToProgress
<1>4. CASE Resume
  <2>1. Scalars  BY <1>1, <1>4, ScalarsKept DEF Resume, Spend, Spent, Event
  <2>2. flow.status # "completed"  BY <1>4 DEF Standing, Resume, Running
  <2>3. flow.index <= Len(flow.selected)  BY <1>1, <2>2 DEF Routed
  <2>4. QED  BY <1>1, <1>4, <2>1, <2>3, ResumeDoes, StatusProgress DEF Resume
<1>5. ASSUME NEW s \in Status, FinishImplement(s) PROVE Progress
  <2>1. Scalars  BY <1>1, <1>5, ScalarsKept DEF FinishImplement
  <2>2. QED  BY <1>1, <1>5, <2>1, FinishImplementDoes, StepToProgress
<1>6. ASSUME NEW s \in Status, FinishGate(s) PROVE Progress
  <2>1. Scalars  BY <1>1, <1>6, ScalarsKept DEF FinishGate
  <2>2. QED  BY <1>1, <1>6, <2>1, FinishGateDoes, StepToProgress
<1>7. ASSUME NEW found \in SUBSET Findings, NEW severe \in BOOLEAN,
             FinishSelfCheck(found, severe)
      PROVE  Progress
  <2>1. /\ flow.status = "running" /\ StepTo(flow', flow, PassAnswer(found, severe))
        /\ clean' = IF Cur.stash \cup found # {} \/ flow.active.mode # "full" THEN 0
                    ELSE IF Cur.pass = 1 THEN 1 ELSE clean + 1
    BY <1>1, <1>7, FinishSelfCheckDoes
  <2>2. clean' \in Nat  BY <1>1, <2>1
  <2>3. /\ code' = code /\ setup' = setup /\ spent' = spent
        /\ open' = open \cup found /\ reviewed' = code  BY <1>7 DEF FinishSelfCheck
  <2>4. Scalars  BY <1>1, <2>2, <2>3 DEF Scalars, Standing
  <2>5. QED  BY <2>1, <2>4, StepToProgress
<1>8. ASSUME NEW v \in {"noop", "description", "plan"}, FinishAdjudicate(v) PROVE Progress
  <2>1. /\ flow.status = "running"
        /\ flow' \in FlowSet /\ SamePlace(flow', flow) /\ SameRound(flow', flow)
        /\ flow'.fixBaselines = flow.fixBaselines
        /\ flow'.layers = IF v = "description" THEN flow.layers + 1 ELSE flow.layers
        /\ flow'.layer = IF v = "description" THEN flow.layers + 1 ELSE flow.layer
        /\ flow'.beforeRuling = flow.layer  BY <1>1, <1>8, FinishAdjudicateDoes
  <2>2. Scalars  BY <1>1, <1>8, ScalarsKept DEF FinishAdjudicate
  <2>3. Grounded(flow, code) /\ flow.layer \in Nat /\ code' = code
    BY <1>1, <1>8, StandingFlow DEF FlowSet, FinishAdjudicate
  <2>4. flow'.layer <= flow'.layers /\ flow'.beforeRuling <= flow'.layers
        /\ flow.layers <= flow'.layers  BY <1>1, <2>1, <2>3 DEF Grounded
  <2>5. Grounded(flow', code')  BY <2>1, <2>3, <2>4 DEF Grounded, SameRound
  <2>6. Routed(flow')  BY <1>1, <2>1 DEF SamePlace, Routed, HasSlots
  <2>7. flow'.status = "running"  BY <2>1 DEF SamePlace
  <2>8. QED  BY <2>1, <2>2, <2>4, <2>5, <2>6, <2>7 DEF Progress, FlowOK
<1>9. ASSUME NEW v \in {"approved", "rejected"}, FinishConfirm(v) PROVE Progress
  <2>1. spent' = spent \/ Spent("rejections")  BY <1>9 DEF FinishConfirm, Spend, Spent
  <2>2. Scalars  BY <1>1, <1>9, <2>1, ScalarsKept DEF FinishConfirm, Event
  <2>3. QED  BY <1>1, <1>9, <2>2, FinishConfirmDoes, StepToProgress
<1>10. QED  BY <1>2, <1>3, <1>4, <1>5, <1>6, <1>7, <1>8, <1>9 DEF Handlers

LEMMA OperatorProgress ==
  ASSUME Standing, Operator
  PROVE  Progress
<1>1. /\ flow \in FlowSet /\ Routed(flow) /\ code \in Nat /\ clean \in Nat
      /\ open \subseteq Findings /\ reviewed \in 0..code /\ flow.layers \in Nat
  BY StandingFlow DEF Standing, FlowSet
<1>2. CASE Retry
  <2>1. Scalars  BY <1>1, <1>2, ScalarsKept DEF Retry
  <2>2. QED  BY <1>1, <1>2, <2>1, RetryDoes, StepToProgress
<1>3. CASE Skip
  <2>1. Scalars  BY <1>1, <1>3, ScalarsKept DEF Skip
  <2>2. QED  BY <1>1, <1>3, <2>1, SkipDoes, StepToProgress
<1>4. CASE GiveUp
  <2>1. Scalars  BY <1>1, <1>4, ScalarsKept DEF GiveUp
  <2>2. flow.status = "running" /\ StepAndStatus(flow', flow, Cur, "failed") /\ code' = code
    BY <1>1, <1>4, GiveUpDoes DEF GiveUp
  <2>3. QED  BY <1>1, <2>1, <2>2, StatusProgress DEF Routed
<1>5. CASE Revise
  <2>1. Scalars
    <3>1. clean' \in Nat /\ open' = open /\ UNCHANGED <<setup, code, reviewed>>
          /\ Spent("revisions")  BY <1>5 DEF Revise, Spend, Spent
    <3>2. QED  BY <1>1, <3>1, ScalarsKept DEF Event
  <2>2. /\ flow.status = "running"
        /\ flow' \in FlowSet /\ SamePlace(flow', flow)
        /\ flow'.active = NoRound /\ flow'.fixBaselines = flow.fixBaselines
        /\ flow'.covered = flow.covered
        /\ flow'.layers = flow.layers + 1 /\ flow'.layer = flow.layers + 1
        /\ flow'.beforeRuling = flow.layers + 1  BY <1>1, <1>5, ReviseDoes
  <2>3. Grounded(flow, code) /\ code' = code  BY <1>5, StandingFlow DEF Revise
  <2>4. flow'.layer <= flow'.layers /\ flow'.beforeRuling <= flow'.layers
        /\ flow.layers <= flow'.layers  BY <1>1, <2>2
  <2>5. Grounded(flow', code')  BY <2>2, <2>3, <2>4 DEF Grounded
  <2>6. Routed(flow')  BY <1>1, <2>2 DEF SamePlace, Routed, HasSlots
  <2>7. flow'.status = "running"  BY <2>2 DEF SamePlace
  <2>8. QED  BY <2>1, <2>2, <2>4, <2>5, <2>6, <2>7 DEF Progress, FlowOK
<1>6. QED  BY <1>2, <1>3, <1>4, <1>5 DEF Operator

LEMMA BeginProgress ==
  ASSUME Standing, Begin
  PROVE  Progress
<1>1. /\ flow \in FlowSet /\ Routed(flow) /\ code \in Nat /\ clean \in Nat
      /\ open \subseteq Findings /\ reviewed \in 0..code /\ flow.layers \in Nat
      /\ Grounded(flow, code)  BY StandingFlow DEF Standing, FlowSet
<1>2. CASE Start
  <2>1. code' \in Nat /\ code <= code' /\ clean' \in Nat  BY <1>1, <1>2 DEF Start
  <2>2. reviewed' \in 0..code' /\ open' \subseteq Findings /\ setup' = setup /\ spent' = spent
    <3>1. open' = open /\ reviewed' = reviewed /\ setup' = setup /\ spent' = spent
      BY <1>2 DEF Start
    <3>2. QED  BY <1>1, <2>1, <3>1
  <2>3. spent' \in [Event -> Nat] /\ \A e \in Event : spent'[e] >= spent[e]
    BY <2>2 DEF Standing
  <2>4. Scalars  BY <2>1, <2>2, <2>3 DEF Scalars
  <2>5. QED  BY <1>1, <1>2, <2>4, StartDoes, StepToProgress
<1>3. ASSUME NEW u \in BOOLEAN, StartSelfCheck(u) PROVE Progress
  <2> DEFINE g == Refreshed  h == PrepareScope(g, u)
             s == [Cur EXCEPT !.status = "running", !.pass = h.active.pass,
                              !.flushTried = h.active.flushTried]
  <2>1. /\ flow.status = "running" /\ g \in FlowSet /\ Grounded(g, code) /\ InRound(h, g)
        /\ StepTo(flow', h, s)  BY <1>1, <1>3, StartSelfCheckDoes
  <2>2. SamePlace(g, flow) /\ SameLayers(g, flow)
    <3>1. CASE RequirementsChanged(flow)  BY <1>1, <3>1, ForceFullValues DEF Refreshed
    <3>2. CASE ~RequirementsChanged(flow)  BY <3>2 DEF Refreshed, SamePlace, SameLayers
    <3>3. QED  BY <3>1, <3>2
  <2> HIDE DEF h, g, s
  <2>3. SamePlace(flow', flow) /\ SameLayers(flow', flow) /\ flow' \in FlowSet
        /\ flow'.active = h.active /\ flow'.covered = h.covered
        /\ flow'.fixBaselines = h.fixBaselines /\ h.fixBaselines = g.fixBaselines
        /\ SameLayers(flow', g)  BY <2>1, <2>2
       DEF InRound, StepTo, SameButSteps, SamePlace, SameLayers, SameReview, SameRound
  <2>4. Grounded(flow', code)  BY <2>1, <2>3 DEF Grounded, InRound, SameLayers
  <2>5. Routed(flow')  BY <1>1, <2>3 DEF SamePlace, Routed, HasSlots
  <2>6. flow'.status = "running" /\ flow'.layers = flow.layers
    BY <2>1, <2>3 DEF SamePlace, SameLayers
  <2>7. code' = code /\ Scalars  BY <1>1, <1>3, ScalarsKept DEF StartSelfCheck
  <2>8. QED  BY <1>1, <2>3, <2>4, <2>5, <2>6, <2>7 DEF Progress, FlowOK
<1>4. QED  BY <1>2, <1>3 DEF Begin

\* What a transition leaves alone.
LEMMA TransitionsLeave ==
  ASSUME ToNewStep \/ ToKnownStep
  PROVE  UNCHANGED <<code, clean, reviewed, setup>>
<1>1. LoopToAdjudicate \/ ConfirmRuling \/ RescueToAdjudicate
        => UNCHANGED <<code, clean, reviewed, setup>>
  BY DEF LoopToAdjudicate, ConfirmRuling, RescueToAdjudicate
<1>2. ASSUME NEW a \in BOOLEAN,
             \/ LandRuling(a) \/ Reflow(a) \/ RepeatPass(a)
             \/ RescuePass(a) \/ CloseWithFullRound(a) \/ Advance(a)
      PROVE  UNCHANGED <<code, clean, reviewed, setup>>
  BY <1>2 DEF LandRuling, Reflow, RepeatPass, RescuePass, CloseWithFullRound, Advance
<1>3. ContinueImplement \/ FixesExhausted \/ Complete => UNCHANGED <<code, clean, reviewed, setup>>
  BY DEF ContinueImplement, FixesExhausted, Complete
<1>4. ASSUME NEW a \in BOOLEAN,
             LoopToFix(a) \/ PassThroughRuling(a) \/ ToRevision(a) \/ RescueToFix(a)
      PROVE  UNCHANGED <<code, clean, reviewed, setup>>
  BY <1>4 DEF LoopToFix, PassThroughRuling, ToRevision, RescueToFix
<1>5. QED  BY <1>1, <1>2, <1>3, <1>4 DEF ToNewStep, ToKnownStep

LEMMA ToNewStepProgress ==
  ASSUME Standing, ToNewStep
  PROVE  Progress
<1>1. /\ flow \in FlowSet /\ flow.steps \in [Types -> Step]
      /\ UNCHANGED <<code, clean, reviewed, setup>>  BY StandingFlow, TransitionsLeave
<1>2. ASSUME NEW f, NEW bodies \in [Types -> Step], FlowOK(f, code), f.status = "running",
             flow.status = "running", SameLayers(f, flow), Saved(f, bodies), open' \subseteq open
      PROVE  Progress
  <2>1. f.layers = flow.layers  BY <1>2 DEF SameLayers
  <2>2. QED  BY <1>1, <1>2, <2>1, SavedProgress
<1>3. CASE LoopToAdjudicate
  <2> DEFINE f == ToAdjudicate(Marked)
  <2>1. /\ flow.status = "running" /\ FlowOK(f, code) /\ Saved(f, flow.steps)
        /\ open' \subseteq open
        /\ \E at \in 1..Len(flow.selected) :
             AtInserted(f, Marked, at, "ADJUDICATE", Ruling(Marked))
    BY <1>3, LoopToAdjudicateDoes
  <2> HIDE DEF f
  <2>2. SameLayers(Marked, flow) /\ Marked.status = flow.status
    BY MarkedValues DEF SamePlace
  <2>3. f.status = "running" /\ SameLayers(f, flow)
    BY <2>1, <2>2 DEF AtInserted, SameReview, SameLayers
  <2>4. QED  BY <1>1, <1>2, <2>1, <2>3
<1>4. CASE RescueToAdjudicate
  <2> DEFINE f == ToAdjudicate(Rescued)
  <2>1. /\ RescueDue /\ FlowOK(f, code) /\ Saved(f, Rescued.steps)
        /\ open' \subseteq open
        /\ \E at \in 1..Len(flow.selected) :
             AtInserted(f, Rescued, at, "ADJUDICATE", Ruling(Rescued))
    BY <1>4, RescueToAdjudicateDoes
  <2> HIDE DEF f
  <2>2. SameLayers(Rescued, flow) /\ Rescued.status = flow.status /\ flow.status = "running"
        /\ Rescued.steps \in [Types -> Step]
    BY <1>1, <2>1, RescuedValues DEF SamePlace, FlowSet, RescueDue, Leaving
  <2>3. f.status = "running" /\ SameLayers(f, flow)
    BY <2>1, <2>2 DEF AtInserted, SameReview, SameLayers
  <2>4. QED  BY <1>1, <1>2, <2>1, <2>2, <2>3
<1>5. CASE ConfirmRuling
  <2> DEFINE f == ToConfirm
  <2>1. /\ flow.status = "running" /\ FlowOK(f, code) /\ Saved(f, flow.steps)
        /\ open' \subseteq open
        /\ \E g : /\ AtInserted(g, flow, flow.index + 1, "CONFIRM", NewStep)
                  /\ SameReview(f, g) /\ f.status = g.status  BY <1>5, ConfirmRulingDoes
  <2> HIDE DEF f
  <2>2. f.status = "running" /\ SameLayers(f, flow)
    BY <2>1 DEF AtInserted, SameReview, SameLayers
  <2>3. QED  BY <1>1, <1>2, <2>1, <2>2
<1>6. ASSUME NEW a \in BOOLEAN, LandRuling(a) PROVE Progress
  <2> DEFINE i == StripAdjudicateRun(flow).selfCheck  f == EnterSelfCheck(Landed, i, a)
  <2>1. /\ RulingStands /\ FlowOK(f, code) /\ EnteredSelfCheck(f, Landed, i)
        /\ Saved(f, flow.steps) /\ open' \subseteq open  BY <1>6, LandRulingDoes
  <2> HIDE DEF f, i
  <2>2. SameLayers(Landed, flow) /\ Landed.status = flow.status /\ flow.status = "running"
    BY <2>1, LandedValues DEF RulingStands, Leaving
  <2>3. f.status = "running" /\ SameLayers(f, flow)
    BY <2>1, <2>2 DEF EnteredSelfCheck, SameLayers
  <2>4. QED  BY <1>1, <1>2, <2>1, <2>2, <2>3
<1>7. ASSUME NEW a \in BOOLEAN, Reflow(a) PROVE Progress
  <2> DEFINE i == IndexOf(flow, "SELF_CHECK")  f == EnterSelfCheck(flow, i, a)
  <2>1. /\ flow.status = "running" /\ FlowOK(f, code) /\ EnteredSelfCheck(f, flow, i)
        /\ Saved(f, flow.steps) /\ open' \subseteq open  BY <1>7, ReflowDoes
  <2> HIDE DEF f, i
  <2>2. f.status = "running" /\ SameLayers(f, flow)  BY <2>1 DEF EnteredSelfCheck
  <2>3. QED  BY <1>1, <1>2, <2>1, <2>2
<1>8. ASSUME NEW a \in BOOLEAN, RepeatPass(a) PROVE Progress
  <2> DEFINE h == AdvancePass(Mirrored)  f == EnterSelfCheck(h, flow.index, a)
  <2>1. /\ flow.status = "running" /\ FlowOK(f, code) /\ EnteredSelfCheck(f, h, flow.index)
        /\ SameLayers(h, flow) /\ h.status = flow.status
        /\ Saved(f, flow.steps) /\ open' \subseteq open  BY <1>8, RepeatPassDoes
  <2> HIDE DEF f, h
  <2>2. f.status = "running" /\ SameLayers(f, flow)
    BY <2>1 DEF EnteredSelfCheck, SameLayers
  <2>3. QED  BY <1>1, <1>2, <2>1, <2>2
<1>9. ASSUME NEW a \in BOOLEAN, RescuePass(a) PROVE Progress
  <2> DEFINE h == FlushTried(Mirrored)  g == EnterSelfCheck(h, flow.index, a)
             f == Reinject(g, Mirrored.stash)
  <2>1. /\ flow.status = "running" /\ FlowOK(f, code) /\ EnteredSelfCheck(g, h, flow.index)
        /\ SamePlace(f, g) /\ SameLayers(f, g)
        /\ SameLayers(h, flow) /\ h.status = flow.status
        /\ Saved(f, flow.steps) /\ open' \subseteq open  BY <1>9, RescuePassDoes
  <2> HIDE DEF f, g, h
  <2>2. f.status = "running" /\ SameLayers(f, flow)
    BY <2>1 DEF EnteredSelfCheck, SameLayers, SamePlace
  <2>3. QED  BY <1>1, <1>2, <2>1, <2>2
<1>10. ASSUME NEW a \in BOOLEAN, CloseWithFullRound(a) PROVE Progress
  <2> DEFINE h == CompleteClean(Mirrored)  f == EnterSelfCheck(h, flow.index, a)
  <2>1. /\ flow.status = "running" /\ FlowOK(f, code) /\ EnteredSelfCheck(f, h, flow.index)
        /\ SameLayers(h, flow) /\ h.status = flow.status
        /\ Saved(f, flow.steps) /\ open' \subseteq open  BY <1>10, CloseDoes
  <2> HIDE DEF f, h
  <2>2. f.status = "running" /\ SameLayers(f, flow)
    BY <2>1 DEF EnteredSelfCheck, SameLayers
  <2>3. QED  BY <1>1, <1>2, <2>1, <2>2
<1>11. ASSUME NEW a \in BOOLEAN, Advance(a) PROVE Progress
  <2> DEFINE i == flow.index + 1  t == flow.selected[i]
             f == IF t = "SELF_CHECK" THEN EnterSelfCheck(Departed, i, a) ELSE Entered(t)
  <2>1. /\ flow.status = "running" /\ FlowOK(f, code) /\ Saved(f, flow.steps)
        /\ open' \subseteq open /\ f.status = "running" /\ SameLayers(f, flow)
    BY <1>11, AdvanceDoes
  <2> HIDE DEF f
  <2>2. QED  BY <1>1, <1>2, <2>1
<1>12. QED  BY <1>3, <1>4, <1>5, <1>6, <1>7, <1>8, <1>9, <1>10, <1>11 DEF ToNewStep

LEMMA ToKnownStepProgress ==
  ASSUME Standing, ToKnownStep
  PROVE  Progress
<1>1. /\ flow \in FlowSet /\ flow.steps \in [Types -> Step] /\ Routed(flow)
      /\ UNCHANGED <<code, clean, reviewed, setup>>  BY StandingFlow, TransitionsLeave
<1>2. ASSUME NEW f, NEW bodies \in [Types -> Step], FlowOK(f, code), f.layers = flow.layers,
             f.status = "completed" => f.steps[f.current].status = "completed",
             flow.status = "running", Saved(f, bodies), open' \subseteq open
      PROVE  Progress  BY <1>1, <1>2, SavedProgress
<1>3. CASE ContinueImplement
  <2>1. /\ flow.status = "running" /\ FlowOK(Continued, code)
        /\ Saved(Continued, Counted.steps) /\ open' \subseteq open
        /\ Counted.steps \in [Types -> Step] /\ SameButSteps(Continued, flow)
    BY <1>3, ContinueDoes
  <2>2. Continued.layers = flow.layers /\ Continued.status = "running"
    BY <2>1 DEF SameButSteps, SamePlace, SameReview, SameLayers
  <2>3. QED  BY <1>2, <2>1, <2>2
<1>4. CASE FixesExhausted
  <2>1. flow.status = "running" /\ StepAndStatus(flow', flow, Cur, "failed")
    BY <1>1, <1>4, FixesExhaustedDoes
  <2>2. Scalars  BY <1>1, <1>4, ScalarsKept DEF FixesExhausted, Standing
  <2>3. QED  BY <1>1, <2>1, <2>2, StatusProgress DEF Routed
<1>5. CASE Complete
  <2>1. /\ flow.status = "running" /\ FlowOK(Ended, code) /\ Saved(Ended, flow.steps)
        /\ open' \subseteq open /\ SameLayers(Ended, flow) /\ Ended.current = flow.current
        /\ Cur.status = "completed"
        /\ Ended.steps[flow.current] = [Cur EXCEPT !.skipped = FALSE]
    BY <1>5, CompleteDoes
  <2>2. Ended.layers = flow.layers  BY <2>1 DEF SameLayers
  <2>3. Ended.steps[Ended.current].status = "completed"
    <3>1. Cur \in Step  BY StandingFlow
    <3>2. QED  BY <2>1, <3>1 DEF Step
  <2>4. QED  BY <1>1, <1>2, <2>1, <2>2, <2>3
<1>6. ASSUME NEW a \in BOOLEAN, LoopToFix(a) PROVE Progress
  <2> DEFINE f == ToFix(Marked, a)
  <2>1. /\ flow.status = "running" /\ FlowOK(f, code) /\ AtFix(f, Marked)
        /\ Saved(f, flow.steps) /\ open' \subseteq open  BY <1>6, LoopToFixDoes
  <2> HIDE DEF f
  <2>2. SameLayers(Marked, flow) /\ Marked.status = "running"
    BY <2>1, MarkedValues DEF SamePlace
  <2>3. f.layers = flow.layers /\ f.status = "running"  BY <2>1, <2>2 DEF AtFix, SameLayers
  <2>4. QED  BY <1>1, <1>2, <2>1, <2>3
<1>7. ASSUME NEW a \in BOOLEAN, PassThroughRuling(a) PROVE Progress
  <2> DEFINE f == ToFix(Unspliced, a)
  <2>1. /\ flow.status = "running" /\ FlowOK(f, code) /\ AtFix(f, Unspliced)
        /\ Saved(f, flow.steps) /\ open' \subseteq open  BY <1>7, PassThroughRulingDoes
  <2> HIDE DEF f
  <2>2. SameLayers(Unspliced, flow) /\ Unspliced.status = "running"
    BY <2>1, UnsplicedValues DEF SameReview
  <2>3. f.layers = flow.layers /\ f.status = "running"  BY <2>1, <2>2 DEF AtFix, SameLayers
  <2>4. QED  BY <1>1, <1>2, <2>1, <2>3
<1>8. ASSUME NEW a \in BOOLEAN, ToRevision(a) PROVE Progress
  <2> DEFINE f == Returned(a)
  <2>1. /\ flow.status = "running" /\ FlowOK(f, code) /\ Saved(f, flow.steps)
        /\ open' \subseteq open /\ f.status = "running" /\ f.layers = flow.layers
    BY <1>8, ToRevisionDoes
  <2> HIDE DEF f
  <2>2. QED  BY <1>1, <1>2, <2>1
<1>9. ASSUME NEW a \in BOOLEAN, RescueToFix(a) PROVE Progress
  <2> DEFINE f == ToFix(Rescued, a)
  <2>1. /\ RescueDue /\ FlowOK(f, code) /\ AtFix(f, Rescued)
        /\ Saved(f, Rescued.steps) /\ open' \subseteq open  BY <1>9, RescueToFixDoes
  <2> HIDE DEF f
  <2>2. SameLayers(Rescued, flow) /\ Rescued.status = flow.status /\ flow.status = "running"
        /\ Rescued.steps \in [Types -> Step]
    BY <1>1, <2>1, RescuedValues DEF SamePlace, FlowSet, RescueDue, Leaving
  <2>3. f.layers = flow.layers /\ f.status = "running"  BY <2>1, <2>2 DEF AtFix, SameLayers
  <2>4. QED  BY <1>2, <2>1, <2>2, <2>3
<1>10. QED  BY <1>3, <1>4, <1>5, <1>6, <1>7, <1>8, <1>9 DEF ToKnownStep

-----------------------------------------------------------------------------
(* The history of entries.                                                 *)

\* The configuration is fixed, and with it what a flow can hold.
LEMMA FlowSetKept ==
  ASSUME setup' = setup
  PROVE  /\ Findings' = Findings /\ FlowSet' = FlowSet /\ EntrySet' = EntrySet
         /\ \A e : Left(e)' <=> spent'[e] < setup.limit[e]
<1>1. Findings' = Findings  BY DEF Findings
<1>2. Step' = Step  BY <1>1, Zenon DEF Step
<1>3. FlowSet' = FlowSet  BY <1>1, <1>2, Zenon DEF FlowSet
<1>4. EntrySet' = EntrySet  BY <1>1, <1>3, Zenon DEF EntrySet
<1>5. QED  BY <1>1, <1>3, <1>4 DEF Left

LEMMA ProgressStands ==
  ASSUME Standing, Progress
  PROVE  /\ Standing' /\ setup' = setup /\ code \in Nat /\ code' \in Nat /\ code <= code'
         /\ flow.layers \in Nat /\ flow'.layers \in Nat /\ flow.layers <= flow'.layers
         /\ Left("restarts")' => Left("restarts")
<1>1. setup' = setup /\ Findings' = Findings /\ FlowSet' = FlowSet
  BY FlowSetKept DEF Progress, Scalars
<1>2. FlowOK(flow, code)'
  <2>1. flow' \in FlowSet'  BY <1>1 DEF Progress, FlowOK
  <2>2. Routed(flow)' /\ Grounded(flow, code)'
    BY DEF Progress, FlowOK, Routed, HasSlots, Grounded
  <2>3. QED  BY <2>1, <2>2 DEF FlowOK
<1>3. /\ setup' \in Setups /\ spent' \in [Event -> Nat] /\ code' \in Nat /\ reviewed' \in 0..code'
      /\ clean' \in Nat /\ open' \subseteq Findings'
      /\ code <= code'  BY <1>1 DEF Progress, Scalars, Standing
<1>4. flow'.status = "completed" => Cur'.status = "completed"  BY DEF Progress, Cur
<1>5. flow.layers \in Nat /\ flow'.layers \in Nat /\ flow.layers <= flow'.layers
  BY DEF Standing, Progress, FlowOK, FlowSet
<1>6. Left("restarts")' => Left("restarts")
  <2>1. spent["restarts"] \in Nat /\ spent'["restarts"] \in Nat
        /\ spent'["restarts"] >= spent["restarts"] /\ setup.limit["restarts"] \in Nat
    BY EngineAssumption DEF Progress, Scalars, Standing, Event
  <2>2. QED  BY <1>1, <2>1 DEF Left
<1>7. QED  BY <1>1, <1>2, <1>3, <1>4, <1>5, <1>6 DEF Standing

LEMMA LastIn ==
  ASSUME NEW h, NEW t, Len(h) \in Nat
  PROVE  /\ LastOf(h, t) \in 0..Len(h)
         /\ \A i \in 1..Len(h) : h[i].flow.current = t => i <= LastOf(h, t)
         /\ LastOf(h, t) > 0 => h[LastOf(h, t)].flow.current = t
<1> DEFINE I == {i \in 1..Len(h) : h[i].flow.current = t}
<1>1. LastOf(h, t) = IF I # {} THEN Max(I) ELSE 0  BY DEF LastOf, SelectLastInSeq
<1>2. I # {} => Max(I) \in I /\ \A j \in I : j <= Max(I)
  <2>1. I \in SUBSET (1..Len(h)) /\ Len(h) \in Nat  OBVIOUS
  <2> HIDE DEF I
  <2> QED  BY <2>1, LastPosition
<1>3. QED  BY <1>1, <1>2

LEMMA PositionIs ==
  \A t : PositionOf(t) = LastOf(history, t) /\ PositionOf(t)' = LastOf(history', t)
BY DEF PositionOf, LastOf, SelectLastInSeq

LEMMA EntriesTyped ==
  ASSUME history \in Seq(EntrySet)
  PROVE  /\ Len(history) \in Nat
         /\ \A i \in 1..Len(history) :
              /\ history[i] \in EntrySet /\ history[i].flow \in FlowSet
              /\ history[i].code \in Nat /\ history[i].clean \in Nat
              /\ history[i].open \subseteq Findings /\ history[i].flow.layers \in Nat
<1> DEFINE E == EntrySet  F == FlowSet
<1>1. \A f \in F : f.layers \in Nat  BY DEF FlowSet
<1> HIDE DEF F
<1>2. \A e \in E : e.flow \in F /\ e.code \in Nat /\ e.clean \in Nat /\ e.open \subseteq Findings
  BY DEF EntrySet, F
<1> HIDE DEF E
<1>3. history \in Seq(E)  BY DEF E
<1>4. Len(history) \in Nat /\ \A i \in 1..Len(history) : history[i] \in E  BY ONLY <1>3
<1>5. QED  BY <1>1, <1>2, <1>4 DEF E, F

\* Whatever leaves the snapshots alone.
LEMMA HistoryKept ==
  ASSUME RewindInv, Progress, history' = history, entered' \subseteq entered,
         behind' \in BOOLEAN, revised' \in 1..flow'.layers
  PROVE  RewindInv'
<1>1. /\ Standing' /\ setup' = setup /\ code \in Nat /\ code' \in Nat /\ code <= code'
      /\ flow.layers \in Nat /\ flow'.layers \in Nat /\ flow.layers <= flow'.layers
      /\ Left("restarts")' => Left("restarts")  BY ProgressStands DEF RewindInv
<1>2. FlowSet' = FlowSet /\ EntrySet' = EntrySet  BY <1>1, FlowSetKept
<1>3. history' \in Seq(EntrySet')  BY <1>2 DEF RewindInv
<1>4. ASSUME NEW i \in 1..Len(history) PROVE EntryOK(history[i], code, flow.layers)'
  <2> DEFINE e == history[i]
  <2>1. EntryOK(e, code, flow.layers)  BY DEF RewindInv
  <2>2. e' = e  BY <1>4
  <2>3. e.code \in Nat /\ e.flow.layers \in Nat  BY EntriesTyped DEF RewindInv
  <2>4. e.code <= code' /\ e.flow.layers <= flow'.layers  BY <1>1, <2>1, <2>3 DEF EntryOK
  <2>5. FlowOK(e.flow, e.code)'
    BY <1>2, <2>1, <2>2 DEF EntryOK, FlowOK, Routed, HasSlots, Grounded
  <2>6. QED  BY <2>1, <2>2, <2>4, <2>5 DEF EntryOK
<1>5. entered' \subseteq Types /\ (Left("restarts")' => \A t \in entered' : PositionOf(t)' > 0)
  BY <1>1, PositionIs DEF RewindInv
<1>6. QED  BY <1>1, <1>3, <1>4, <1>5 DEF RewindInv

LEMMA StoppedProgress ==
  ASSUME Standing, UNCHANGED vars
  PROVE  Progress
<1>1. UNCHANGED <<setup, flow, code, open, clean, reviewed, spent>>  BY DEF vars
<1>2. Scalars
  <2>1. code \in Nat /\ clean \in Nat /\ open \subseteq Findings /\ reviewed \in 0..code
    BY DEF Standing
  <2>2. QED  BY <1>1, <2>1, ScalarsKept
<1>3. flow.layers \in Nat  BY DEF Standing, FlowOK, FlowSet
<1>4. QED  BY <1>1, <1>2, <1>3 DEF Progress, Standing, Cur

\* A step that begins is pending in a flow that runs.
LEMMA BeginsPending ==
  ASSUME Begin
  PROVE  flow.status = "running" /\ Cur.status = "pending"
<1>1. Start => flow.status = "running" /\ Cur.status = "pending"  BY DEF Start
<1>2. \A u \in BOOLEAN : StartSelfCheck(u) => flow.status = "running" /\ Cur.status = "pending"
  BY DEF StartSelfCheck
<1>3. QED  BY <1>1, <1>2 DEF Begin

LEMMA EntersKeeps ==
  ASSUME RewindInv, Enters
  PROVE  RewindInv'
<1>1. /\ Begin /\ Progress /\ Standing  BY BeginProgress DEF RewindInv, Enters
<1>2. /\ Standing' /\ setup' = setup /\ code \in Nat /\ code' \in Nat /\ code <= code'
      /\ flow.layers \in Nat /\ flow'.layers \in Nat /\ flow.layers <= flow'.layers
      /\ Left("restarts")' => Left("restarts")  BY <1>1, ProgressStands
<1>3. behind' \in BOOLEAN /\ revised' \in 1..flow'.layers  BY <1>2 DEF Enters, RewindInv
<1>4. CASE ~(Left("restarts") /\ flow.current \notin entered)
  <2>1. history' = history /\ entered' = entered  BY <1>4 DEF Enters, SnapshotEntry
  <2>2. QED  BY <1>1, <1>3, <2>1, HistoryKept
<1>5. CASE Left("restarts") /\ flow.current \notin entered
  <2> DEFINE e == Entry(flow)  E == EntrySet  h == history'
  <2>1. h = Append(history, e) /\ entered' = entered \cup {flow.current}
    BY <1>5 DEF Enters, SnapshotEntry
  <2>2. e \in E /\ EntryOK(e, code', flow'.layers)
    <3>1. /\ e.flow = flow /\ e.code = code /\ e.clean = clean /\ e.open = open
          /\ e = [flow |-> flow, code |-> code, clean |-> clean, open |-> open]
      BY DEF Entry
    <3> HIDE DEF e, E
    <3>2. flow.status = "running" /\ flow.steps[flow.current].status = "pending"
      BY <1>1, BeginsPending DEF Cur
    <3>3. FlowOK(flow, code) /\ clean \in Nat /\ open \subseteq Findings
      BY <1>1 DEF Standing
    <3>4. e \in E  BY <1>2, <3>1, <3>3 DEF E, EntrySet, FlowOK
    <3>5. EntryOK(e, code', flow'.layers)  BY <1>2, <3>1, <3>2, <3>3 DEF EntryOK
    <3>6. QED  BY <3>4, <3>5
  <2>3. history \in Seq(E) /\ Len(history) \in Nat  BY EntriesTyped DEF RewindInv
  <2> HIDE DEF e, E
  <2>4. /\ h \in Seq(E) /\ Len(h) = Len(history) + 1 /\ h[Len(h)] = e
        /\ \A i \in 1..Len(history) : h[i] = history[i]  BY <2>1, <2>2, <2>3
  <2>5. ASSUME NEW i \in 1..Len(h) PROVE EntryOK(h[i], code', flow'.layers)
    <3>1. CASE i \in 1..Len(history)
      <4>1. EntryOK(history[i], code, flow.layers)  BY <3>1 DEF RewindInv
      <4>2. history[i].code \in Nat /\ history[i].flow.layers \in Nat
        BY <3>1, EntriesTyped DEF RewindInv
      <4>3. history[i].code <= code' /\ history[i].flow.layers <= flow'.layers
        BY <1>2, <4>1, <4>2 DEF EntryOK
      <4>4. EntryOK(history[i], code', flow'.layers)  BY <4>1, <4>3 DEF EntryOK
      <4>5. QED  BY <2>4, <3>1, <4>4
    <3>2. CASE i \notin 1..Len(history)
      <4>1. i = Len(h)  BY <2>3, <2>4, <3>2
      <4>2. QED  BY <2>2, <2>4, <4>1
    <3>3. QED  BY <3>1, <3>2
  <2>6. EntrySet' = E /\ FlowSet' = FlowSet  BY <1>2, FlowSetKept DEF E
  <2>7. \A i \in 1..Len(h) : EntryOK(history[i], code, flow.layers)'
    BY <2>5, <2>6 DEF EntryOK, FlowOK, Routed, HasSlots, Grounded
  <2>8. \A t \in entered' : PositionOf(t)' > 0
    <3> SUFFICES ASSUME NEW t \in entered' PROVE LastOf(h, t) > 0  BY PositionIs
    <3>1. \E i \in 1..Len(h) : h[i].flow.current = t
      <4>1. CASE t = flow.current
        <5>1. e.flow.current = t  BY <4>1 DEF e, Entry
        <5>2. Len(h) \in 1..Len(h)  BY <2>3, <2>4
        <5>3. QED  BY <2>4, <5>1, <5>2
      <4>2. CASE t # flow.current
        <5>1. LastOf(history, t) > 0  BY <1>5, <2>1, <4>2, PositionIs DEF RewindInv
        <5>2. /\ LastOf(history, t) \in 1..Len(history)
              /\ history[LastOf(history, t)].flow.current = t  BY <2>3, <5>1, LastIn
        <5>3. QED  BY <2>3, <2>4, <5>2
      <4>3. QED  BY <4>1, <4>2
    <3>2. Len(h) \in Nat  BY <2>3, <2>4
    <3>3. QED  BY <3>1, <3>2, LastIn
  <2>9. entered' \subseteq Types  BY <2>1, <1>1 DEF RewindInv, Standing, FlowOK, FlowSet
  <2>10. h \in Seq(EntrySet')  BY <2>4, <2>6
  <2>11. QED  BY <1>2, <1>3, <2>7, <2>8, <2>9, <2>10 DEF RewindInv
<1>6. QED  BY <1>4, <1>5

\* What keeps the history.
LEMMA OthersKeep ==
  ASSUME RewindInv, Adds \/ Revises \/ LeavesHistory
  PROVE  RewindInv'
<1>1. CASE Adds
  <2>1. Progress /\ history' = history /\ entered' \subseteq entered /\ behind' = behind
        /\ revised' = revised  BY <1>1, ToNewStepProgress DEF RewindInv, Adds
  <2>2. behind' \in BOOLEAN /\ revised' \in 1..flow'.layers
    BY <2>1, ProgressStands DEF RewindInv
  <2>3. QED  BY <2>1, <2>2, HistoryKept
<1>2. CASE Revises
  <2>1. Progress /\ history' = history /\ entered' = entered /\ behind' = behind
        /\ revised' = flow'.layer /\ Revise
    BY <1>2, OperatorProgress DEF RewindInv, Revises, Operator
  <2>2. flow \in FlowSet /\ flow.layers \in Nat  BY DEF RewindInv, Standing, FlowOK, FlowSet
  <2>3. flow'.layers = flow.layers + 1 /\ flow'.layer = flow.layers + 1
    BY <2>1, <2>2, ReviseDoes
  <2>4. behind' \in BOOLEAN /\ revised' \in 1..flow'.layers
    BY <2>1, <2>2, <2>3 DEF RewindInv
  <2>5. QED  BY <2>1, <2>4, HistoryKept
<1>3. CASE LeavesHistory
  <2>1. history' = history /\ entered' = entered /\ behind' = behind /\ revised' = revised
    BY <1>3 DEF LeavesHistory, rewindVars
  <2>2. Progress
    <3>1. CASE Handlers  BY <3>1, HandlersProgress DEF RewindInv
    <3>2. CASE Retry \/ Skip \/ GiveUp  BY <3>2, OperatorProgress DEF RewindInv, Operator
    <3>3. CASE ToKnownStep  BY <3>3, ToKnownStepProgress DEF RewindInv
    <3>4. CASE Stopped  BY <3>4, StoppedProgress DEF RewindInv, Stopped
    <3>5. QED  BY <1>3, <3>1, <3>2, <3>3, <3>4 DEF LeavesHistory
  <2>3. behind' \in BOOLEAN /\ revised' \in 1..flow'.layers
    BY <2>1, <2>2, ProgressStands DEF RewindInv
  <2>4. QED  BY <2>1, <2>2, <2>3, HistoryKept
<1>4. QED  BY <1>1, <1>2, <1>3

-----------------------------------------------------------------------------
(* Restarts.                                                               *)

LEMMA LargerOfTwo ==
  ASSUME NEW a \in Nat, NEW b \in Nat
  PROVE  Max({a, b}) = IF a >= b THEN a ELSE b
<1> DEFINE S == {a, b}
<1>1. \E x \in S : \A y \in S : x >= y  OBVIOUS
<1>2. Max(S) \in S /\ \A y \in S : Max(S) >= y  BY <1>1, Zenon DEF Max
<1>3. QED  BY <1>2

LEMMA StepsBeforeValues ==
  ASSUME RewindInv, NEW i \in 1..Len(history)
  PROVE  /\ StepsBefore(i) \in [Types -> Step]
         /\ \A t \in Types :
              StepsBefore(i)[t] =
                IF PositionOf(t) \in 1..(i - 1) /\ flow.steps[t] # NoStep
                THEN flow.steps[t] ELSE history[i].flow.steps[t]
<1>1. flow.steps \in [Types -> Step] /\ history[i].flow.steps \in [Types -> Step]
  BY EntriesTyped, StandingFlow DEF RewindInv, FlowSet
<1>2. QED  BY <1>1 DEF StepsBefore

LEMMA WithStepsValues ==
  ASSUME NEW f \in FlowSet, NEW H \in [Types -> Step], NEW l \in Nat, NEW a \in Nat, NEW b \in Nat
  PROVE  AtSteps(WithSteps(f, H, l, a, b), f, H, l, a, b)
<1> DEFINE B == Seq(Baseline)  S == Seq(Types)  J == [Types -> Step]  R == Rounds
<1> HIDE DEF B, S, J, R
<1>1. H \in J  BY DEF J
<1>2. QED  BY <1>1 DEF WithSteps, AtSteps, FlowSet, SamePlace, SameRound, B, S, J, R

LEMMA RestoredValues ==
  ASSUME RewindInv, NEW i \in 1..Len(history), NEW l \in Nat, flow.layers <= l, NEW n \in 1..l
  PROVE  LET f == history[i].flow  g == Restored(i, l, n) IN
         /\ FlowOK(g, code) /\ SamePlace(g, f) /\ SameRound(g, f)
         /\ g.fixBaselines = f.fixBaselines /\ g.stash = f.stash
         /\ g.steps = StepsBefore(i) /\ g.layers = l /\ g.layer >= n /\ g.beforeRuling >= n
         /\ f \in FlowSet /\ f.status = "running"
<1> DEFINE f == history[i].flow  g == Restored(i, l, n)
           keeps == PositionOf("ADJUDICATE") \in 1..(i - 1)
           was == IF keeps THEN flow ELSE f
           a == Max({was.layer, n})
           b == Max({was.beforeRuling, n})
<1>1. /\ f \in FlowSet /\ flow \in FlowSet /\ FlowOK(f, history[i].code) /\ FlowOK(flow, code)
      /\ history[i].code \in Nat /\ code \in Nat /\ history[i].code <= code
      /\ f.layers \in Nat /\ flow.layers \in Nat /\ f.layers <= flow.layers
      /\ f.status = "running"
  BY EntriesTyped, StandingFlow DEF RewindInv, EntryOK, Standing, FlowSet
<1>2. /\ was.layer \in Nat /\ was.beforeRuling \in Nat /\ was.layer <= l /\ was.beforeRuling <= l
  <2>1. ASSUME NEW x, x \in FlowSet, NEW c, FlowOK(x, c), x.layers <= l
        PROVE  /\ x.layer \in Nat /\ x.beforeRuling \in Nat
               /\ x.layer <= l /\ x.beforeRuling <= l
    <3>1. x.layer \in Nat /\ x.beforeRuling \in Nat /\ x.layers \in Nat  BY <2>1 DEF FlowSet
    <3>2. x.layer <= x.layers /\ x.beforeRuling <= x.layers  BY <2>1 DEF FlowOK, Grounded
    <3>3. QED  BY ONLY <2>1, <3>1, <3>2, l \in Nat
  <2>2. f.layers <= l  BY <1>1
  <2> HIDE DEF f
  <2>3. CASE keeps  BY <1>1, <2>1, <2>3
  <2>4. CASE ~keeps  BY <1>1, <2>1, <2>2, <2>4
  <2>5. QED  BY <2>3, <2>4
<1>3. a \in Nat /\ a <= l /\ n <= a /\ b \in Nat /\ b <= l /\ n <= b
  <2> HIDE DEF was
  <2>1. a = IF was.layer >= n THEN was.layer ELSE n  BY <1>2, LargerOfTwo
  <2>2. b = IF was.beforeRuling >= n THEN was.beforeRuling ELSE n  BY <1>2, LargerOfTwo
  <2>3. QED  BY <1>2, <2>1, <2>2
<1>4. g = WithSteps(f, StepsBefore(i), l, a, b)  BY Zenon DEF Restored, WithSteps
<1>5. StepsBefore(i) \in [Types -> Step]  BY StepsBeforeValues
<1> HIDE DEF was, a, b, g, f
<1>6. /\ g \in FlowSet /\ SamePlace(g, f) /\ SameRound(g, f)
      /\ g.fixBaselines = f.fixBaselines /\ g.stash = f.stash
      /\ g.steps = StepsBefore(i) /\ g.layers = l /\ g.layer = a /\ g.beforeRuling = b
  <2>1. AtSteps(g, f, StepsBefore(i), l, a, b)  BY <1>1, <1>3, <1>4, <1>5, WithStepsValues
  <2>2. QED  BY <2>1 DEF AtSteps
<1>7. FlowOK(f, code)  BY <1>1, OlderCode
<1>8. FlowOK(g, code)
  BY <1>3, <1>6, <1>7 DEF FlowOK, Routed, HasSlots, Grounded, SamePlace, SameRound
<1>9. g.layer >= n /\ g.beforeRuling >= n  BY <1>3, <1>6
<1>10. QED  BY <1>1, <1>6, <1>8, <1>9 DEF g, f

LEMMA RebuiltValues ==
  ASSUME NEW f, FlowOK(f, code), f.status = "running", NEW u \in BOOLEAN
  PROVE  LET g == Rebuilt(f, u) IN
         /\ FlowOK(g, code) /\ SameLayers(g, f) /\ g.status = "running"
         /\ g.selected = f.selected /\ g.index = f.index /\ g.current = f.current
         /\ f.current = "SELF_CHECK" =>
              g = EnterSelfCheck(f, f.index, u) /\ EnteredSelfCheck(g, f, f.index)
         /\ f.current # "SELF_CHECK" =>
              /\ g = Enter(f, f.current, f.index, Anew)
              /\ SameReview(g, f) /\ g.reviews = f.reviews /\ g.fixes = f.fixes
              /\ g.newest = IF f.current = "CONFIRM" THEN f.newest ELSE f.current
              /\ g.steps[f.current] = Anew
              /\ \A t \in Types \ {f.current} :
                   g.steps[t] = IF t \in Kept(f, f.current) THEN f.steps[t] ELSE NoStep
<1> DEFINE g == Rebuilt(f, u)
<1>1. /\ f \in FlowSet /\ f.current \in Types /\ f.index \in Nat /\ f.index \in 1..Len(f.selected)
      /\ HasSlots(f) /\ Grounded(f, code) /\ Len(f.selected) \in Nat
  BY FlowLengths DEF FlowOK, FlowSet, Routed
<1>2. CASE f.current = "SELF_CHECK"
  <2>1. g = EnterSelfCheck(f, f.index, u)  BY <1>2 DEF Rebuilt
  <2> HIDE DEF g
  <2>2. FlowOK(g, code) /\ EnteredSelfCheck(g, f, f.index)
    BY <1>1, <2>1, EnterSelfCheckOK, EnterSelfCheckValues
  <2>3. QED  BY <1>2, <2>1, <2>2 DEF EnteredSelfCheck, SameLayers, g
<1>3. CASE f.current # "SELF_CHECK"
  <2>1. g = Enter(f, f.current, f.index, Anew)  BY <1>3 DEF Rebuilt, Anew
  <2>2. Anew \in Step  BY NewStepTyped DEF Anew, NewStep, Step
  <2> HIDE DEF g
  <2>3. /\ g \in FlowSet /\ SameReview(g, f)
        /\ g.selected = f.selected /\ g.index = f.index /\ g.current = f.current
        /\ g.newest = IF f.current = "CONFIRM" THEN f.newest ELSE f.current
        /\ g.reviews = f.reviews /\ g.status = f.status /\ g.fixes = f.fixes
        /\ g.steps[f.current] = Anew
        /\ \A t \in Types \ {f.current} :
             g.steps[t] = IF t \in Kept(f, f.current) THEN f.steps[t] ELSE NoStep
    BY <1>1, <2>1, <2>2, EnterValues
  <2>4. FlowOK(g, code)  BY <1>1, <2>3
       DEF FlowOK, Routed, HasSlots, Grounded, SameReview, SameRound, SameLayers
  <2>5. QED  BY <1>3, <2>1, <2>3, <2>4 DEF SameReview, g
<1>4. QED  BY <1>2, <1>3

LEMMA RestartDoes ==
  ASSUME RewindInv, NEW i \in 1..Len(history), NEW r \in BOOLEAN, NEW u \in BOOLEAN,
         Restart(i, r, u)
  PROVE  LET e == history[i]
             g == Restored(i, LayersThen(r), NewestThen(r))
         IN /\ i \in 1..PositionOf(flow.current) /\ Left("restarts")
            /\ flow.status = "running"
            /\ LayersThen(r) \in Nat /\ flow.layers <= LayersThen(r)
            /\ NewestThen(r) \in 1..LayersThen(r)
            /\ flow' = RestartedFlow(i, r, u) /\ revised' = NewestThen(r)
            /\ FlowOK(g, code) /\ SamePlace(g, e.flow) /\ SameRound(g, e.flow)
            /\ g.fixBaselines = e.flow.fixBaselines /\ g.stash = e.flow.stash
            /\ g.steps = StepsBefore(i) /\ g.layers = LayersThen(r)
            /\ FlowOK(flow', code) /\ flow'.layers = LayersThen(r) /\ flow'.status = "running"
            /\ clean' = IF code = e.code /\ flow'.layer = e.flow.layer THEN e.clean ELSE 0
            /\ open' = open \cap e.open \cap Held(flow')
            /\ behind' = (behind \/ WentBehind(i, flow'))
            /\ history' = IF spent.restarts + 1 < setup.limit.restarts
                          THEN SubSeq(history, 1, i - 1) ELSE << >>
            /\ entered' = IF spent.restarts + 1 < setup.limit.restarts
                          THEN {history[j].flow.current : j \in 1..(i - 1)} \ {flow'.current}
                          ELSE {}
            /\ spent' = [spent EXCEPT !.restarts = @ + 1, !.revisions = IF r THEN @ + 1 ELSE @]
            /\ UNCHANGED <<code, reviewed, setup>>
<1> DEFINE e == history[i]  l == LayersThen(r)  n == NewestThen(r)
           g == Restored(i, l, n)  f == RestartedFlow(i, r, u)
<1>1. flow.layers \in Nat /\ revised \in 1..flow.layers
  BY DEF RewindInv, Standing, FlowOK, FlowSet
<1>2. l \in Nat /\ flow.layers <= l /\ n \in 1..l  BY <1>1 DEF LayersThen, NewestThen
<1>3. /\ flow' = f /\ revised' = n
      /\ clean' = IF code = e.code /\ f.layer = e.flow.layer THEN e.clean ELSE 0
      /\ open' = open \cap e.open \cap Held(f)
      /\ behind' = (behind \/ WentBehind(i, f))
      /\ history' = IF spent.restarts + 1 < setup.limit.restarts
                    THEN SubSeq(history, 1, i - 1) ELSE << >>
      /\ entered' = IF spent.restarts + 1 < setup.limit.restarts
                    THEN {history[j].flow.current : j \in 1..(i - 1)} \ {f.current} ELSE {}
      /\ spent' = [spent EXCEPT !.restarts = @ + 1, !.revisions = IF r THEN @ + 1 ELSE @]
      /\ UNCHANGED <<code, reviewed, setup>>
  BY Zenon DEF Restart, RestartedFlow, LayersThen, NewestThen
<1>4. i \in 1..PositionOf(flow.current) /\ Left("restarts") /\ flow.status = "running"
  BY DEF Restart, Targets
<1> HIDE DEF l, n
<1>5. /\ FlowOK(g, code) /\ SamePlace(g, e.flow) /\ SameRound(g, e.flow)
      /\ g.fixBaselines = e.flow.fixBaselines /\ g.stash = e.flow.stash
      /\ g.steps = StepsBefore(i) /\ g.layers = l /\ e.flow.status = "running"
  BY <1>2, RestoredValues
<1>6. f = Rebuilt(g, u)  BY DEF RestartedFlow, l, n
<1> HIDE DEF f, g, e
<1>7. g.status = "running"  BY <1>5 DEF SamePlace
<1>8. FlowOK(f, code) /\ SameLayers(f, g) /\ f.status = "running"
  BY <1>5, <1>6, <1>7, RebuiltValues
<1>9. f.layers = l  BY <1>5, <1>8 DEF SameLayers
<1>10. QED
  <2>1. /\ clean' = IF code = e.code /\ flow'.layer = e.flow.layer THEN e.clean ELSE 0
        /\ open' = open \cap e.open \cap Held(flow')
        /\ behind' = (behind \/ WentBehind(i, flow'))
        /\ entered' = IF spent.restarts + 1 < setup.limit.restarts
                      THEN {history[j].flow.current : j \in 1..(i - 1)} \ {flow'.current}
                      ELSE {}
        /\ FlowOK(flow', code) /\ flow'.layers = l /\ flow'.status = "running"
    BY <1>3, <1>8, <1>9
  <2>2. QED  BY <1>2, <1>3, <1>4, <1>5, <2>1 DEF e, f, g, l, n

LEMMA RestartKeeps ==
  ASSUME RewindInv, NEW i \in 1..Len(history), NEW r \in BOOLEAN, NEW u \in BOOLEAN,
         Restart(i, r, u)
  PROVE  Progress /\ RewindInv'
<1> DEFINE e == history[i]  E == EntrySet  h == SubSeq(history, 1, i - 1)
           again == spent.restarts + 1 < setup.limit.restarts
<1>1. /\ LayersThen(r) \in Nat /\ flow.layers <= LayersThen(r)
      /\ NewestThen(r) \in 1..LayersThen(r)
      /\ FlowOK(flow', code) /\ flow'.layers = LayersThen(r) /\ flow'.status = "running"
      /\ clean' = IF code = e.code /\ flow'.layer = e.flow.layer THEN e.clean ELSE 0
      /\ open' = open \cap e.open \cap Held(flow')
      /\ behind' = (behind \/ WentBehind(i, flow')) /\ revised' = NewestThen(r)
      /\ spent' = [spent EXCEPT !.restarts = @ + 1, !.revisions = IF r THEN @ + 1 ELSE @]
      /\ UNCHANGED <<code, reviewed, setup>>  BY RestartDoes
<1>2. IF again
      THEN /\ history' = h
           /\ entered' = {history[j].flow.current : j \in 1..(i - 1)} \ {flow'.current}
      ELSE history' = << >> /\ entered' = {}  BY RestartDoes
<1>3. /\ code \in Nat /\ reviewed \in 0..code /\ open \subseteq Findings
      /\ spent \in [Event -> Nat] /\ flow.layers \in Nat /\ Standing
  BY DEF RewindInv, Standing, FlowOK, FlowSet
<1>4. e.clean \in Nat  BY EntriesTyped DEF RewindInv
<1>5. spent' \in [Event -> Nat] /\ \A x \in Event : spent'[x] >= spent[x]
  <2> DEFINE K == [spent EXCEPT !.restarts = @ + 1]  T == [Event -> Nat]
  <2>1. "restarts" \in Event /\ "revisions" \in Event  BY DEF Event
  <2>2. K \in T /\ \A x \in Event : K[x] >= spent[x]
    <3> HIDE DEF T
    <3>1. /\ K["restarts"] = spent["restarts"] + 1
          /\ \A x \in Event \ {"restarts"} : K[x] = spent[x]  BY <1>3, <2>1
    <3>2. \A x \in Event : spent[x] \in Nat  BY <1>3
    <3>3. \A x \in Event : K[x] \in Nat /\ K[x] >= spent[x]
      <4> HIDE DEF K
      <4> QED  BY ONLY <3>1, <3>2
    <3>4. K \in T  BY <1>3, <3>3 DEF T
    <3>5. QED  BY <3>3, <3>4
  <2>3. spent' = [K EXCEPT !.revisions = IF r THEN @ + 1 ELSE @]  BY <1>1
  <2> HIDE DEF K
  <2>4. /\ spent' \in T /\ spent'["revisions"] = IF r THEN K["revisions"] + 1 ELSE K["revisions"]
        /\ \A x \in Event \ {"revisions"} : spent'[x] = K[x]  BY <2>1, <2>2, <2>3
  <2>5. \A x \in Event : spent[x] \in Nat /\ K[x] \in Nat  BY <1>3, <2>2
  <2>6. \A x \in Event : spent'[x] >= spent[x]  BY ONLY <2>2, <2>4, <2>5
  <2>7. QED  BY <2>4, <2>6
<1>6. Progress
  <2>1. clean' \in Nat /\ open' \subseteq Findings /\ code' = code  BY <1>1, <1>3, <1>4
  <2>2. Scalars  BY <1>1, <1>3, <1>5, <2>1 DEF Scalars
  <2>3. QED  BY <1>1, <2>1, <2>2 DEF Progress
<1>7. /\ Standing' /\ setup' = setup /\ code' = code /\ flow.layers <= flow'.layers
      /\ flow'.layers \in Nat  BY <1>1, <1>3, <1>6, ProgressStands
<1>8. history \in Seq(E) /\ Len(history) \in Nat  BY EntriesTyped DEF RewindInv
<1>9. E' = E /\ FlowSet' = FlowSet  BY <1>7, FlowSetKept
<1>10. /\ history' \in Seq(E) /\ Len(history') \in 0..(i - 1)
       /\ \A j \in 1..Len(history') : history'[j] = history[j]
       /\ again => Len(history') = i - 1
  <2> HIDE DEF E
  <2>1. CASE again
    <3>1. h \in Seq(E) /\ Len(h) = i - 1 /\ \A j \in 1..(i - 1) : h[j] = history[j]
      BY <1>8, i \in 1..Len(history)
    <3>2. QED  BY <1>2, <2>1, <3>1
  <2>2. CASE ~again
    <3>1. history' = << >>  BY <1>2, <2>2
    <3>2. QED  BY <2>2, <3>1
  <2>3. QED  BY <2>1, <2>2
<1>11. ASSUME NEW j \in 1..Len(history') PROVE EntryOK(history[j], code, flow.layers)'
  <2>1. j \in 1..Len(history) /\ history'[j] = history[j]  BY <1>8, <1>10
  <2>2. EntryOK(history[j], code, flow.layers)  BY <2>1 DEF RewindInv
  <2>3. history[j].flow.layers \in Nat  BY <2>1, EntriesTyped DEF RewindInv
  <2>4. history[j].code <= code' /\ history[j].flow.layers <= flow'.layers
    BY <1>3, <1>7, <2>2, <2>3 DEF EntryOK
  <2>5. FlowOK(history[j].flow, history[j].code)'
    BY <1>9, <2>1, <2>2 DEF EntryOK, FlowOK, Routed, HasSlots, Grounded
  <2>6. QED  BY <2>1, <2>2, <2>4, <2>5 DEF EntryOK
<1>12. entered' \subseteq Types /\ \A t \in entered' : PositionOf(t)' > 0
  <2>1. CASE again
    <3>1. ASSUME NEW t \in entered' PROVE t \in Types /\ LastOf(history', t) > 0
      <4>1. PICK j \in 1..(i - 1) : t = history[j].flow.current  BY <1>2, <2>1, <3>1
      <4>2. j \in 1..Len(history') /\ history'[j].flow.current = t /\ Len(history') \in Nat
        BY <1>10, <2>1, <4>1
      <4>3. LastOf(history', t) > 0  BY <4>2, LastIn
      <4>4. history[j].flow \in FlowSet  BY <1>8, <4>1, EntriesTyped DEF RewindInv
      <4>5. QED  BY <4>1, <4>3, <4>4 DEF FlowSet
    <3>2. QED  BY <3>1, PositionIs
  <2>2. CASE ~again  BY <1>2, <2>2
  <2>3. QED  BY <2>1, <2>2
<1>13. behind' \in BOOLEAN /\ revised' \in 1..flow'.layers  BY <1>1 DEF RewindInv
<1>14. history' \in Seq(EntrySet')  BY <1>9, <1>10
<1>15. QED  BY <1>6, <1>7, <1>11, <1>12, <1>13, <1>14 DEF RewindInv

LEMMA InitStands ==
  ASSUME RewindInit
  PROVE  RewindInv
<1> DEFINE s == [t \in Types |-> IF t = Base[1] THEN NewStep ELSE NoStep]
           f == [selected |-> Base, index |-> 1, current |-> Base[1],
             newest |-> Base[1], reviews |-> Base[1], status |-> "running",
             steps |-> s,
             fixes |-> 0, active |-> NoRound, fullOccurred |-> FALSE,
             forced |-> FALSE, closure |-> FALSE, fingerprint |-> 0,
             fixBaselines |-> << >>, covered |-> 0,
             stash |-> {},
             layer |-> 1, layers |-> 1, beforeRuling |-> 1]
<1>1. /\ setup \in Setups /\ flow = f
      /\ code = 0 /\ open = {} /\ clean = 0 /\ reviewed = 0
      /\ spent = [e \in Event |-> 0]
      /\ history = << >> /\ entered = {} /\ revised = 1 /\ behind = FALSE
  BY DEF RewindInit, Init
<1>2. /\ Base \in Seq(Types \ {"ADJUDICATE"}) /\ Base # << >>
      /\ {"IMPLEMENT", "SELF_CHECK"} \subseteq Range(Base)
  BY <1>1, EngineAssumption DEF Base
<1>3. /\ Base \in Seq(Types) /\ Len(Base) \in Nat /\ Len(Base) >= 1 /\ Base[1] \in Types
      /\ \E i \in 1..Len(Base) : Base[i] = "IMPLEMENT"
      /\ \E i \in 1..Len(Base) : Base[i] = "SELF_CHECK"
  <2> DEFINE B == Base  T == Types
  <2>1. B \in Seq(T)  BY <1>2
  <2>2. DOMAIN B = 1..Len(B) /\ Len(B) \in Nat /\ (B # << >> => Len(B) >= 1)
    <3> HIDE DEF B, T
    <3> QED  BY <2>1
  <2>3. \A t : t \in Range(B) => \E i \in DOMAIN B : B[i] = t  BY DEF Range
  <2> HIDE DEF T
  <2>4. B[1] \in T  BY <1>2, <2>1, <2>2
  <2>5. QED  BY <1>2, <2>1, <2>2, <2>3, <2>4 DEF T
<1>4. s \in [Types -> Step]  BY NewStepTyped
<1>5. f \in FlowSet
  <2> DEFINE S == Seq(Types)  B == Seq(Baseline)  J == [Types -> Step]
  <2>1. << >> \in B /\ Base \in S /\ s \in J  BY <1>3, <1>4
  <2> HIDE DEF S, B, J, s
  <2>2. QED  BY <1>3, <2>1 DEF FlowSet, Rounds, S, B, J
<1>6. FlowOK(f, 0)
  <2> HIDE DEF s
  <2>1. /\ f.selected = Base /\ f.index = 1 /\ f.active = NoRound /\ f.fixBaselines = << >>
        /\ f.covered = 0 /\ f.layer = 1 /\ f.layers = 1 /\ f.beforeRuling = 1
        /\ f.status = "running"  OBVIOUS
  <2> HIDE DEF f
  <2>2. Routed(f)  BY <1>3, <2>1 DEF Routed, HasSlots
  <2>3. Grounded(f, 0)  BY <2>1 DEF Grounded
  <2>4. QED  BY <1>5, <2>2, <2>3 DEF FlowOK
<1>7. flow.layers = 1 /\ flow.status = "running"  BY <1>1
<1>8. Standing
  <2>1. spent \in [Event -> Nat] /\ 0 \in 0..0  BY <1>1
  <2> HIDE DEF f
  <2>2. QED  BY <1>1, <1>6, <1>7, <2>1 DEF Standing
<1>9. history \in Seq(EntrySet) /\ Len(history) = 0  BY <1>1
<1>10. /\ entered \subseteq Types /\ behind \in BOOLEAN /\ revised \in 1..flow.layers
       /\ \A t \in entered : PositionOf(t) > 0
  <2>1. entered = {} /\ behind = FALSE /\ revised = 1  BY <1>1
  <2>2. behind \in BOOLEAN  BY ONLY <2>1, Zenon
  <2>3. revised \in 1..flow.layers  BY ONLY <1>7, <2>1
  <2>4. \A t \in entered : PositionOf(t) > 0  BY ONLY <2>1, Zenon
  <2>5. QED  BY <2>1, <2>2, <2>3, <2>4
<1> HIDE DEF f
<1>11. \A i \in 1..Len(history) : EntryOK(history[i], code, flow.layers)  BY <1>9
<1>12. QED  BY <1>8, <1>9, <1>10, <1>11 DEF RewindInv

LEMMA StandingTyped ==
  ASSUME Standing
  PROVE  TypeOK
<1>1. /\ flow \in FlowSet /\ Routed(flow) /\ Grounded(flow, code)
      /\ Len(flow.fixBaselines) \in Nat
      /\ code \in Nat /\ reviewed \in 0..code /\ clean \in Nat /\ open \subseteq Findings
  BY StandingFlow, FlowLengths DEF Standing
<1>2. /\ flow.selected \in Seq(Types)
      /\ flow.current \in Types /\ flow.newest \in Types /\ flow.reviews \in Types
      /\ flow.status \in {"running", "completed", "failed"}
      /\ flow.steps \in [Types -> Step]
      /\ flow.fixes \in Nat /\ flow.fingerprint \in Nat /\ flow.stash \subseteq Findings
      /\ flow.active \in Round \cup {NoRound}
      /\ flow.fullOccurred \in BOOLEAN /\ flow.forced \in BOOLEAN /\ flow.closure \in BOOLEAN
      /\ flow.fixBaselines \in Seq(Baseline) /\ flow.covered \in Nat
      /\ flow.layer \in Nat /\ flow.layers \in Nat /\ flow.beforeRuling \in Nat
  <2> DEFINE S == Seq(Types)  B == Seq(Baseline)  J == [Types -> Step]
  <2> HIDE DEF S, B, J
  <2>1. /\ flow.selected \in S /\ flow.steps \in J /\ flow.fixBaselines \in B
        /\ flow.current \in Types /\ flow.newest \in Types /\ flow.reviews \in Types
        /\ flow.status \in {"running", "completed", "failed"}
        /\ flow.fixes \in Nat /\ flow.fingerprint \in Nat /\ flow.stash \subseteq Findings
        /\ flow.active \in Round \cup {NoRound} /\ flow.covered \in Nat
        /\ flow.layer \in Nat /\ flow.layers \in Nat /\ flow.beforeRuling \in Nat
    BY <1>1 DEF FlowSet, Rounds, S, B, J
  <2>2. flow.fullOccurred \in BOOLEAN /\ flow.forced \in BOOLEAN /\ flow.closure \in BOOLEAN
    BY <1>1 DEF FlowSet
  <2>3. QED  BY <2>1, <2>2 DEF S, B, J
<1>3. /\ flow.index \in 1..(Len(flow.selected) + 1)
      /\ flow.active # NoRound => flow.active.base <= Len(flow.fixBaselines)
      /\ flow.covered \in 0..Len(flow.fixBaselines)
      /\ flow.layer \in 0..flow.layers /\ flow.beforeRuling \in 0..flow.layers
  BY <1>1, <1>2 DEF Routed, Grounded
<1>4. flow.fixBaselines \in Seq([at: 0..code, available: BOOLEAN])
  <2> DEFINE b == flow.fixBaselines  T == [at: 0..code, available: BOOLEAN]
  <2>1. \A i \in 1..Len(b) : b[i] \in Baseline
    <3> DEFINE A == Baseline
    <3> HIDE DEF b, A
    <3>1. b \in Seq(A)  BY <1>2 DEF b, A
    <3>2. \A i \in 1..Len(b) : b[i] \in A  BY ONLY <3>1
    <3>3. QED  BY <3>2 DEF A
  <2>2. \A i \in 1..Len(b) : b[i].at <= code  BY <1>1 DEF Grounded
  <2>3. \A i \in 1..Len(b) : b[i] \in T  BY <1>1, <2>1, <2>2 DEF Baseline
  <2>4. b \in [1..Len(b) -> T]
    <3> DEFINE A == Baseline
    <3> HIDE DEF b, A, T
    <3>1. b \in Seq(A)  BY <1>2 DEF b, A
    <3>2. b \in [1..Len(b) -> A]  BY ONLY <3>1
    <3>3. QED  BY ONLY <2>3, <3>2
  <2> HIDE DEF b, T
  <2>5. Len(b) \in Nat  BY <1>1 DEF b
  <2>6. b \in Seq(T)  BY ONLY <2>4, <2>5
  <2>7. QED  BY <2>6 DEF b, T
<1>5. <<flow.fullOccurred, flow.forced, flow.closure>> \in BOOLEAN \X BOOLEAN \X BOOLEAN
  BY <1>2
<1>6. QED  BY <1>1, <1>2, <1>3, <1>4, <1>5, Zenon DEF TypeOK

LEMMA StepKeeps ==
  ASSUME RewindInv, [RewindNext]_rvars
  PROVE  RewindInv'
<1>1. CASE Enters  BY <1>1, EntersKeeps
<1>2. CASE Adds \/ Revises \/ LeavesHistory  BY <1>2, OthersKeep
<1>3. ASSUME NEW i \in 1..Len(history), NEW r \in BOOLEAN, NEW u \in BOOLEAN, Restart(i, r, u)
      PROVE  RewindInv'  BY <1>3, RestartKeeps
<1>4. CASE UNCHANGED rvars
  <2>1. /\ UNCHANGED vars /\ history' = history /\ entered' = entered /\ behind' = behind
        /\ revised' = revised /\ flow' = flow  BY <1>4 DEF rvars, rewindVars, vars
  <2>2. Progress  BY <2>1, StoppedProgress DEF RewindInv
  <2>3. behind' \in BOOLEAN /\ revised' \in 1..flow'.layers  BY <2>1 DEF RewindInv
  <2>4. QED  BY <2>1, <2>2, <2>3, HistoryKept
<1>5. QED  BY <1>1, <1>2, <1>3, <1>4 DEF RewindNext

\* The shape of the flow and of every snapshot, with what a transition looks for
\* and what a restart needs: the inductive invariant behind the types.
THEOREM RewindInvariant == RewindSpec => []RewindInv
<1>1. RewindInit => RewindInv  BY InitStands
<1>2. RewindInv /\ [RewindNext]_rvars => RewindInv'  BY StepKeeps
<1>3. QED  BY <1>1, <1>2, PTL DEF RewindSpec

\* A flow, a round and a snapshot have the shape they are read with, whatever is
\* done, undone, cut short or restarted: every index names a slot of the sequence,
\* every baseline a round names and every layer in force exists, a snapshot is a
\* step about to begin and refers to nothing newer than the flow, and while a
\* restart is left every step that was entered can be gone back to.
THEOREM RewindTyped == RewindSpec => []RewindTypeOK
<1>1. RewindInv => RewindTypeOK
  <2> SUFFICES ASSUME RewindInv PROVE RewindTypeOK  OBVIOUS
  <2>1. TypeOK  BY StandingTyped DEF RewindInv
  <2>2. ASSUME NEW i \in 1..Len(history)
        PROVE  /\ history[i].code <= code /\ history[i].open \subseteq Findings
               /\ history[i].flow.layers <= flow.layers
               /\ history[i].flow.steps[history[i].flow.current].status = "pending"
    BY EntriesTyped DEF RewindInv, EntryOK
  <2>3. QED  BY <2>1, <2>2, Zenon DEF RewindInv, RewindTypeOK
<1>2. QED  BY <1>1, RewindInvariant, PTL

-----------------------------------------------------------------------------
(* The sequence: slots are spliced in for a ruling and taken out again.     *)

LEMMA BaseFacts ==
  ASSUME Standard, setup \in Setups
  PROVE  /\ Base \in Seq(Types) /\ Len(Base) \in Nat
         /\ ReviewSlot \in 1..Len(Base) /\ Base[ReviewSlot] = "SELF_CHECK"
         /\ ReviewSlot < Len(Base)
         /\ \A i \in 1..Len(Base) :
              /\ Base[i] \in Types /\ Base[i] \notin Dynamic
              /\ Base[i] = "SELF_CHECK" => i = ReviewSlot
              /\ Base[i] = "IMPLEMENT" => i < ReviewSlot
         /\ \E i \in 1..Len(Base) : Base[i] = "IMPLEMENT"
         /\ ConfirmRulings # "none" => "CONFIRM" \notin Skippable
<1> DEFINE B == Base  T == Types \ {"ADJUDICATE"}
<1>1. /\ B \in Seq(T) /\ {"IMPLEMENT", "SELF_CHECK"} \subseteq Range(B)
      /\ "CONFIRM" \notin Range(B)
      /\ ConfirmRulings # "none" => "CONFIRM" \notin Skippable
  BY EngineAssumption DEF Standard, Base
<1>2. \A i, j \in 1..Len(B) :
        /\ B[i] = B[j] /\ B[i] # "CONFIRM" => i = j
        /\ B[i] = "SELF_CHECK" => i < Len(B) /\ (B[j] = "IMPLEMENT" => j < i)
  BY EngineAssumption DEF Base
<1>3. DOMAIN B = 1..Len(B) /\ Len(B) \in Nat /\ \A i \in 1..Len(B) : B[i] \in T
  <2> HIDE DEF B, T
  <2> QED  BY ONLY <1>1
<1>4. \A t : t \in Range(B) <=> \E i \in DOMAIN B : B[i] = t  BY DEF Range
<1>5. /\ ReviewSlot \in 0..Len(B) /\ (ReviewSlot > 0 => B[ReviewSlot] = "SELF_CHECK")
      /\ \A i \in 1..Len(B) : B[i] = "SELF_CHECK" => ReviewSlot > 0 /\ ReviewSlot <= i
  <2> DEFINE f == [selected |-> B]
  <2>1. f.selected = B /\ Len(f.selected) \in Nat  BY <1>3
  <2>2. ReviewSlot = IndexOf(f, "SELF_CHECK")  BY DEF ReviewSlot
  <2> HIDE DEF f, B
  <2>3. QED  BY <2>1, <2>2, Places
<1>6. B \in Seq(Types)
  <2>1. T \subseteq Types  OBVIOUS
  <2> HIDE DEF B, T
  <2>2. QED  BY ONLY <1>1, <2>1
<1> HIDE DEF B
<1>7. ReviewSlot \in 1..Len(B) /\ B[ReviewSlot] = "SELF_CHECK"  BY <1>1, <1>3, <1>4, <1>5
<1>8. \A i \in 1..Len(B) : B[i] \in Types /\ B[i] \notin Dynamic
  BY <1>1, <1>3, <1>4 DEF Dynamic
<1>9. \E i \in 1..Len(B) : B[i] = "IMPLEMENT"  BY <1>1, <1>3, <1>4
<1>10. QED  BY <1>1, <1>2, <1>3, <1>6, <1>7, <1>8, <1>9 DEF B

\* A ruling is spliced in.
LEMMA BaseSplices ==
  ASSUME Standard, setup \in Setups, NEW q, Len(q) = Len(Base) + 1,
         \A j \in 1..(Len(Base) + 1) :
           q[j] = IF j < ReviewSlot THEN Base[j]
                  ELSE IF j = ReviewSlot THEN "ADJUDICATE" ELSE Base[j - 1]
  PROVE  Spliced(q, 0)
<1>1. Len(Base) \in Nat /\ ReviewSlot \in 1..Len(Base)  BY BaseFacts
<1>2. ASSUME NEW i \in 1..Len(q)
      PROVE  q[i] = IF i < ReviewSlot THEN Base[i]
                    ELSE IF i = ReviewSlot THEN "ADJUDICATE"
                    ELSE IF i <= ReviewSlot + 0 THEN "CONFIRM" ELSE Base[i - 0 - 1]
  <2>1. i - 0 - 1 = i - 1 /\ ReviewSlot + 0 = ReviewSlot /\ i \in 1..(Len(Base) + 1)
    BY <1>1
  <2>2. ~(i < ReviewSlot) /\ i # ReviewSlot => ~(i <= ReviewSlot)  BY <1>1
  <2>3. QED  BY <2>1, <2>2
<1>3. QED  BY <1>1, <1>2 DEF Spliced

\* A confirmation is spliced in behind the ruling.
LEMMA SpliceGrows ==
  ASSUME Standard, setup \in Setups, NEW p, NEW k \in Nat, Spliced(p, k), NEW q,
         Len(q) = Len(p) + 1,
         \A j \in 1..(Len(p) + 1) :
           q[j] = IF j < ReviewSlot + 1 THEN p[j]
                  ELSE IF j = ReviewSlot + 1 THEN "CONFIRM" ELSE p[j - 1]
  PROVE  Spliced(q, k + 1)
<1>1. Len(Base) \in Nat /\ ReviewSlot \in 1..Len(Base) /\ Len(p) = Len(Base) + 1 + k
  BY BaseFacts DEF Spliced
<1>2. ASSUME NEW i \in 1..Len(q)
      PROVE  q[i] = IF i < ReviewSlot THEN Base[i]
                    ELSE IF i = ReviewSlot THEN "ADJUDICATE"
                    ELSE IF i <= ReviewSlot + (k + 1) THEN "CONFIRM"
                    ELSE Base[i - (k + 1) - 1]
  <2>1. CASE i <= ReviewSlot
    <3>1. q[i] = p[i] /\ i \in 1..Len(p)  BY <1>1, <2>1
    <3>2. QED  BY <1>1, <2>1, <3>1 DEF Spliced
  <2>2. CASE i = ReviewSlot + 1
    <3>1. q[i] = "CONFIRM"  BY <1>1, <2>2
    <3>2. QED  BY <1>1, <2>2, <3>1
  <2>3. CASE i > ReviewSlot + 1
    <3>1. q[i] = p[i - 1] /\ i - 1 \in 1..Len(p) /\ i - 1 > ReviewSlot  BY <1>1, <2>3
    <3>2. p[i - 1] = IF i - 1 <= ReviewSlot + k THEN "CONFIRM" ELSE Base[(i - 1) - k - 1]
      BY <1>1, <3>1 DEF Spliced
    <3>3. (i - 1 <= ReviewSlot + k <=> i <= ReviewSlot + (k + 1))
          /\ (i - 1) - k - 1 = i - (k + 1) - 1  BY <1>1
    <3>4. QED  BY <1>1, <2>3, <3>1, <3>2, <3>3
  <2>4. QED  BY <1>1, <2>1, <2>2, <2>3
<1>3. Len(q) = Len(Base) + 1 + (k + 1)  BY <1>1
<1>4. QED  BY <1>2, <1>3 DEF Spliced

\* Taking the run of a ruling out leaves the sequence the flow started with.
LEMMA StripSpliced ==
  ASSUME Standard, Standing, flow.status = "running", NEW k \in Nat, Spliced(flow.selected, k)
  PROVE  /\ StripAdjudicateRun(flow).selected = Base
         /\ StripAdjudicateRun(flow).selfCheck = ReviewSlot
<1> DEFINE q == StripAdjudicateRun(flow).selected  first == StripAdjudicateRun(flow).selfCheck
           p == flow.selected
<1>1. flow \in FlowSet /\ Routed(flow) /\ setup \in Setups  BY StandingFlow DEF Standing
<1>2. /\ Base \in Seq(Types) /\ Len(Base) \in Nat
      /\ ReviewSlot \in 1..Len(Base) /\ Base[ReviewSlot] = "SELF_CHECK"
      /\ \A i \in 1..Len(Base) :
           Base[i] \notin Dynamic /\ (Base[i] = "SELF_CHECK" => i = ReviewSlot)
  BY <1>1, BaseFacts
<1>3. /\ Len(p) = Len(Base) + 1 + k
      /\ \A i \in 1..Len(p) :
           p[i] = IF i < ReviewSlot THEN Base[i]
                  ELSE IF i = ReviewSlot THEN "ADJUDICATE"
                  ELSE IF i <= ReviewSlot + k THEN "CONFIRM" ELSE Base[i - k - 1]
  BY DEF Spliced
<1>4. PICK sc \in 1..Len(p) :
        /\ p[sc] = "SELF_CHECK" /\ first \in 1..sc
        /\ \A j \in first..(sc - 1) : p[j] \in Dynamic
        /\ q \in Seq(Types) /\ Len(q) = Len(p) - (sc - first)
        /\ \A j \in 1..Len(q) : q[j] = IF j < first THEN p[j] ELSE p[j + (sc - first)]
        /\ \A j \in 1..(sc - 1) :
             (/\ \A i \in j..(sc - 1) : p[i] \in Dynamic
              /\ \A i \in (j + 1)..(sc - 1) : p[i] # "ADJUDICATE")
             => first <= j  BY <1>1, StripValues
<1> HIDE DEF q, first, p
<1>5. sc = ReviewSlot + k + 1
  <2>1. ~(sc < ReviewSlot)  BY <1>2, <1>3, <1>4
  <2>2. ~(sc >= ReviewSlot /\ sc <= ReviewSlot + k)  BY <1>2, <1>3, <1>4
  <2>3. sc > ReviewSlot + k  BY <1>2, <2>1, <2>2
  <2>4. p[sc] = Base[sc - k - 1] /\ sc - k - 1 \in 1..Len(Base)  BY <1>2, <1>3, <2>3
  <2>5. sc - k - 1 = ReviewSlot  BY <1>2, <1>4, <2>4
  <2>6. QED  BY <1>2, <2>5
<1>6. \A i \in ReviewSlot..(sc - 1) : p[i] \in Dynamic /\ (i # ReviewSlot => p[i] # "ADJUDICATE")
  BY <1>2, <1>3, <1>5 DEF Dynamic
<1>7. first <= ReviewSlot
  <2>1. ReviewSlot \in 1..(sc - 1)  BY <1>2, <1>5
  <2>2. \A i \in (ReviewSlot + 1)..(sc - 1) : p[i] # "ADJUDICATE"  BY <1>2, <1>5, <1>6
  <2>3. QED  BY <1>4, <1>6, <2>1, <2>2
<1>8. ~(first < ReviewSlot)
  <2> SUFFICES ASSUME first < ReviewSlot PROVE FALSE  OBVIOUS
  <2>1. first \in first..(sc - 1) /\ first \in 1..Len(p) /\ first \in 1..Len(Base)
    BY <1>2, <1>4, <1>5
  <2>2. p[first] \in Dynamic /\ p[first] = Base[first]  BY <1>3, <1>4, <2>1
  <2>3. QED  BY <1>2, <2>1, <2>2
<1>9. first = ReviewSlot  BY <1>2, <1>4, <1>7, <1>8
<1>10. Len(q) = Len(Base)  BY <1>2, <1>3, <1>4, <1>5, <1>9
<1>11. ASSUME NEW j \in 1..Len(Base) PROVE q[j] = Base[j]
  <2>1. CASE j < ReviewSlot
    <3>1. j \in 1..Len(q) /\ j \in 1..Len(p)  BY <1>2, <1>3, <1>10
    <3>2. q[j] = p[j]  BY <1>4, <1>9, <2>1, <3>1
    <3>3. QED  BY <1>3, <2>1, <3>1, <3>2
  <2>2. CASE ~(j < ReviewSlot)
    <3>1. q[j] = p[j + (k + 1)] /\ j + (k + 1) \in 1..Len(p) /\ j + (k + 1) > ReviewSlot + k
      BY <1>2, <1>3, <1>4, <1>5, <1>9, <1>10, <2>2
    <3>2. p[j + (k + 1)] = Base[(j + (k + 1)) - k - 1]  BY <1>2, <1>3, <3>1
    <3>3. (j + (k + 1)) - k - 1 = j  OBVIOUS
    <3>4. QED  BY <3>1, <3>2, <3>3
  <2>3. QED  BY <2>1, <2>2
<1>12. q = Base
  <2> DEFINE T == Types  B == Base
  <2> HIDE DEF T, B
  <2>1. q \in Seq(T) /\ B \in Seq(T)  BY <1>2, <1>4 DEF T, B
  <2>2. Len(q) = Len(B) /\ \A j \in 1..Len(B) : q[j] = B[j]  BY <1>10, <1>11 DEF B
  <2>3. q = B  BY ONLY <2>1, <2>2
  <2>4. QED  BY <2>3 DEF B
<1>13. QED  BY <1>9, <1>12 DEF q, first

\* The slot of the ruling is the first of its type.
LEMMA RulingPlace ==
  ASSUME Standard, Standing, NEW k \in Nat, Spliced(flow.selected, k)
  PROVE  IndexOf(flow, "ADJUDICATE") = ReviewSlot
<1> DEFINE x == IndexOf(flow, "ADJUDICATE")  n == Len(flow.selected)
<1>1. n \in Nat /\ setup \in Setups  BY StandingFlow DEF Standing
<1>2. /\ x \in 0..n /\ (x > 0 => flow.selected[x] = "ADJUDICATE")
      /\ \A i \in 1..n : flow.selected[i] = "ADJUDICATE" => x > 0 /\ x <= i
  BY <1>1, Places
<1> HIDE DEF x
<1>3. /\ Len(Base) \in Nat /\ ReviewSlot \in 1..Len(Base)
      /\ \A i \in 1..Len(Base) : Base[i] \notin Dynamic  BY <1>1, BaseFacts
<1>4. /\ n = Len(Base) + 1 + k
      /\ \A i \in 1..n :
           flow.selected[i] = IF i < ReviewSlot THEN Base[i]
                              ELSE IF i = ReviewSlot THEN "ADJUDICATE"
                              ELSE IF i <= ReviewSlot + k THEN "CONFIRM" ELSE Base[i - k - 1]
  BY DEF Spliced
<1>5. x > 0 /\ x <= ReviewSlot  BY <1>2, <1>3, <1>4
<1>6. ~(x < ReviewSlot)  BY <1>2, <1>3, <1>4, <1>5 DEF Dynamic
<1>7. QED  BY <1>2, <1>3, <1>5, <1>6 DEF x

-----------------------------------------------------------------------------
(* Every step keeps the flow in its place, or moves it to one.             *)

\* Nothing moves.
LEMMA PlaceKept ==
  ASSUME Placed(flow), NEW g, g.selected = flow.selected, g.index = flow.index,
         g.current = flow.current, g.newest = flow.newest, g.reviews = flow.reviews,
         g.status = flow.status \/ (flow.status # "completed" /\ g.status # "completed"),
         g.current = "CONFIRM" /\ g.steps["CONFIRM"].status = "completed" =>
           \/ g.steps["CONFIRM"].verdict = "approved"
           \/ /\ flow.steps["CONFIRM"].status = "completed"
              /\ g.steps["CONFIRM"].verdict = flow.steps["CONFIRM"].verdict
  PROVE  Placed(g)
<1>1. CASE AtSlot(flow)
  <2>1. AtSlot(g)  BY <1>1 DEF AtSlot
  <2>2. QED  BY <2>1 DEF Placed
<1>2. CASE InRuling(flow)
  <2>1. /\ g.current \in Dynamic /\ g.status # "completed" /\ g.newest = "ADJUDICATE"
        /\ g.index = IF g.current = "CONFIRM" THEN ReviewSlot + 1 ELSE ReviewSlot
    BY <1>2 DEF InRuling
  <2>2. \E k \in Nat : Spliced(g.selected, k) /\ (g.current = "CONFIRM" => k > 0)
    BY <1>2 DEF InRuling
  <2>3. g.current = "CONFIRM" =>
          /\ g.reviews = "ADJUDICATE" /\ ConfirmRulings # "none"
          /\ g.steps["CONFIRM"].status = "completed" => g.steps["CONFIRM"].verdict = "approved"
    BY <1>2 DEF InRuling
  <2>4. QED  BY <2>1, <2>2, <2>3 DEF InRuling, Placed
<1>3. QED  BY <1>1, <1>2 DEF Placed

\* One step is answered, or armed again.
LEMMA StepPlace ==
  ASSUME Placed(flow), flow.current \in Types, NEW s,
         StepTo(flow', flow, s) \/ \E x \in {"running", "failed"} : StepAndStatus(flow', flow, s, x),
         flow.status # "completed",
         flow.current = "CONFIRM" /\ s.status = "completed" =>
           s.verdict = "approved" \/ (Cur.status = "completed" /\ s.verdict = Cur.verdict)
  PROVE  Placed(flow')
<1>1. /\ flow'.selected = flow.selected /\ flow'.index = flow.index
      /\ flow'.current = flow.current /\ flow'.newest = flow.newest
      /\ flow'.reviews = flow.reviews /\ flow'.status # "completed"
      /\ flow'.steps[flow.current] = s
  BY DEF StepTo, StepAndStatus, SameButSteps, SamePlace
<1>2. flow'.current = "CONFIRM" /\ flow'.steps["CONFIRM"].status = "completed" =>
           \/ flow'.steps["CONFIRM"].verdict = "approved"
           \/ /\ flow.steps["CONFIRM"].status = "completed"
              /\ flow'.steps["CONFIRM"].verdict = flow.steps["CONFIRM"].verdict
  BY <1>1 DEF Cur
<1>3. QED  BY <1>1, <1>2, PlaceKept

LEMMA HandlersPlace ==
  ASSUME Standard, Standing, Placed(flow), Handlers
  PROVE  Placed(flow')
<1>1. flow \in FlowSet /\ flow.current \in Types /\ Cur \in Step  BY StandingFlow
<1>2. CASE FinishPlain
  <2>1. /\ flow.status = "running" /\ flow.current \in {"PLAN", "COMMIT"}
        /\ StepTo(flow', flow, [Cur EXCEPT !.status = "completed"])
    BY <1>1, <1>2, FinishPlainDoes
  <2>2. QED  BY <1>1, <2>1, StepPlace
<1>3. CASE Fail
  <2>1. /\ flow.status = "running"
        /\ StepTo(flow', flow, [Cur EXCEPT !.status = "failed"])
        /\ [Cur EXCEPT !.status = "failed"].status = "failed"
    BY <1>1, <1>3, FailDoes DEF Step
  <2>2. QED  BY <1>1, <2>1, StepPlace
<1>4. CASE Resume
  <2> DEFINE s == [Cur EXCEPT !.status = "pending", !.retries = 0]
  <2>1. StepAndStatus(flow', flow, s, "running")  BY <1>1, <1>4, ResumeDoes
  <2>2. flow.status # "completed" /\ s.status = "pending"
    BY <1>1, <1>4 DEF Standing, Resume, Running, Step
  <2> HIDE DEF s
  <2>3. QED  BY <1>1, <2>1, <2>2, StepPlace
<1>5. ASSUME NEW s \in Status, FinishImplement(s) PROVE Placed(flow')
  <2>1. flow.status = "running" /\ flow.current = "IMPLEMENT"
        /\ StepTo(flow', flow, [Cur EXCEPT !.status = s])
    BY <1>1, <1>5, FinishImplementDoes
  <2>2. QED  BY <1>1, <2>1, StepPlace
<1>6. ASSUME NEW s \in Status, FinishGate(s) PROVE Placed(flow')
  <2>1. flow.status = "running" /\ flow.current \in Gates
        /\ StepTo(flow', flow, [Cur EXCEPT !.status = s])  BY <1>1, <1>6, FinishGateDoes
  <2>2. QED  BY <1>1, <2>1, StepPlace DEF Gates
<1>7. ASSUME NEW found \in SUBSET Findings, NEW severe \in BOOLEAN,
             FinishSelfCheck(found, severe)
      PROVE  Placed(flow')
  <2>1. /\ flow.status = "running" /\ flow.current = "SELF_CHECK"
        /\ StepTo(flow', flow, PassAnswer(found, severe))
    BY <1>1, <1>7, FinishSelfCheckDoes
  <2>2. QED  BY <1>1, <2>1, StepPlace
<1>8. ASSUME NEW v \in {"noop", "description", "plan"}, FinishAdjudicate(v)
      PROVE  Placed(flow')
  <2>1. flow.current = "ADJUDICATE" /\ SamePlace(flow', flow)
    BY <1>1, <1>8, FinishAdjudicateDoes
  <2>2. QED  BY <2>1, PlaceKept DEF SamePlace
<1>9. ASSUME NEW v \in {"approved", "rejected"}, FinishConfirm(v) PROVE Placed(flow')
  <2> DEFINE s == [Cur EXCEPT !.verdict = v,
                     !.status = IF v = "approved" THEN "completed" ELSE "revision"]
  <2>1. flow.status = "running" /\ StepTo(flow', flow, s)  BY <1>1, <1>9, FinishConfirmDoes
  <2>2. s.status = "completed" => s.verdict = "approved"  BY <1>1 DEF Step
  <2> HIDE DEF s
  <2>3. QED  BY <1>1, <2>1, <2>2, StepPlace
<1>10. QED  BY <1>2, <1>3, <1>4, <1>5, <1>6, <1>7, <1>8, <1>9 DEF Handlers

LEMMA OperatorPlace ==
  ASSUME Standard, Standing, Placed(flow), Operator
  PROVE  Placed(flow')
<1>1. flow \in FlowSet /\ flow.current \in Types /\ Cur \in Step /\ setup \in Setups
  BY StandingFlow DEF Standing
<1>2. CASE Retry
  <2> DEFINE s == [Cur EXCEPT !.status = "pending", !.retries = @ + 1]
  <2>1. flow.status = "running" /\ StepTo(flow', flow, s)  BY <1>1, <1>2, RetryDoes
  <2>2. s.status = "pending"  BY <1>1 DEF Step
  <2> HIDE DEF s
  <2>3. QED  BY <1>1, <2>1, <2>2, StepPlace
<1>3. CASE Skip
  <2> DEFINE s == [Cur EXCEPT !.status = "completed", !.skipped = TRUE]
  <2>1. flow.status = "running" /\ flow.current \in Skippable /\ StepTo(flow', flow, s)
    BY <1>1, <1>3, SkipDoes
  <2> HIDE DEF s
  <2>2. flow.current # "CONFIRM"
    BY <1>1, <2>1, BaseFacts DEF Placed, AtSlot, InRuling, Dynamic
  <2>3. QED  BY <1>1, <2>1, <2>2, StepPlace
<1>4. CASE GiveUp
  <2>1. flow.status = "running" /\ StepAndStatus(flow', flow, Cur, "failed")
    BY <1>1, <1>4, GiveUpDoes
  <2>2. QED  BY <1>1, <2>1, StepPlace
<1>5. CASE Revise
  <2> DEFINE s == [Cur EXCEPT !.status = IF @ = "running" THEN "pending" ELSE @]
  <2>1. /\ SamePlace(flow', flow) /\ flow'.steps[flow.current] = s
    BY <1>1, <1>5, ReviseDoes
  <2>2. /\ s.verdict = Cur.verdict
        /\ s.status = "completed" => Cur.status = "completed"  BY <1>1 DEF Step
  <2> HIDE DEF s
  <2>3. flow'.current = "CONFIRM" /\ flow'.steps["CONFIRM"].status = "completed" =>
             /\ flow.steps["CONFIRM"].status = "completed"
             /\ flow'.steps["CONFIRM"].verdict = flow.steps["CONFIRM"].verdict
    BY <2>1, <2>2 DEF SamePlace, Cur
  <2>4. QED  BY <2>1, <2>3, PlaceKept DEF SamePlace
<1>6. QED  BY <1>2, <1>3, <1>4, <1>5 DEF Operator

LEMMA BeginPlace ==
  ASSUME Standard, Standing, Placed(flow), Begin
  PROVE  Placed(flow')
<1>1. /\ flow \in FlowSet /\ flow.current \in Types /\ Cur \in Step
      /\ Grounded(flow, code)  BY StandingFlow
<1>2. CASE Start
  <2> DEFINE s == [Cur EXCEPT !.status = "running"]
  <2>1. flow.status = "running" /\ StepTo(flow', flow, s)  BY <1>1, <1>2, StartDoes
  <2>2. s.status = "running"  BY <1>1 DEF Step
  <2> HIDE DEF s
  <2>3. QED  BY <1>1, <2>1, <2>2, StepPlace
<1>3. ASSUME NEW u \in BOOLEAN, StartSelfCheck(u) PROVE Placed(flow')
  <2> DEFINE h == PrepareScope(Refreshed, u)
             s == [Cur EXCEPT !.status = "running", !.pass = h.active.pass,
                              !.flushTried = h.active.flushTried]
  <2>1. /\ flow.status = "running" /\ flow.current = "SELF_CHECK" /\ InRound(h, Refreshed)
        /\ StepTo(flow', h, s)  BY <1>1, <1>3, StartSelfCheckDoes
  <2>2. SamePlace(Refreshed, flow)
    <3>1. CASE RequirementsChanged(flow)  BY <1>1, <3>1, ForceFullValues DEF Refreshed
    <3>2. CASE ~RequirementsChanged(flow)  BY <3>2 DEF Refreshed, SamePlace
    <3>3. QED  BY <3>1, <3>2
  <2> HIDE DEF h, s
  <2>3. SamePlace(flow', flow)  BY <2>1, <2>2 DEF InRound, StepTo, SameButSteps, SamePlace
  <2>4. flow'.current = "SELF_CHECK"  BY <2>1, <2>3 DEF SamePlace
  <2>5. QED  BY <2>3, <2>4, PlaceKept DEF SamePlace
<1>4. QED  BY <1>2, <1>3 DEF Begin

LEMMA PlaceIs ==
  ASSUME Placed(flow)
  PROVE  /\ flow.current \notin Dynamic => AtSlot(flow)
         /\ flow.current \in Dynamic => InRuling(flow)
BY DEF Placed, AtSlot, InRuling

\* At the review, the slot is the one of SELF_CHECK.
LEMMA ReviewPlace ==
  ASSUME Standard, Standing, Placed(flow), flow.status = "running", flow.current = "SELF_CHECK"
  PROVE  AtSlot(flow) /\ flow.selected = Base /\ flow.index = ReviewSlot
<1>1. AtSlot(flow) /\ setup \in Setups  BY PlaceIs DEF Dynamic, Standing
<1>2. flow.selected = Base /\ flow.index \in 1..Len(Base) /\ Base[flow.index] = "SELF_CHECK"
  BY <1>1 DEF AtSlot
<1>3. QED  BY <1>1, <1>2, BaseFacts

\* A step that leads onward is not in a ruling.
LEMMA OnwardPlace ==
  ASSUME Placed(flow), Leaving(flow.current, "completed"), flow.current # "ADJUDICATE",
         flow.current # "SELF_CHECK" => ~RulingStands
  PROVE  AtSlot(flow)
<1>1. CASE flow.current = "CONFIRM"
  <2>1. InRuling(flow)  BY <1>1, PlaceIs DEF Dynamic
  <2>2. flow.reviews = "ADJUDICATE" /\ Cur.verdict = "approved"
    BY <1>1, <2>1 DEF InRuling, Leaving, Cur
  <2>3. RulingStands  BY <1>1, <2>2 DEF RulingStands, Leaving
  <2>4. QED  BY <1>1, <2>3
<1>2. CASE flow.current # "CONFIRM"  BY <1>2, PlaceIs DEF Dynamic
<1>3. QED  BY <1>1, <1>2

LEMMA SavedPlace ==
  ASSUME Standing, Placed(flow), flow.status = "running", NEW f, f \in FlowSet, Placed(f),
         NEW bodies \in [Types -> Step], Saved(f, bodies),
         flow.current = "CONFIRM" => bodies["CONFIRM"] = Cur
  PROVE  Placed(flow')
<1>1. CASE flow' = f  BY <1>1
<1>2. CASE flow' = Torn(f, bodies)
  <2> DEFINE s == [bodies[flow.current] EXCEPT !.skipped = FALSE,
                       !.status = IF Cur.skipped THEN "failed" ELSE @]
  <2>1. AtTorn(flow', f, bodies) /\ flow.current \in Types /\ Cur \in Step
    BY <1>2, TornValues, StandingFlow
  <2>2. SamePlace(flow', flow) /\ flow'.steps[flow.current] = s  BY <2>1 DEF AtTorn
  <2>3. flow.current = "CONFIRM" =>
          /\ s.verdict = Cur.verdict
          /\ s.status = "completed" => Cur.status = "completed"  BY <2>1 DEF Step
  <2> HIDE DEF s
  <2>4. flow'.current = "CONFIRM" /\ flow'.steps["CONFIRM"].status = "completed" =>
          /\ flow.steps["CONFIRM"].status = "completed"
          /\ flow'.steps["CONFIRM"].verdict = flow.steps["CONFIRM"].verdict
    BY <2>2, <2>3 DEF SamePlace, Cur
  <2>5. QED  BY <2>2, <2>4, PlaceKept DEF SamePlace
<1>3. QED  BY <1>1, <1>2 DEF Saved

\* A flow that enters SELF_CHECK, or a fix, from the sequence it started with.
LEMMA EnteredPlace ==
  ASSUME Standard, setup \in Setups, NEW f, NEW g, f.selected = Base, f.status = "running",
         EnteredSelfCheck(g, f, ReviewSlot)
  PROVE  AtSlot(g) /\ Placed(g)
<1>1. ReviewSlot \in 1..Len(Base) /\ Base[ReviewSlot] = "SELF_CHECK"  BY BaseFacts
<1>2. QED  BY <1>1 DEF EnteredSelfCheck, AtSlot, Placed, Dynamic

LEMMA FixPlace ==
  ASSUME Standard, setup \in Setups, NEW f \in FlowSet, NEW g, f.selected = Base,
         f.status = "running", HasSlots(f), AtFix(g, f)
  PROVE  AtSlot(g) /\ Placed(g)
<1>1. IndexOf(f, "IMPLEMENT") \in 1..Len(Base) /\ Base[IndexOf(f, "IMPLEMENT")] = "IMPLEMENT"
  BY SelfCheckPlace
<1>2. QED  BY <1>1 DEF AtFix, AtSlot, Placed, Dynamic

LEMMA AdjudicatePlace ==
  ASSUME Standard, setup \in Setups, NEW f, NEW g, f.selected = Base, f.status = "running",
         NEW at \in 1..Len(Base), Base[at] = "SELF_CHECK",
         NEW s, AtInserted(g, f, at, "ADJUDICATE", s)
  PROVE  Placed(g)
<1>1. at = ReviewSlot /\ Len(Base) \in Nat  BY BaseFacts
<1>2. Spliced(g.selected, 0)  BY <1>1, BaseSplices DEF AtInserted
<1>3. /\ g.index = ReviewSlot /\ g.current = "ADJUDICATE" /\ g.newest = "ADJUDICATE"
      /\ g.status = "running"  BY <1>1 DEF AtInserted
<1>4. QED  BY <1>2, <1>3 DEF InRuling, Placed, Dynamic

LEMMA ToNewStepPlace ==
  ASSUME Standard, Standing, Placed(flow), ToNewStep
  PROVE  Placed(flow')
<1>1. /\ flow \in FlowSet /\ flow.steps \in [Types -> Step] /\ setup \in Setups
      /\ flow.current \in Types /\ Cur = flow.steps[flow.current]
  BY StandingFlow DEF Standing, Cur
<1>2. ASSUME NEW f, FlowOK(f, code), Placed(f), flow.status = "running", Saved(f, flow.steps)
      PROVE  Placed(flow')  BY <1>1, <1>2, SavedPlace DEF FlowOK
<1>3. CASE LoopToAdjudicate
  <2> DEFINE f == ToAdjudicate(Marked)
  <2>1. /\ flow.status = "running" /\ flow.current = "SELF_CHECK"
        /\ FlowOK(f, code) /\ Saved(f, flow.steps)  BY <1>3, LoopToAdjudicateDoes
  <2>2. PICK at \in 1..Len(flow.selected) :
          flow.selected[at] = "SELF_CHECK" /\ AtInserted(f, Marked, at, "ADJUDICATE", Ruling(Marked))
    BY <1>3, LoopToAdjudicateDoes
  <2> HIDE DEF f
  <2>3. flow.selected = Base  BY <2>1, ReviewPlace
  <2>4. Marked.selected = Base /\ Marked.status = "running"
    BY <2>1, <2>3, MarkedValues DEF SamePlace
  <2>5. Placed(f)  BY <1>1, <2>2, <2>3, <2>4, AdjudicatePlace
  <2>6. QED  BY <1>2, <2>1, <2>5
<1>4. CASE RescueToAdjudicate
  <2> DEFINE f == ToAdjudicate(Rescued)
  <2>1. RescueDue /\ FlowOK(f, code) /\ Saved(f, Rescued.steps)
    BY <1>4, RescueToAdjudicateDoes
  <2>2. PICK at \in 1..Len(flow.selected) :
          flow.selected[at] = "SELF_CHECK" /\ AtInserted(f, Rescued, at, "ADJUDICATE", Ruling(Rescued))
    BY <1>4, RescueToAdjudicateDoes
  <2> HIDE DEF f
  <2>3. flow.selected = Base /\ flow.status = "running" /\ flow.current = "SELF_CHECK"
    BY <2>1, ReviewPlace DEF RescueDue, Leaving
  <2>4. Rescued.selected = Base /\ Rescued.status = "running" /\ Rescued.steps \in [Types -> Step]
    BY <1>1, <2>3, RescuedValues DEF SamePlace, FlowSet
  <2>5. Placed(f)  BY <1>1, <2>2, <2>3, <2>4, AdjudicatePlace
  <2>6. QED  BY <2>1, <2>3, <2>4, <2>5, SavedPlace DEF FlowOK
<1>5. CASE ConfirmRuling
  <2> DEFINE f == ToConfirm  m == flow.index
  <2>1. /\ flow.status = "running" /\ flow.current = "ADJUDICATE" /\ NeedsConfirm
        /\ FlowOK(f, code) /\ Saved(f, flow.steps)  BY <1>5, ConfirmRulingDoes
  <2>2. PICK g : /\ AtInserted(g, flow, m + 1, "CONFIRM", NewStep)
                 /\ f.selected = g.selected /\ f.index = g.index /\ f.current = g.current
                 /\ f.newest = g.newest /\ f.reviews = flow.newest
                 /\ f.status = g.status /\ f.steps = g.steps  BY <1>5, ConfirmRulingDoes
  <2> HIDE DEF f
  <2>3. InRuling(flow) /\ flow.newest = "ADJUDICATE" /\ m = ReviewSlot
    BY <2>1, PlaceIs DEF InRuling, Dynamic
  <2>4. PICK k \in Nat : Spliced(flow.selected, k)  BY <2>3 DEF InRuling
  <2>5. Spliced(f.selected, k + 1)  BY <1>1, <2>2, <2>3, <2>4, SpliceGrows DEF AtInserted
  <2>6. k + 1 \in Nat /\ k + 1 > 0  OBVIOUS
  <2>7. ConfirmRulings # "none"  BY <2>1 DEF NeedsConfirm
  <2>8. /\ f.current = "CONFIRM" /\ f.index = ReviewSlot + 1 /\ f.newest = "ADJUDICATE"
        /\ f.reviews = "ADJUDICATE" /\ f.status = "running" /\ f.steps["CONFIRM"] = NewStep
    BY <2>1, <2>2, <2>3 DEF AtInserted
  <2>9. f.steps["CONFIRM"].status # "completed"  BY <2>8 DEF NewStep
  <2>10. Placed(f)  BY <2>5, <2>6, <2>7, <2>8, <2>9 DEF InRuling, Placed, Dynamic
  <2>11. QED  BY <1>2, <2>1, <2>10
<1>6. ASSUME NEW a \in BOOLEAN, LandRuling(a) PROVE Placed(flow')
  <2> DEFINE i == StripAdjudicateRun(flow).selfCheck  f == EnterSelfCheck(Landed, i, a)
  <2>1. /\ RulingStands /\ FlowOK(f, code) /\ EnteredSelfCheck(f, Landed, i)
        /\ Saved(f, flow.steps)  BY <1>6, LandRulingDoes
  <2> HIDE DEF f
  <2>2. flow.status = "running" /\ flow.current \in Dynamic
    BY <2>1 DEF RulingStands, Leaving, Dynamic
  <2>3. PICK k \in Nat : Spliced(flow.selected, k)  BY <2>2, PlaceIs DEF InRuling
  <2>4. i = ReviewSlot /\ Landed.selected = Base /\ Landed.status = "running"
    BY <2>2, <2>3, StripSpliced, LandedValues, UnsplicedValues
  <2> HIDE DEF i
  <2>5. Placed(f)  BY <1>1, <2>1, <2>4, EnteredPlace
  <2>6. QED  BY <1>2, <2>1, <2>2, <2>5
<1>7. ASSUME NEW a \in BOOLEAN, Reflow(a) PROVE Placed(flow')
  <2> DEFINE i == IndexOf(flow, "SELF_CHECK")  f == EnterSelfCheck(flow, i, a)
  <2>1. /\ flow.status = "running" /\ i \in 1..Len(flow.selected)
        /\ flow.selected[i] = "SELF_CHECK"
        /\ FlowOK(f, code) /\ EnteredSelfCheck(f, flow, i) /\ Saved(f, flow.steps)
    BY <1>7, ReflowDoes
  <2>2. Leaving(flow.current, "completed") /\ ~RulingStands /\ flow.current # "ADJUDICATE"
    BY <1>7 DEF Reflow, ReflowDue
  <2> HIDE DEF f, i
  <2>3. flow.selected = Base  BY <2>2, OnwardPlace DEF AtSlot
  <2>4. i = ReviewSlot  BY <1>1, <2>1, <2>3, BaseFacts
  <2>5. Placed(f)  BY <1>1, <2>1, <2>3, <2>4, EnteredPlace
  <2>6. QED  BY <1>2, <2>1, <2>5
<1>8. ASSUME NEW a \in BOOLEAN, RepeatPass(a) PROVE Placed(flow')
  <2> DEFINE h == AdvancePass(Mirrored)  f == EnterSelfCheck(h, flow.index, a)
  <2>1. /\ flow.status = "running" /\ flow.current = "SELF_CHECK"
        /\ FlowOK(f, code) /\ EnteredSelfCheck(f, h, flow.index)
        /\ h.selected = flow.selected /\ h.status = flow.status /\ Saved(f, flow.steps)
    BY <1>8, RepeatPassDoes
  <2> HIDE DEF f, h
  <2>2. h.selected = Base /\ flow.index = ReviewSlot  BY <2>1, ReviewPlace
  <2>3. Placed(f)  BY <1>1, <2>1, <2>2, EnteredPlace
  <2>4. QED  BY <1>2, <2>1, <2>3
<1>9. ASSUME NEW a \in BOOLEAN, RescuePass(a) PROVE Placed(flow')
  <2> DEFINE h == FlushTried(Mirrored)  g == EnterSelfCheck(h, flow.index, a)
             f == Reinject(g, Mirrored.stash)
  <2>1. /\ flow.status = "running" /\ flow.current = "SELF_CHECK"
        /\ FlowOK(f, code) /\ EnteredSelfCheck(g, h, flow.index) /\ SamePlace(f, g)
        /\ h.selected = flow.selected /\ h.status = flow.status /\ Saved(f, flow.steps)
    BY <1>9, RescuePassDoes
  <2> HIDE DEF f, g, h
  <2>2. h.selected = Base /\ flow.index = ReviewSlot  BY <2>1, ReviewPlace
  <2>3. AtSlot(g)  BY <1>1, <2>1, <2>2, EnteredPlace
  <2>4. Placed(f)  BY <2>1, <2>3 DEF AtSlot, SamePlace, Placed
  <2>5. QED  BY <1>2, <2>1, <2>4
<1>10. ASSUME NEW a \in BOOLEAN, CloseWithFullRound(a) PROVE Placed(flow')
  <2> DEFINE h == CompleteClean(Mirrored)  f == EnterSelfCheck(h, flow.index, a)
  <2>1. /\ flow.status = "running" /\ flow.current = "SELF_CHECK"
        /\ FlowOK(f, code) /\ EnteredSelfCheck(f, h, flow.index)
        /\ h.selected = flow.selected /\ h.status = flow.status /\ Saved(f, flow.steps)
    BY <1>10, CloseDoes
  <2> HIDE DEF f, h
  <2>2. h.selected = Base /\ flow.index = ReviewSlot  BY <2>1, ReviewPlace
  <2>3. Placed(f)  BY <1>1, <2>1, <2>2, EnteredPlace
  <2>4. QED  BY <1>2, <2>1, <2>3
<1>11. ASSUME NEW a \in BOOLEAN, Advance(a) PROVE Placed(flow')
  <2> DEFINE i == flow.index + 1  t == flow.selected[i]
             f == IF t = "SELF_CHECK" THEN EnterSelfCheck(Departed, i, a) ELSE Entered(t)
  <2>1. /\ Onward /\ flow.status = "running" /\ Cur.status = "completed"
        /\ i \in 2..Len(flow.selected) /\ FlowOK(f, code) /\ Saved(f, flow.steps)
        /\ f.selected = flow.selected /\ f.index = i /\ f.current = t /\ f.status = "running"
    BY <1>11, AdvanceDoes
  <2> HIDE DEF f
  <2>2. AtSlot(flow)  BY <2>1, OnwardPlace DEF Onward, RoundOver, Leaving
  <2>3. flow.selected = Base  BY <2>2 DEF AtSlot
  <2>4. i \in 1..Len(Base) /\ Base[i] = t  BY <2>1, <2>3
  <2>5. t \notin Dynamic  BY <1>1, <2>4, BaseFacts
  <2> HIDE DEF i, t
  <2>6. Placed(f)  BY <2>1, <2>3, <2>4, <2>5 DEF AtSlot, Placed
  <2>7. QED  BY <1>2, <2>1, <2>6
<1>12. QED  BY <1>3, <1>4, <1>5, <1>6, <1>7, <1>8, <1>9, <1>10, <1>11 DEF ToNewStep

LEMMA ToKnownStepPlace ==
  ASSUME Standard, Standing, Placed(flow), ToKnownStep
  PROVE  Placed(flow')
<1>1. /\ flow \in FlowSet /\ flow.steps \in [Types -> Step] /\ setup \in Setups
      /\ flow.current \in Types /\ Cur = flow.steps[flow.current]
  BY StandingFlow DEF Standing, Cur
<1>2. ASSUME NEW f, FlowOK(f, code), Placed(f), flow.status = "running", Saved(f, flow.steps)
      PROVE  Placed(flow')  BY <1>1, <1>2, SavedPlace DEF FlowOK
<1>3. CASE ContinueImplement
  <2>1. /\ flow.status = "running" /\ flow.current = "IMPLEMENT" /\ FlowOK(Continued, code)
        /\ Saved(Continued, Counted.steps) /\ Counted.steps \in [Types -> Step]
        /\ SamePlace(Continued, flow)  BY <1>3, ContinueDoes DEF SameButSteps
  <2>2. Continued.current # "CONFIRM"  BY <2>1 DEF SamePlace
  <2>3. Placed(Continued)  BY <2>1, <2>2, PlaceKept DEF SamePlace
  <2>4. QED  BY <2>1, <2>3, SavedPlace DEF FlowOK
<1>4. CASE FixesExhausted
  <2>1. /\ flow.status = "running" /\ flow.current \in Gates \cup {"SELF_CHECK"}
        /\ StepAndStatus(flow', flow, Cur, "failed")  BY <1>1, <1>4, FixesExhaustedDoes
  <2>2. QED  BY <1>1, <2>1, StepPlace
<1>5. CASE Complete
  <2>1. /\ Onward /\ flow.status = "running" /\ Cur.status = "completed"
        /\ FlowOK(Ended, code) /\ Saved(Ended, flow.steps)
        /\ Ended.selected = flow.selected /\ Ended.index = Len(flow.selected) + 1
        /\ Ended.current = flow.current /\ Ended.status = "completed"
    BY <1>5, CompleteDoes
  <2>2. AtSlot(flow)  BY <2>1, OnwardPlace DEF Onward, RoundOver, Leaving
  <2>3. Placed(Ended)  BY <2>1, <2>2 DEF AtSlot, Placed
  <2>4. QED  BY <1>2, <2>1, <2>3
<1>6. ASSUME NEW a \in BOOLEAN, LoopToFix(a) PROVE Placed(flow')
  <2> DEFINE f == ToFix(Marked, a)
  <2>1. /\ flow.status = "running" /\ flow.current \in Gates \cup {"SELF_CHECK"}
        /\ FlowOK(f, code) /\ AtFix(f, Marked) /\ Saved(f, flow.steps)
    BY <1>6, LoopToFixDoes
  <2> HIDE DEF f
  <2>2. flow.selected = Base  BY <2>1, PlaceIs DEF AtSlot, Gates, Dynamic
  <2>3. Marked.selected = Base /\ Marked.status = "running" /\ Marked \in FlowSet
        /\ HasSlots(Marked)  BY <2>1, <2>2, MarkedValues DEF SamePlace
  <2>4. Placed(f)  BY <1>1, <2>1, <2>3, FixPlace
  <2>5. QED  BY <1>2, <2>1, <2>4
<1>7. ASSUME NEW a \in BOOLEAN, PassThroughRuling(a) PROVE Placed(flow')
  <2> DEFINE f == ToFix(Unspliced, a)
  <2>1. /\ flow.status = "running" /\ flow.current = "ADJUDICATE"
        /\ FlowOK(f, code) /\ AtFix(f, Unspliced) /\ Saved(f, flow.steps)
    BY <1>7, PassThroughRulingDoes
  <2> HIDE DEF f
  <2>2. PICK k \in Nat : Spliced(flow.selected, k)  BY <2>1, PlaceIs DEF InRuling, Dynamic
  <2>3. /\ Unspliced.selected = Base /\ Unspliced.status = "running" /\ Unspliced \in FlowSet
        /\ HasSlots(Unspliced)  BY <2>1, <2>2, StripSpliced, UnsplicedValues
  <2>4. Placed(f)  BY <1>1, <2>1, <2>3, FixPlace
  <2>5. QED  BY <1>2, <2>1, <2>4
<1>8. ASSUME NEW a \in BOOLEAN, ToRevision(a) PROVE Placed(flow')
  <2> DEFINE f == Returned(a)
  <2>1. /\ flow.status = "running" /\ flow.current = "CONFIRM"
        /\ FlowOK(f, code) /\ Saved(f, flow.steps)
        /\ f.selected = flow.selected /\ f.current = flow.reviews /\ f.newest = flow.newest
        /\ f.index = IF IndexOf(flow, flow.reviews) = 0 THEN flow.index
                     ELSE IndexOf(flow, flow.reviews)
        /\ f.status = "running"  BY <1>8, ToRevisionDoes
  <2> HIDE DEF f
  <2>2. InRuling(flow)  BY <2>1, PlaceIs DEF Dynamic
  <2>3. PICK k \in Nat : Spliced(flow.selected, k)  BY <2>2 DEF InRuling
  <2>4. flow.reviews = "ADJUDICATE" /\ flow.newest = "ADJUDICATE"
    BY <2>1, <2>2 DEF InRuling
  <2>5. IndexOf(flow, "ADJUDICATE") = ReviewSlot /\ ReviewSlot \in 1..Len(Base)
    BY <1>1, <2>3, RulingPlace, BaseFacts
  <2>6. f.index = ReviewSlot  BY <2>1, <2>4, <2>5
  <2>7. f.current = "ADJUDICATE"  BY <2>1, <2>4
  <2>8. Placed(f)  BY <2>1, <2>3, <2>4, <2>6, <2>7 DEF InRuling, Placed, Dynamic
  <2>9. QED  BY <1>2, <2>1, <2>8
<1>9. ASSUME NEW a \in BOOLEAN, RescueToFix(a) PROVE Placed(flow')
  <2> DEFINE f == ToFix(Rescued, a)
  <2>1. RescueDue /\ FlowOK(f, code) /\ AtFix(f, Rescued) /\ Saved(f, Rescued.steps)
    BY <1>9, RescueToFixDoes
  <2> HIDE DEF f
  <2>2. flow.selected = Base /\ flow.status = "running" /\ flow.current = "SELF_CHECK"
    BY <2>1, ReviewPlace DEF RescueDue, Leaving
  <2>3. /\ Rescued.selected = Base /\ Rescued.status = "running" /\ Rescued \in FlowSet
        /\ Rescued.steps \in [Types -> Step] /\ HasSlots(Rescued)
    BY <1>1, <2>2, RescuedValues, RescuedGround DEF SamePlace, FlowSet
  <2>4. Placed(f)  BY <1>1, <2>1, <2>3, FixPlace
  <2>5. QED  BY <2>1, <2>2, <2>3, <2>4, SavedPlace DEF FlowOK
<1>10. QED  BY <1>3, <1>4, <1>5, <1>6, <1>7, <1>8, <1>9 DEF ToKnownStep

\* What holds of a flow under one configuration holds under it after a step.
LEMMA PlaceStays ==
  ASSUME setup' = setup
  PROVE  /\ Placed(flow') => Placed(flow)'
         /\ \A i : Placed(history'[i].flow) => Placed(history[i].flow)'
<1>1. Base' = Base /\ ConfirmRulings' = ConfirmRulings /\ ReviewSlot' = ReviewSlot
  <2>1. Base' = Base /\ ConfirmRulings' = ConfirmRulings  BY DEF Base, ConfirmRulings
  <2> DEFINE f == [selected |-> Base]
  <2>2. f' = f  BY <2>1
  <2>3. IndexOf(f', "SELF_CHECK") = IndexOf(f, "SELF_CHECK")  BY ONLY <2>2
  <2>4. ReviewSlot' = IndexOf(f', "SELF_CHECK") /\ ReviewSlot = IndexOf(f, "SELF_CHECK")
    BY DEF ReviewSlot, IndexOf, SelectInSeq
  <2>5. QED  BY <2>1, <2>3, <2>4
<1>2. \A i : Placed(history'[i].flow) => Placed(history[i].flow)'
  BY <1>1, Zenon DEF Placed, AtSlot, InRuling, Spliced
<1>3. QED  BY <1>1, <1>2, Zenon DEF Placed, AtSlot, InRuling, Spliced

\* A restart goes back to where a step was entered: the sequence is the one of then.
LEMMA RestartPlace ==
  ASSUME Standard, SequenceInv, NEW i \in 1..Len(history), NEW r \in BOOLEAN, NEW u \in BOOLEAN,
         Restart(i, r, u)
  PROVE  Placed(flow')
<1> DEFINE e == history[i].flow  g == Restored(i, LayersThen(r), NewestThen(r))
<1>1. /\ FlowOK(g, code) /\ SamePlace(g, e) /\ flow' = Rebuilt(g, u)
      /\ Placed(e) /\ e.status = "running" /\ setup \in Setups
  BY RestartDoes, Zenon DEF SequenceInv, RewindInv, EntryOK, RestartedFlow, Standing
<1> HIDE DEF e, g
<1>2. g.status = "running" /\ g.current = e.current /\ g.index = e.index
      /\ g.selected = e.selected /\ g.newest = e.newest /\ g.reviews = e.reviews
  BY <1>1 DEF SamePlace
<1>3. /\ flow'.status = "running" /\ flow'.selected = e.selected
      /\ flow'.index = e.index /\ flow'.current = e.current
      /\ g.current = "SELF_CHECK" => EnteredSelfCheck(flow', g, g.index)
      /\ g.current # "SELF_CHECK" =>
           /\ flow'.reviews = g.reviews /\ flow'.steps[g.current] = Anew
           /\ flow'.newest = IF g.current = "CONFIRM" THEN g.newest ELSE g.current
  BY <1>1, <1>2, RebuiltValues
<1>4. CASE AtSlot(e) /\ g.current = "SELF_CHECK"
  <2>1. e.selected = Base /\ e.index = ReviewSlot  BY <1>1, <1>2, <1>4, BaseFacts DEF AtSlot
  <2>2. QED  BY <1>1, <1>2, <1>3, <1>4, <2>1, EnteredPlace
<1>5. CASE AtSlot(e) /\ g.current # "SELF_CHECK"
  BY <1>1, <1>2, <1>3, <1>5 DEF AtSlot, Placed
<1>6. CASE InRuling(e)
  <2>1. e.current \in Dynamic /\ e.newest = "ADJUDICATE" /\ g.current # "SELF_CHECK"
    BY <1>2, <1>6 DEF InRuling, Dynamic
  <2>2. Anew.status = "pending"  BY DEF Anew, NewStep
  <2>3. flow'.newest = "ADJUDICATE"  BY <1>2, <1>3, <2>1 DEF Dynamic
  <2>4. flow'.reviews = e.reviews  BY <1>2, <1>3, <2>1
  <2>5. flow'.current = "CONFIRM" => flow'.steps["CONFIRM"].status # "completed"
    BY <1>2, <1>3, <2>1, <2>2
  <2>6. InRuling(flow')  BY <1>1, <1>3, <1>6, <2>1, <2>3, <2>4, <2>5 DEF InRuling
  <2>7. QED  BY <2>6 DEF Placed
<1>7. QED  BY <1>1, <1>4, <1>5, <1>6 DEF Placed

\* Every step leads to a place, and leaves snapshots of places.
LEMMA StepPlaces ==
  ASSUME Standard, SequenceInv, [RewindNext]_rvars
  PROVE  SequenceInv'
<1>1. RewindInv' /\ Standing /\ Placed(flow)  BY StepKeeps DEF SequenceInv, RewindInv
<1>2. /\ Len(history) \in Nat /\ history \in Seq(EntrySet)
  BY EntriesTyped DEF SequenceInv, RewindInv
<1>3. SUFFICES /\ setup' = setup /\ Placed(flow')
               /\ \A i \in 1..Len(history') : Placed(history'[i].flow)
  BY <1>1, PlaceStays DEF SequenceInv
<1>4. CASE Enters
  <2>1. Begin /\ Progress  BY <1>1, <1>4, BeginProgress DEF Enters
  <2>2. setup' = setup /\ Placed(flow')  BY <1>1, <2>1, BeginPlace, ProgressStands
  <2>3. history' = history \/ history' = Append(history, Entry(flow))
    BY <1>4 DEF Enters, SnapshotEntry
  <2>4. CASE history' = history  BY <2>2, <2>4 DEF SequenceInv
  <2>5. CASE history' = Append(history, Entry(flow))
    <3> DEFINE e == Entry(flow)  h == history'
    <3>1. e.flow = flow /\ e \in EntrySet'  /\ h = Append(history, e)
      <4>1. e.flow = flow  BY DEF Entry
      <4>2. h[Len(h)] = e /\ Len(h) \in 1..Len(h) /\ h \in Seq(EntrySet')
        BY <1>1, <1>2, <2>5 DEF RewindInv
      <4>3. QED  BY <2>5, <4>1, <4>2
    <3> HIDE DEF e
    <3>2. /\ Len(h) = Len(history) + 1 /\ h[Len(h)] = e
          /\ \A i \in 1..Len(history) : h[i] = history[i]  BY ONLY <1>2, <3>1
    <3>3. ASSUME NEW i \in 1..Len(h) PROVE Placed(h[i].flow)
      <4>1. i \in 1..Len(history) \/ i = Len(h)  BY <1>2, <3>2
      <4>2. QED  BY <1>1, <3>1, <3>2, <4>1 DEF SequenceInv
    <3>4. QED  BY <2>2, <3>3
  <2>6. QED  BY <2>3, <2>4, <2>5
<1>5. CASE Adds \/ Revises \/ LeavesHistory
  <2>1. history' = history  BY <1>5 DEF Adds, Revises, LeavesHistory, rewindVars
  <2>2. setup' = setup /\ Placed(flow')
    <3>1. CASE Adds
      BY <1>1, <3>1, ToNewStepPlace, ToNewStepProgress, ProgressStands DEF Adds
    <3>2. CASE Revises
      BY <1>1, <3>2, OperatorPlace, OperatorProgress, ProgressStands DEF Revises, Operator
    <3>3. CASE LeavesHistory
      <4>1. CASE Handlers  BY <1>1, <4>1, HandlersPlace, HandlersProgress, ProgressStands
      <4>2. CASE Retry \/ Skip \/ GiveUp
        BY <1>1, <4>2, OperatorPlace, OperatorProgress, ProgressStands DEF Operator
      <4>3. CASE ToKnownStep
        BY <1>1, <4>3, ToKnownStepPlace, ToKnownStepProgress, ProgressStands
      <4>4. CASE Stopped  BY <1>1, <4>4 DEF Stopped, vars
      <4>5. QED  BY <3>3, <4>1, <4>2, <4>3, <4>4 DEF LeavesHistory
    <3>4. QED  BY <1>5, <3>1, <3>2, <3>3
  <2>3. QED  BY <2>1, <2>2 DEF SequenceInv
<1>6. ASSUME NEW i \in 1..Len(history), NEW r \in BOOLEAN, NEW u \in BOOLEAN, Restart(i, r, u)
      PROVE  /\ setup' = setup /\ Placed(flow')
             /\ \A j \in 1..Len(history') : Placed(history'[j].flow)
  <2>1. /\ setup' = setup
        /\ history' = SubSeq(history, 1, i - 1) \/ history' = << >>
    BY <1>6, RestartDoes DEF SequenceInv
  <2>2. Placed(flow')  BY <1>6, RestartPlace
  <2>3. Len(history') \in 0..(i - 1) /\ \A j \in 1..Len(history') : history'[j] = history[j]
    <3>1. CASE history' = SubSeq(history, 1, i - 1)
      BY ONLY <1>2, <3>1, i \in 1..Len(history)
    <3>2. CASE history' = << >>  BY <3>2
    <3>3. QED  BY <2>1, <3>1, <3>2
  <2>4. \A j \in 1..Len(history') : j \in 1..Len(history)  BY <1>2, <2>3
  <2>5. QED  BY <2>1, <2>2, <2>3, <2>4 DEF SequenceInv
<1>7. CASE UNCHANGED rvars
  <2>1. setup' = setup /\ flow' = flow /\ history' = history
    BY <1>7 DEF rvars, rewindVars, vars
  <2>2. QED  BY <2>1 DEF SequenceInv
<1>8. QED  BY <1>4, <1>5, <1>6, <1>7 DEF RewindNext

LEMMA InitPlaces ==
  ASSUME Standard, RewindInit
  PROVE  SequenceInv
<1>1. RewindInv /\ history = << >> /\ setup \in Setups  BY InitStands DEF RewindInit, Init
<1>2. flow.selected = Base /\ flow.index = 1 /\ flow.current = Base[1] /\ flow.status = "running"
  BY DEF RewindInit, Init
<1>3. 1 \in 1..Len(Base) /\ Base[1] \notin Dynamic  BY <1>1, BaseFacts
<1>4. AtSlot(flow)  BY <1>2, <1>3 DEF AtSlot
<1>5. QED  BY <1>1, <1>4 DEF SequenceInv, Placed

\* A place is one of the flow's sequence as it should be.
LEMMA PlacedRestored ==
  ASSUME Standard, SequenceInv
  PROVE  SequenceRestored
<1>1. setup \in Setups  BY DEF SequenceInv, RewindInv, Standing
<1>2. ASSUME AtSlot(flow) PROVE SequenceRestored  BY <1>2 DEF AtSlot, SequenceRestored
<1>3. ASSUME InRuling(flow) PROVE SequenceRestored
  <2>1. PICK k \in Nat : Spliced(flow.selected, k) /\ (flow.current = "CONFIRM" => k > 0)
    BY <1>3 DEF InRuling
  <2>2. ReviewSlot \in 1..Len(Base) /\ Len(Base) \in Nat  BY <1>1, BaseFacts
  <2>3. Len(flow.selected) = Len(Base) + 1 + k  BY <2>1 DEF Spliced
  <2>4. ASSUME NEW j \in 1..Len(flow.selected)
        PROVE  /\ j = ReviewSlot => flow.selected[j] = "ADJUDICATE"
               /\ j > ReviewSlot /\ j <= ReviewSlot + k => flow.selected[j] = "CONFIRM"
    BY <2>1, <2>2 DEF Spliced
  <2>5. CASE flow.current = "CONFIRM"
    <3>1. flow.index = ReviewSlot + 1 /\ k > 0  BY <1>3, <2>1, <2>5 DEF InRuling
    <3>2. flow.index \in 1..Len(flow.selected)  BY <2>2, <2>3, <3>1
    <3>3. flow.selected[flow.index] = "CONFIRM"  BY <2>2, <2>4, <3>1, <3>2
    <3>4. QED  BY <2>2, <2>3, <2>5, <3>2, <3>3 DEF SequenceRestored, Dynamic
  <2>6. CASE flow.current # "CONFIRM"
    <3>1. flow.index = ReviewSlot /\ flow.current = "ADJUDICATE"
      BY <1>3, <2>6 DEF InRuling, Dynamic
    <3>2. flow.index \in 1..Len(flow.selected)  BY <2>2, <2>3, <3>1
    <3>3. flow.selected[flow.index] = "ADJUDICATE"  BY <2>4, <3>1, <3>2
    <3>4. QED  BY <2>2, <2>3, <3>1, <3>2, <3>3 DEF SequenceRestored, Dynamic
  <2>7. QED  BY <2>5, <2>6
<1>4. QED  BY <1>2, <1>3 DEF SequenceInv, Placed

LEMMA SetupKept ==
  ASSUME RewindInv, [RewindNext]_rvars
  PROVE  setup' = setup
<1>1. Standing  BY DEF RewindInv
<1>2. CASE Enters  BY <1>1, <1>2, BeginProgress, ProgressStands DEF Enters
<1>3. CASE Adds \/ Revises
  BY <1>1, <1>3, ToNewStepProgress, OperatorProgress, ProgressStands DEF Adds, Revises, Operator
<1>4. CASE LeavesHistory
  BY <1>1, <1>4, HandlersProgress, OperatorProgress, ToKnownStepProgress, StoppedProgress,
     ProgressStands DEF LeavesHistory, Operator, Stopped
<1>5. CASE UNCHANGED rvars  BY <1>5 DEF rvars, vars
<1>6. ASSUME NEW i \in 1..Len(history), NEW r \in BOOLEAN, NEW u \in BOOLEAN, Restart(i, r, u)
      PROVE  setup' = setup  BY <1>6, RestartDoes
<1>7. QED  BY <1>2, <1>3, <1>4, <1>5, <1>6 DEF RewindNext

\* In a flow without configured confirmation steps, the slots spliced in for a
\* ruling and its confirmation are gone once the flow has left them, and the
\* routing index names the slot of the current step, through every detour, torn
\* save and restart (_strip_inserted_adjudicate_run, rewind.py:919).
THEOREM SequenceKept == RewindSpec => [](Standard => SequenceRestored)
<1> DEFINE Inv == RewindInv /\ (Standard => SequenceInv)
<1>1. RewindInit => Inv  BY InitPlaces, InitStands
<1>2. Inv /\ [RewindNext]_rvars => Inv'
  <2> SUFFICES ASSUME Inv, [RewindNext]_rvars PROVE Inv'  OBVIOUS
  <2>1. RewindInv' /\ setup' = setup  BY StepKeeps, SetupKept
  <2>2. Standard' => Standard  BY <2>1 DEF Standard, Base, ConfirmRulings, Skippable
  <2>3. QED  BY <2>1, <2>2, StepPlaces
<1>3. Inv => (Standard => SequenceRestored)  BY PlacedRestored
<1>4. QED  BY <1>1, <1>2, <1>3, PTL DEF RewindSpec

-----------------------------------------------------------------------------
(* The review: what clean passes say of the code.                           *)

\* A flow away from its review.
LEMMA ReviewElsewhere ==
  ASSUME NEW g, NEW n, g.current # "SELF_CHECK", g.active = NoRound, g.status # "completed",
         PastReview(g) => g.forced \/ n >= Passes
  PROVE  ReviewOf(g, n)
BY DEF ReviewOf

\* A flow that enters its review, in a round that is open or in a new one.
LEMMA ReviewEntered ==
  ASSUME NEW f \in FlowSet, NEW g, NEW i, NEW n \in Nat, EnteredSelfCheck(g, f, i),
         f.status # "completed",
         f.active # NoRound =>
           /\ f.active.credit = "full" => f.active.mode = "full"
           /\ f.active.layer = f.layer => ~f.forced /\ PassesBefore(f, n)
  PROVE  ReviewOf(g, n)
<1> DEFINE s == g.steps["SELF_CHECK"]
<1>1. /\ g.current = "SELF_CHECK" /\ g.status # "completed" /\ g.active \in Round
      /\ g.active.layer = g.layer
      /\ g.stash = IF g.active.pass = 1 THEN {} ELSE f.stash
      /\ RoundKept(g, f) \/ RoundNew(g, f)
      /\ s = [NewStep EXCEPT !.pass = g.active.pass,
                 !.flushTried = g.active.flushTried, !.stash = g.stash]
  BY DEF EnteredSelfCheck
<1>2. s.status = "pending" /\ s.stash = g.stash  BY <1>1 DEF NewStep
<1>3. g.active.credit = "full" => g.active.mode = "full"
  <2>1. f.active \in Round => f.active # NoRound  BY NoRoundIsNone
  <2>2. QED  BY <2>1 DEF EnteredSelfCheck
<1> HIDE DEF s
<1>4. ~g.forced /\ PassesBefore(g, n)
  <2>1. CASE RoundNew(g, f)  BY <2>1 DEF RoundNew, PassesBefore
  <2>2. CASE RoundKept(g, f)
    <3>1. f.active # NoRound /\ f.active.layer = f.layer
      BY <2>2, NoRoundIsNone DEF RoundKept
    <3>2. ~f.forced /\ PassesBefore(f, n)  BY <3>1
    <3>3. QED  BY <1>1, <2>2, <3>2 DEF RoundKept, PassesBefore
  <2>3. QED  BY <1>1, <2>1, <2>2
<1>5. RoundHolds(g, n) /\ AnswerHolds(g)
  BY <1>1, <1>2, <1>3, <1>4 DEF RoundHolds, AnswerHolds, s
<1>6. QED  BY <1>1, <1>5 DEF ReviewOf, PastReview

\* A step is asked, answered or armed again, away from the review.
LEMMA StepReview ==
  ASSUME ReviewOf(flow, clean), flow.current # "SELF_CHECK", NEW g, SameRound(g, flow),
         g.current = flow.current, g.index = flow.index, g.status # "completed",
         NEW n, n = clean \/ ~PastReview(flow)
  PROVE  ReviewOf(g, n)
BY DEF ReviewOf, SameRound, PastReview

\* The review is asked again or cut short.
LEMMA PassReview ==
  ASSUME ReviewOf(flow, clean), flow.current = "SELF_CHECK", NEW g, SameReview(g, flow),
         g.current = flow.current, g.status # "completed",
         LET s == g.steps["SELF_CHECK"] IN
           /\ s.stash = Cur.stash
           /\ s.status \in {"pending", "failed"}
           /\ Cur.status \notin {"completed", "revision"}
  PROVE  ReviewOf(g, clean)
<1>1. RoundHolds(flow, clean) /\ AnswerHolds(flow)  BY DEF ReviewOf
<1>2. RoundHolds(g, clean)
  BY <1>1 DEF RoundHolds, PassesBefore, SameReview, SameRound, SameLayers, Cur
<1>3. AnswerHolds(g)  BY <1>1 DEF AnswerHolds, SameReview, SameRound, SameLayers, Cur
<1>4. QED  BY <1>2, <1>3 DEF ReviewOf, PastReview

\* Handlers: the review counts its clean passes.
LEMMA AnsweredReview ==
  ASSUME Standing, ReviewOf(flow, clean), NEW found \in SUBSET Findings, NEW severe \in BOOLEAN,
         FinishSelfCheck(found, severe)
  PROVE  ReviewOf(flow', clean')
<1> DEFINE a == flow.active  s == PassAnswer(found, severe)  all == Cur.stash \cup found
<1>1. flow \in FlowSet /\ Cur \in Step /\ clean \in Nat  BY StandingFlow DEF Standing
<1>2. /\ flow.status = "running" /\ flow.current = "SELF_CHECK" /\ Cur.status = "running"
      /\ StepTo(flow', flow, s)
      /\ clean' = IF all # {} \/ a.mode # "full" THEN 0
                  ELSE IF Cur.pass = 1 THEN 1 ELSE clean + 1  BY <1>1, FinishSelfCheckDoes
<1>3. /\ RoundHolds(flow, clean) /\ AnswerHolds(flow) /\ Cur = flow.steps["SELF_CHECK"]
  BY <1>2 DEF ReviewOf, Cur
<1>4. /\ a # NoRound /\ Cur.pass = a.pass /\ ~flow.forced /\ a.layer = flow.layer
      /\ a.credit = "full" => a.mode = "full"
      /\ PassesBefore(flow, clean) /\ flow.stash = Cur.stash
  BY <1>2, <1>3 DEF RoundHolds, AnswerHolds
<1>5. a \in Round /\ a.pass \in Nat /\ a.pass >= 1
  BY <1>1, <1>4, NoRoundIsNone DEF FlowSet, Round
<1>6. /\ s.pass = Cur.pass /\ s.stash = Cur.stash
      /\ s.status \in {"completed", "revision"}
      /\ s.status = "completed" =>
           /\ s.deferred = all /\ (s.wrote <=> all # {})
           /\ PassDefers(found, severe) \/ NothingLeft(found)
  BY <1>1 DEF PassAnswer, Step
<1> HIDE DEF s
<1>7. /\ flow'.current = "SELF_CHECK" /\ flow'.status = "running" /\ flow'.active = a
      /\ flow'.forced = flow.forced /\ flow'.layer = flow.layer /\ flow'.stash = flow.stash
      /\ flow'.steps["SELF_CHECK"] = s
  BY <1>2 DEF StepTo, SameButSteps, SamePlace, SameReview, SameRound, SameLayers
<1>8. s.status = "completed" /\ a.credit = "full" => clean' >= a.pass \/ s.deferred # {}
  <2> SUFFICES ASSUME s.status = "completed", a.credit = "full", all = {} PROVE clean' >= a.pass
    BY <1>6
  <2>1. flow.stash = {} /\ a.mode = "full"  BY <1>4
  <2>2. CASE a.pass = 1  BY <1>2, <1>4, <2>1, <2>2
  <2>3. CASE a.pass # 1
    <3>1. clean >= a.pass - 1  BY <1>4, <1>5, <2>1, <2>3 DEF PassesBefore
    <3>2. clean' = clean + 1  BY <1>2, <1>4, <2>1, <2>3
    <3>3. QED  BY <1>1, <1>5, <3>1, <3>2
  <2>4. QED  BY <2>2, <2>3
<1>9. s.status = "completed" => (s.pass >= Passes => s.deferred = {})
  <2> SUFFICES ASSUME s.status = "completed", s.pass >= Passes PROVE all = {}  BY <1>6
  <2>1. setup.passes \in Nat /\ Cur.pass \in Nat
    BY <1>4, <1>5, EngineAssumption DEF Standing
  <2>2. ~PassDefers(found, severe)  BY <1>6, <2>1 DEF PassDefers, Passes
  <2>3. NothingLeft(found)  BY <1>6, <2>2
  <2>4. QED  BY <1>6, <2>3 DEF NothingLeft
<1>10. RoundHolds(flow', clean')  BY <1>4, <1>6, <1>7, <1>8 DEF RoundHolds
<1>11. AnswerHolds(flow')  BY <1>4, <1>6, <1>7, <1>9 DEF AnswerHolds
<1>12. QED  BY <1>7, <1>10, <1>11 DEF ReviewOf, PastReview

LEMMA HandlersReview ==
  ASSUME Standard, Standing, Placed(flow), ReviewOf(flow, clean), Handlers
  PROVE  ReviewOf(flow', clean')
<1>1. flow \in FlowSet /\ flow.current \in Types /\ Cur \in Step  BY StandingFlow
<1>2. ASSUME NEW s, NEW x \in {"running", "failed"},
             \/ StepTo(flow', flow, s) /\ flow.status = "running"
             \/ StepAndStatus(flow', flow, s, x),
             clean' = clean, flow.current # "SELF_CHECK"
      PROVE  ReviewOf(flow', clean')
  <2>1. /\ SameRound(flow', flow) /\ flow'.current = flow.current /\ flow'.index = flow.index
        /\ flow'.status # "completed"
    BY <1>2 DEF StepTo, StepAndStatus, SameButSteps, SamePlace, SameReview
  <2>2. QED  BY <1>2, <2>1, StepReview
<1>3. ASSUME NEW s, NEW x \in {"running", "failed"},
             \/ StepTo(flow', flow, s) /\ flow.status = "running"
             \/ StepAndStatus(flow', flow, s, x),
             clean' = clean, flow.current = "SELF_CHECK", s.stash = Cur.stash,
             s.status \in {"pending", "failed"}, Cur.status \notin {"completed", "revision"}
      PROVE  ReviewOf(flow', clean')
  <2>1. /\ SameReview(flow', flow) /\ flow'.current = flow.current
        /\ flow'.status # "completed" /\ flow'.steps["SELF_CHECK"] = s
    BY <1>3 DEF StepTo, StepAndStatus, SameButSteps, SamePlace
  <2>2. QED  BY <1>3, <2>1, PassReview
<1>4. CASE FinishPlain
  <2>1. clean' = clean  BY <1>4 DEF FinishPlain
  <2>2. QED  BY <1>1, <1>2, <1>4, <2>1, FinishPlainDoes
<1>5. CASE Fail
  <2> DEFINE s == [Cur EXCEPT !.status = "failed"]
  <2>1. clean' = clean /\ flow.status = "running" /\ Cur.status = "running"
        /\ StepTo(flow', flow, s)  BY <1>1, <1>5, FailDoes DEF Fail
  <2>2. s.status = "failed" /\ s.stash = Cur.stash  BY <1>1 DEF Step
  <2> HIDE DEF s
  <2>3. QED  BY <1>2, <1>3, <2>1, <2>2
<1>6. CASE Resume
  <2> DEFINE s == [Cur EXCEPT !.status = "pending", !.retries = 0]
  <2>1. clean' = clean /\ StepAndStatus(flow', flow, s, "running")
        /\ Cur.status \in {"running", "failed"}
    BY <1>1, <1>6, ResumeDoes DEF Resume, Running
  <2>2. s.status = "pending" /\ s.stash = Cur.stash  BY <1>1 DEF Step
  <2> HIDE DEF s
  <2>3. QED  BY <1>2, <1>3, <2>1, <2>2
<1>7. ASSUME NEW s \in Status, FinishImplement(s) PROVE ReviewOf(flow', clean')
  <2>1. clean' = clean  BY <1>7 DEF FinishImplement
  <2>2. QED  BY <1>1, <1>2, <1>7, <2>1, FinishImplementDoes
<1>8. ASSUME NEW s \in Status, FinishGate(s) PROVE ReviewOf(flow', clean')
  <2>1. clean' = clean  BY <1>8 DEF FinishGate
  <2>2. flow.current # "SELF_CHECK"  BY <1>1, <1>8, FinishGateDoes DEF Gates
  <2>3. QED  BY <1>1, <1>2, <1>8, <2>1, <2>2, FinishGateDoes
<1>9. ASSUME NEW found \in SUBSET Findings, NEW severe \in BOOLEAN,
             FinishSelfCheck(found, severe)
      PROVE  ReviewOf(flow', clean')  BY <1>9, AnsweredReview
<1>10. ASSUME NEW v \in {"noop", "description", "plan"}, FinishAdjudicate(v)
       PROVE  ReviewOf(flow', clean')
  <2>1. /\ flow.current = "ADJUDICATE" /\ SamePlace(flow', flow) /\ SameRound(flow', flow)
        /\ flow.status = "running"  BY <1>1, <1>10, FinishAdjudicateDoes
  <2>2. ~PastReview(flow)  BY <2>1 DEF PastReview, Dynamic
  <2>3. QED  BY <2>1, <2>2, StepReview DEF SamePlace
<1>11. ASSUME NEW v \in {"approved", "rejected"}, FinishConfirm(v) PROVE ReviewOf(flow', clean')
  <2>1. clean' = clean  BY <1>11 DEF FinishConfirm
  <2>2. QED  BY <1>1, <1>2, <1>11, <2>1, FinishConfirmDoes
<1>12. QED  BY <1>4, <1>5, <1>6, <1>7, <1>8, <1>9, <1>10, <1>11 DEF Handlers

\* IMPLEMENT stands before the review.
LEMMA FixBeforeReview ==
  ASSUME Standard, setup \in Setups, NEW f, Placed(f), f.status # "completed",
         f.current = "IMPLEMENT"
  PROVE  ~PastReview(f)
<1>1. AtSlot(f)  BY DEF Placed, InRuling, Dynamic
<1>2. f.index \in 1..Len(Base) /\ Base[f.index] = "IMPLEMENT"  BY <1>1 DEF AtSlot
<1>3. f.index < ReviewSlot /\ ReviewSlot \in Nat /\ f.index \in Nat  BY <1>2, BaseFacts
<1>4. QED  BY <1>3 DEF PastReview

LEMMA OperatorReview ==
  ASSUME Standard, Standing, Placed(flow), Orderly, ReviewOf(flow, clean), Operator
  PROVE  ReviewOf(flow', clean')
<1>1. flow \in FlowSet /\ flow.current \in Types /\ Cur \in Step  BY StandingFlow
<1>2. CASE Retry
  <2> DEFINE s == [Cur EXCEPT !.status = "pending", !.retries = @ + 1]
  <2>1. /\ flow.status = "running" /\ Cur.status = "failed" /\ StepTo(flow', flow, s)
        /\ clean' = clean  BY <1>1, <1>2, RetryDoes DEF Retry
  <2>2. s.status = "pending" /\ s.stash = Cur.stash  BY <1>1 DEF Step
  <2> HIDE DEF s
  <2>3. /\ SameReview(flow', flow) /\ flow'.current = flow.current
        /\ flow'.index = flow.index /\ flow'.status # "completed"
        /\ flow'.steps[flow.current] = s  BY <2>1 DEF StepTo, SameButSteps, SamePlace
  <2>4. QED  BY <2>1, <2>2, <2>3, PassReview, StepReview DEF SameReview
<1>3. CASE Skip
  <2> DEFINE s == [Cur EXCEPT !.status = "completed", !.skipped = TRUE]
  <2>1. /\ flow.status = "running" /\ flow.current \in Skippable /\ StepTo(flow', flow, s)
        /\ clean' = clean  BY <1>1, <1>3, SkipDoes DEF Skip
  <2> HIDE DEF s
  <2>2. flow.current # "SELF_CHECK"  BY <2>1 DEF Orderly
  <2>3. QED  BY <2>1, <2>2, StepReview DEF StepTo, SameButSteps, SamePlace, SameReview
<1>4. CASE GiveUp
  <2>1. /\ flow.status = "running" /\ Cur.status = "failed"
        /\ StepAndStatus(flow', flow, Cur, "failed") /\ clean' = clean
    BY <1>1, <1>4, GiveUpDoes DEF GiveUp
  <2>2. QED  BY <2>1, PassReview, StepReview DEF StepAndStatus, SameReview
<1>5. CASE Revise
  <2> DEFINE s == [Cur EXCEPT !.status = IF @ = "running" THEN "pending" ELSE @]
  <2>1. /\ flow.status = "running" /\ SamePlace(flow', flow)
        /\ flow'.active = NoRound /\ flow'.forced = TRUE /\ flow'.stash = flow.stash
        /\ flow'.steps[flow.current] = s  BY <1>1, <1>5, ReviseDoes
  <2>2. /\ s.status = IF Cur.status = "running" THEN "pending" ELSE Cur.status
        /\ s.stash = Cur.stash /\ s.deferred = Cur.deferred /\ s.wrote = Cur.wrote
        /\ s.pass = Cur.pass  BY <1>1 DEF Step
  <2> HIDE DEF s
  <2>3. CASE flow.current = "SELF_CHECK"
    <3>1. AnswerHolds(flow) /\ Cur = flow.steps["SELF_CHECK"]  BY <2>3 DEF ReviewOf, Cur
    <3>2. AnswerHolds(flow')  BY <2>1, <2>2, <2>3, <3>1 DEF AnswerHolds
    <3>3. RoundHolds(flow', clean')  BY <2>1 DEF RoundHolds
    <3>4. QED  BY <2>1, <2>3, <3>2, <3>3 DEF ReviewOf, SamePlace
  <2>4. CASE flow.current # "SELF_CHECK"  BY <2>1, <2>4, ReviewElsewhere DEF SamePlace
  <2>5. QED  BY <2>3, <2>4
<1>6. QED  BY <1>2, <1>3, <1>4, <1>5 DEF Operator

LEMMA BeginReview ==
  ASSUME Standard, Standing, Placed(flow), ReviewOf(flow, clean), Begin
  PROVE  ReviewOf(flow', clean')
<1>1. /\ flow \in FlowSet /\ flow.current \in Types /\ Cur \in Step
      /\ Grounded(flow, code) /\ setup \in Setups  BY StandingFlow DEF Standing
<1>2. CASE Start
  <2>1. /\ flow.status = "running" /\ flow.current # "SELF_CHECK"
        /\ clean' = IF flow.current = "IMPLEMENT" THEN 0 ELSE clean
        /\ StepTo(flow', flow, [Cur EXCEPT !.status = "running"])
    BY <1>1, <1>2, StartDoes DEF Start
  <2>2. clean' = clean \/ ~PastReview(flow)  BY <1>1, <2>1, FixBeforeReview
  <2>3. QED  BY <2>1, <2>2, StepReview DEF StepTo, SameButSteps, SamePlace, SameReview
<1>3. ASSUME NEW u \in BOOLEAN, StartSelfCheck(u) PROVE ReviewOf(flow', clean')
  <2> DEFINE h == PrepareScope(Refreshed, u)
             s == [Cur EXCEPT !.status = "running", !.pass = h.active.pass,
                              !.flushTried = h.active.flushTried]
  <2>1. /\ flow.status = "running" /\ flow.current = "SELF_CHECK" /\ Cur.status = "pending"
        /\ InRound(h, Refreshed) /\ StepTo(flow', h, s) /\ clean' = clean
    BY <1>1, <1>3, StartSelfCheckDoes DEF StartSelfCheck
  <2>2. s.status = "running" /\ s.pass = h.active.pass /\ s.stash = Cur.stash
    BY <1>1 DEF Step
  <2> HIDE DEF h, s
  <2>3. RoundHolds(flow, clean) /\ AnswerHolds(flow) /\ Cur = flow.steps["SELF_CHECK"]
    BY <2>1 DEF ReviewOf, Cur
  <2>4. Refreshed = flow  BY <2>3 DEF Refreshed, RequirementsChanged, RoundHolds
  <2>5. /\ h.current = "SELF_CHECK" /\ h.status = "running" /\ h.layer = flow.layer
        /\ h.stash = flow.stash /\ h.active \in Round /\ h.active.layer = h.layer
        /\ RoundKept(h, flow) \/ RoundNew(h, flow)
    BY <2>1, <2>4 DEF InRound, SamePlace, SameLayers
  <2>6. h.active.credit = "full" => h.active.mode = "full"
    <3>1. flow.active \in Round => flow.active # NoRound  BY NoRoundIsNone
    <3>2. QED  BY <2>1, <2>3, <2>4, <3>1 DEF InRound, RoundHolds
  <2>7. ~h.forced /\ PassesBefore(h, clean)
    <3>1. CASE RoundNew(h, flow)  BY <3>1 DEF RoundNew, PassesBefore
    <3>2. CASE RoundKept(h, flow)
      <4>1. flow.active # NoRound  BY <3>2, NoRoundIsNone DEF RoundKept
      <4>2. ~flow.forced /\ PassesBefore(flow, clean)  BY <2>1, <2>3, <4>1 DEF RoundHolds
      <4>3. QED  BY <2>5, <3>2, <4>2 DEF RoundKept, PassesBefore
    <3>3. QED  BY <2>5, <3>1, <3>2
  <2>8. /\ flow'.current = "SELF_CHECK" /\ flow'.status = "running" /\ flow'.active = h.active
        /\ flow'.forced = h.forced /\ flow'.layer = h.layer /\ flow'.stash = h.stash
        /\ flow'.steps["SELF_CHECK"] = s
    BY <2>1, <2>5 DEF StepTo, SameButSteps, SamePlace, SameReview, SameRound, SameLayers
  <2>9. RoundHolds(flow', clean')
    BY <2>1, <2>2, <2>5, <2>6, <2>7, <2>8 DEF RoundHolds, PassesBefore
  <2>10. AnswerHolds(flow')
    <3>1. h.active # NoRound  BY <2>5, NoRoundIsNone
    <3>2. QED  BY <2>2, <2>3, <2>5, <2>8, <3>1 DEF AnswerHolds
  <2>11. QED  BY <2>8, <2>9, <2>10 DEF ReviewOf, PastReview
<1>4. QED  BY <1>2, <1>3 DEF Begin

\* A save that was not cut.
LEMMA SavedWhole ==
  ASSUME Standing, NEW f, NEW bodies, Saved(f, bodies), spent'["tears"] = 0
  PROVE  flow' = f
<1>1. spent["tears"] \in Nat /\ DOMAIN spent = Event /\ "tears" \in Event
  BY DEF Standing, Event
<1>2. ~Spent("tears")  BY <1>1 DEF Spent
<1>3. QED  BY <1>2 DEF Saved

\* No pass was skipped over a stash.
LEMMA NothingUnflushed ==
  ASSUME Standing, flow.current = "SELF_CHECK", Cur.status = "completed",
         ReviewOf(flow, clean)
  PROVE  /\ ~Unflushed /\ AnswerHolds(flow) /\ RoundHolds(flow, clean)
         /\ Cur = flow.steps["SELF_CHECK"]
<1>1. AnswerHolds(flow) /\ RoundHolds(flow, clean) /\ Cur = flow.steps["SELF_CHECK"]
  BY DEF ReviewOf, Cur
<1>2. flow \in FlowSet  BY StandingFlow
<1>3. ~Unflushed  BY <1>1, <1>2, MirroredValues DEF Unflushed, AnswerHolds
<1>4. QED  BY <1>1, <1>3

\* Going on leads past the review only with the passes made, or owed to a revision.
LEMMA OnwardReview ==
  ASSUME Standard, Standing, Placed(flow), ReviewOf(flow, clean), Onward
  PROVE  /\ AtSlot(flow) /\ flow.selected = Base /\ flow.status = "running"
         /\ Departed.active = NoRound
         /\ flow.index >= ReviewSlot => flow.forced \/ clean >= Passes
         /\ flow.index >= ReviewSlot /\ flow.current # "SELF_CHECK" =>
              ~flow.forced /\ clean >= Passes
<1>1. flow \in FlowSet /\ setup \in Setups /\ clean \in Nat  BY StandingFlow DEF Standing
<1>2. /\ flow.status = "running" /\ Cur.status = "completed"
      /\ Leaving(flow.current, "completed") /\ flow.current # "ADJUDICATE"
      /\ flow.current # "SELF_CHECK" => ~RulingStands  BY DEF Onward, RoundOver, Leaving
<1>3. AtSlot(flow)  BY <1>2, OnwardPlace
<1>4. flow.selected = Base  BY <1>3 DEF AtSlot
<1>5. Departed.active = NoRound  BY <1>1, DepartedValues DEF ReviewOf
<1>6. CASE flow.current = "SELF_CHECK"
  <2>1. /\ AnswerHolds(flow) /\ RoundHolds(flow, clean) /\ Cur = flow.steps["SELF_CHECK"]
    BY <1>2, <1>6, NothingUnflushed
  <2>2. Cur.pass >= Passes /\ ~CompleteClean(Mirrored).closure
    BY <1>6 DEF Onward, RoundOver
  <2>3. CASE flow.active = NoRound
    BY <1>2, <1>3, <1>4, <1>5, <1>6, <2>1, <2>3 DEF AnswerHolds
  <2>4. CASE flow.active # NoRound
    <3>1. flow.active \in Round  BY <1>1, <2>4, NoRoundIsNone DEF FlowSet
    <3>2. Mirrored \in FlowSet /\ Mirrored.active = flow.active
      BY <1>1, MirroredValues DEF SameRound
    <3>3. flow.active.credit # "incremental"  BY <2>2, <2>4, <3>2, CompleteCleanValues
    <3>4. flow.active.credit = "full" /\ flow.active.pass \in Nat  BY <3>1, <3>3 DEF Round
    <3>5. Cur.deferred = {} /\ Cur.pass = flow.active.pass /\ clean >= flow.active.pass
      BY <1>2, <2>1, <2>2, <2>4, <3>4 DEF AnswerHolds, RoundHolds
    <3>6. setup.passes \in Nat  BY <1>1, EngineAssumption
    <3>7. clean >= Passes  BY <1>1, <2>2, <3>4, <3>5, <3>6 DEF Passes
    <3>8. QED  BY <1>2, <1>3, <1>4, <1>5, <1>6, <3>7
  <2>5. QED  BY <2>3, <2>4
<1>7. CASE flow.current # "SELF_CHECK"
  <2>1. ~ReflowDue /\ ~RulingStands  BY <1>7 DEF Onward, RoundOver, Leaving
  <2>2. IndexOf(flow, "SELF_CHECK") = ReviewSlot
    <3>1. ReviewSlot \in 1..Len(Base)  BY <1>1, BaseFacts
    <3>2. /\ IndexOf(flow, "SELF_CHECK") \in 1..Len(Base)
          /\ Base[IndexOf(flow, "SELF_CHECK")] = "SELF_CHECK"
      BY <1>1, <1>4, StandingFlow, SelfCheckPlace
    <3>3. QED  BY <1>1, <3>2, BaseFacts
  <2>3. flow.index >= ReviewSlot => ~flow.forced  BY <1>2, <1>7, <2>1, <2>2 DEF ReflowDue
  <2>4. flow.index >= ReviewSlot => PastReview(flow)
    <3>1. flow.index \in 1..Len(Base) /\ Base[flow.index] = flow.current
          /\ flow.current \notin Dynamic  BY <1>2, <1>3 DEF AtSlot
    <3>2. flow.index # ReviewSlot /\ ReviewSlot \in Nat  BY <1>1, <1>7, <3>1, BaseFacts
    <3>3. QED  BY <1>7, <3>1, <3>2 DEF PastReview
  <2>5. QED  BY <1>2, <1>3, <1>4, <1>5, <1>7, <2>3, <2>4 DEF ReviewOf
<1>8. QED  BY <1>6, <1>7

LEMMA ToNewStepReview ==
  ASSUME Standard, Standing, Placed(flow), ReviewOf(flow, clean), ToNewStep,
         spent'["tears"] = 0
  PROVE  ReviewOf(flow', clean')
<1>1. /\ flow \in FlowSet /\ setup \in Setups /\ clean \in Nat /\ clean' = clean
      /\ flow.current # "SELF_CHECK" => flow.active = NoRound
  BY StandingFlow, TransitionsLeave DEF Standing, ReviewOf
<1>2. CASE LoopToAdjudicate
  <2> DEFINE f == ToAdjudicate(Marked)
  <2>1. flow.status = "running" /\ flow.current = "SELF_CHECK" /\ Saved(f, flow.steps)
    BY <1>2, LoopToAdjudicateDoes
  <2>2. PICK at \in 1..Len(flow.selected) : AtInserted(f, Marked, at, "ADJUDICATE", Ruling(Marked))
    BY <1>2, LoopToAdjudicateDoes
  <2> HIDE DEF f
  <2>3. Marked.active = NoRound /\ Marked.status = "running"
    BY <2>1, MarkedValues DEF SamePlace
  <2>4. f.active = NoRound /\ f.current = "ADJUDICATE" /\ f.status = "running"
    BY <2>2, <2>3 DEF AtInserted, SameReview, SameRound
  <2>5. QED  BY <2>1, <2>4, SavedWhole, ReviewElsewhere DEF PastReview, Dynamic
<1>3. CASE RescueToAdjudicate
  <2>1. RescueDue  BY <1>3, RescueToAdjudicateDoes
  <2>2. QED  BY <2>1, NothingUnflushed DEF RescueDue, Leaving
<1>4. CASE ConfirmRuling
  <2> DEFINE f == ToConfirm
  <2>1. flow.status = "running" /\ flow.current = "ADJUDICATE" /\ Saved(f, flow.steps)
    BY <1>4, ConfirmRulingDoes
  <2>2. PICK g : /\ AtInserted(g, flow, flow.index + 1, "CONFIRM", NewStep)
                 /\ SameReview(f, g) /\ f.current = g.current /\ f.status = g.status
    BY <1>4, ConfirmRulingDoes
  <2> HIDE DEF f
  <2>3. f.active = NoRound /\ f.current = "CONFIRM" /\ f.status = "running"
    BY <1>1, <2>1, <2>2 DEF AtInserted, SameReview, SameRound
  <2>4. QED  BY <2>1, <2>3, SavedWhole, ReviewElsewhere DEF PastReview, Dynamic
<1>5. ASSUME NEW a \in BOOLEAN, LandRuling(a) PROVE ReviewOf(flow', clean')
  <2> DEFINE i == StripAdjudicateRun(flow).selfCheck  f == EnterSelfCheck(Landed, i, a)
  <2>1. /\ RulingStands /\ EnteredSelfCheck(f, Landed, i) /\ Saved(f, flow.steps)
    BY <1>5, LandRulingDoes
  <2> HIDE DEF f, i
  <2>2. flow.status = "running"  BY <2>1 DEF RulingStands, Leaving
  <2>3. Landed \in FlowSet /\ Landed.active = NoRound /\ Landed.status = "running"
    BY <2>2, LandedValues
  <2>4. flow' = f  BY <2>1, SavedWhole
  <2>5. QED  BY <1>1, <2>1, <2>3, <2>4, ReviewEntered
<1>6. ASSUME NEW a \in BOOLEAN, Reflow(a) PROVE ReviewOf(flow', clean')
  <2> DEFINE i == IndexOf(flow, "SELF_CHECK")  f == EnterSelfCheck(flow, i, a)
  <2>1. /\ flow.status = "running" /\ flow.current # "SELF_CHECK"
        /\ EnteredSelfCheck(f, flow, i) /\ Saved(f, flow.steps)  BY <1>6, ReflowDoes
  <2> HIDE DEF f, i
  <2>2. flow' = f  BY <2>1, SavedWhole
  <2>3. QED  BY <1>1, <2>1, <2>2, ReviewEntered
<1>7. ASSUME NEW a \in BOOLEAN, RepeatPass(a) PROVE ReviewOf(flow', clean')
  <2> DEFINE m == Mirrored  h == AdvancePass(m)  f == EnterSelfCheck(h, flow.index, a)
  <2>1. /\ flow.status = "running" /\ flow.current = "SELF_CHECK" /\ Cur.status = "completed"
        /\ EnteredSelfCheck(f, h, flow.index)
        /\ h.status = flow.status /\ Saved(f, flow.steps)  BY <1>7, RepeatPassDoes
  <2>2. AnswerHolds(flow) /\ RoundHolds(flow, clean) /\ Cur = flow.steps["SELF_CHECK"]
    BY <2>1, NothingUnflushed
  <2>3. /\ m \in FlowSet /\ m.active = flow.active /\ m.forced = flow.forced
        /\ m.layer = flow.layer
        /\ m.stash = IF Cur.wrote THEN Cur.deferred ELSE flow.stash
    <3>1. m \in FlowSet /\ SameRound(m, flow) /\ SameLayers(m, flow)
      BY <1>1, MirroredValues
    <3>2. m.stash = IF Cur.wrote THEN Cur.deferred ELSE flow.stash  BY <1>1, MirroredValues
    <3> HIDE DEF m
    <3>3. QED  BY <3>1, <3>2 DEF SameRound, SameLayers
  <2> HIDE DEF m
  <2>4. h \in FlowSet /\ h.forced = flow.forced /\ h.stash = m.stash /\ h.layer = flow.layer
    <3>1. h \in FlowSet /\ SameLayers(h, m) /\ h.stash = m.stash /\ h.forced = m.forced
      BY <2>3, AdvancePassValues
    <3> HIDE DEF h
    <3>2. QED  BY <2>3, <3>1 DEF SameLayers
  <2>5. /\ flow.active = NoRound => h.active = NoRound
        /\ flow.active # NoRound =>
             /\ flow.active \in Round /\ h.active \in Round
             /\ h.active.pass = flow.active.pass + 1
             /\ h.active.credit = flow.active.credit /\ h.active.mode = flow.active.mode
    BY <2>3, AdvancePassValues
  <2>6. flow' = f  BY <2>1, SavedWhole
  <2> HIDE DEF h, f
  <2>7. CASE flow.active = NoRound  BY <1>1, <2>1, <2>4, <2>5, <2>6, <2>7, ReviewEntered
  <2>8. CASE flow.active # NoRound
    <3>1. /\ ~flow.forced /\ (flow.active.credit = "full" => flow.active.mode = "full")
          /\ flow.active.credit = "full" => clean >= flow.active.pass \/ Cur.deferred # {}
      BY <2>1, <2>2, <2>8 DEF RoundHolds
    <3>2. Cur.deferred # {} => h.stash # {}  BY <2>1, <2>2, <2>3, <2>4 DEF AnswerHolds
    <3>3. flow.active.pass \in Nat  BY <2>5, <2>8 DEF Round
    <3>4. PassesBefore(h, clean)
      <4>1. h.active.pass - 1 = flow.active.pass  BY <2>5, <2>8, <3>3
      <4>2. QED  BY <2>5, <2>8, <3>1, <3>2, <4>1 DEF PassesBefore
    <3>5. QED  BY <1>1, <2>1, <2>4, <2>5, <2>6, <2>8, <3>1, <3>4, ReviewEntered
  <2>9. QED  BY <2>7, <2>8
<1>8. ASSUME NEW a \in BOOLEAN, RescuePass(a) PROVE ReviewOf(flow', clean')
  <2>1. flow.current = "SELF_CHECK" /\ Cur.status = "completed" /\ Unflushed
    BY <1>8, RescuePassDoes
  <2>2. QED  BY <2>1, NothingUnflushed
<1>9. ASSUME NEW a \in BOOLEAN, CloseWithFullRound(a) PROVE ReviewOf(flow', clean')
  <2> DEFINE h == CompleteClean(Mirrored)  f == EnterSelfCheck(h, flow.index, a)
  <2>1. /\ flow.status = "running" /\ EnteredSelfCheck(f, h, flow.index)
        /\ h.status = flow.status /\ h.active = NoRound /\ Saved(f, flow.steps)
    BY <1>9, CloseDoes
  <2>2. h \in FlowSet  BY <1>1, MirroredValues, CompleteCleanValues
  <2> HIDE DEF f, h
  <2>3. flow' = f  BY <2>1, SavedWhole
  <2>4. QED  BY <1>1, <2>1, <2>2, <2>3, ReviewEntered
<1>10. ASSUME NEW a \in BOOLEAN, Advance(a) PROVE ReviewOf(flow', clean')
  <2> DEFINE i == flow.index + 1  t == flow.selected[i]
             f == IF t = "SELF_CHECK" THEN EnterSelfCheck(Departed, i, a) ELSE Entered(t)
  <2>1. /\ Onward /\ flow.status = "running" /\ i \in 2..Len(flow.selected)
        /\ Saved(f, flow.steps)
        /\ f.index = i /\ f.current = t /\ f.status = "running"
        /\ t = "SELF_CHECK" => EnteredSelfCheck(f, Departed, i)
        /\ t # "SELF_CHECK" => f.active = Departed.active /\ f.forced = flow.forced
    BY <1>10, AdvanceDoes
  <2>2. /\ AtSlot(flow) /\ flow.selected = Base /\ Departed.active = NoRound
        /\ flow.index >= ReviewSlot => flow.forced \/ clean >= Passes
    BY <2>1, OnwardReview
  <2>3. flow' = f  BY <2>1, SavedWhole
  <2>4. flow.index \in Nat /\ ReviewSlot \in Nat /\ Base[ReviewSlot] = "SELF_CHECK"
    BY <1>1, BaseFacts DEF FlowSet
  <2> HIDE DEF f
  <2>5. CASE t = "SELF_CHECK"
    <3>1. Departed \in FlowSet /\ Departed.status = flow.status
      BY <1>1, DepartedValues DEF SamePlace
    <3>2. QED  BY <1>1, <2>1, <2>2, <2>3, <2>5, <3>1, ReviewEntered
  <2>6. CASE t # "SELF_CHECK"
    <3>1. PastReview(f) => flow.index >= ReviewSlot  BY <2>1, <2>4 DEF PastReview
    <3>2. QED  BY <1>1, <2>1, <2>2, <2>3, <2>6, <3>1, ReviewElsewhere
  <2>7. QED  BY <2>5, <2>6
<1>11. QED  BY <1>2, <1>3, <1>4, <1>5, <1>6, <1>7, <1>8, <1>9, <1>10 DEF ToNewStep

LEMMA ToKnownStepReview ==
  ASSUME Standard, Standing, Placed(flow), ReviewOf(flow, clean), ToKnownStep,
         spent'["tears"] = 0
  PROVE  ReviewOf(flow', clean')
<1>1. /\ flow \in FlowSet /\ setup \in Setups /\ clean \in Nat /\ clean' = clean
      /\ flow.current # "SELF_CHECK" => flow.active = NoRound
  BY StandingFlow, TransitionsLeave DEF Standing, ReviewOf
<1>2. ASSUME NEW f \in FlowSet, NEW g, AtFix(g, f), f.active = NoRound, f.status = "running",
             f.selected = Base, HasSlots(f)
      PROVE  ReviewOf(g, clean)
  <2>1. Placed(g)  BY <1>1, <1>2, FixPlace
  <2>2. g.current = "IMPLEMENT" /\ g.status = "running" /\ g.active = NoRound
    BY <1>2 DEF AtFix, SameRound
  <2>3. QED  BY <1>1, <2>1, <2>2, FixBeforeReview, ReviewElsewhere
<1>3. CASE ContinueImplement
  <2>1. /\ flow.status = "running" /\ flow.current = "IMPLEMENT"
        /\ Saved(Continued, Counted.steps) /\ SameButSteps(Continued, flow)
    BY <1>3, ContinueDoes
  <2>2. flow' = Continued  BY <2>1, SavedWhole
  <2>3. QED  BY <1>1, <2>1, <2>2, StepReview DEF SameButSteps, SamePlace, SameReview
<1>4. CASE FixesExhausted
  <2>1. Cur.status = "revision" /\ StepAndStatus(flow', flow, Cur, "failed")
    BY <1>1, <1>4, FixesExhaustedDoes
  <2>2. CASE flow.current = "SELF_CHECK"
    <3>1. AnswerHolds(flow) /\ RoundHolds(flow, clean) /\ Cur = flow.steps["SELF_CHECK"]
      BY <2>2 DEF ReviewOf, Cur
    <3>2. /\ flow'.current = "SELF_CHECK" /\ flow'.status = "failed"
          /\ flow'.steps["SELF_CHECK"] = Cur /\ SameReview(flow', flow)
      BY <2>1, <2>2 DEF StepAndStatus
    <3>3. AnswerHolds(flow') /\ RoundHolds(flow', clean)
      BY <2>1, <3>1, <3>2 DEF AnswerHolds, RoundHolds, SameReview, SameRound, SameLayers
    <3>4. QED  BY <1>1, <3>2, <3>3 DEF ReviewOf, PastReview
  <2>3. CASE flow.current # "SELF_CHECK"
    BY <1>1, <2>1, <2>3, StepReview DEF StepAndStatus, SameReview
  <2>4. QED  BY <2>2, <2>3
<1>5. CASE Complete
  <2>1. /\ Onward /\ flow.index >= Len(flow.selected) /\ Saved(Ended, flow.steps)
        /\ Ended.index = Len(flow.selected) + 1 /\ Ended.current = flow.current
        /\ Ended.active = Departed.active /\ Ended.forced = flow.forced
        /\ Ended.status = "completed"  BY <1>5, CompleteDoes
  <2>2. /\ AtSlot(flow) /\ flow.selected = Base /\ Departed.active = NoRound
        /\ flow.status = "running"
        /\ flow.index >= ReviewSlot /\ flow.current # "SELF_CHECK" =>
             ~flow.forced /\ clean >= Passes
    BY <2>1, OnwardReview
  <2>3. /\ flow.index \in Nat /\ ReviewSlot \in Nat /\ ReviewSlot < Len(Base)
        /\ Len(Base) \in Nat  BY <1>1, BaseFacts DEF FlowSet
  <2>4. flow.current # "SELF_CHECK"
    <3>1. flow.current = "SELF_CHECK" => flow.index = ReviewSlot  BY <2>2, ReviewPlace
    <3>2. QED  BY <2>1, <2>2, <2>3, <3>1
  <2>5. flow.index >= ReviewSlot  BY <2>1, <2>2, <2>3
  <2>6. flow' = Ended  BY <2>1, SavedWhole
  <2>7. QED  BY <1>1, <2>1, <2>2, <2>4, <2>5, <2>6 DEF ReviewOf
<1>6. ASSUME NEW a \in BOOLEAN, LoopToFix(a) PROVE ReviewOf(flow', clean')
  <2>1. /\ flow.status = "running" /\ flow.current \in Gates \cup {"SELF_CHECK"}
        /\ AtFix(ToFix(Marked, a), Marked) /\ Saved(ToFix(Marked, a), flow.steps)
    BY <1>6, LoopToFixDoes
  <2>2. flow.selected = Base  BY <2>1, PlaceIs DEF Gates, Dynamic, AtSlot
  <2>3. /\ Marked \in FlowSet /\ Marked.active = NoRound /\ Marked.status = "running"
        /\ Marked.selected = Base /\ HasSlots(Marked)
    BY <1>1, <2>1, <2>2, MarkedValues DEF SamePlace
  <2>4. QED  BY <1>1, <1>2, <2>1, <2>3, SavedWhole
<1>7. ASSUME NEW a \in BOOLEAN, PassThroughRuling(a) PROVE ReviewOf(flow', clean')
  <2>1. /\ flow.status = "running" /\ flow.current = "ADJUDICATE"
        /\ AtFix(ToFix(Unspliced, a), Unspliced) /\ Saved(ToFix(Unspliced, a), flow.steps)
    BY <1>7, PassThroughRulingDoes
  <2>2. PICK k \in Nat : Spliced(flow.selected, k)  BY <2>1, PlaceIs DEF InRuling, Dynamic
  <2>3. Unspliced.selected = Base  BY <2>1, <2>2, StripSpliced, UnsplicedValues DEF Dynamic
  <2>4. Unspliced \in FlowSet /\ HasSlots(Unspliced) /\ Unspliced.active = NoRound
        /\ Unspliced.status = "running"
    BY <1>1, <2>1, UnsplicedValues DEF SameReview, SameRound
  <2>5. QED  BY <1>1, <1>2, <2>1, <2>3, <2>4, SavedWhole
<1>8. ASSUME NEW a \in BOOLEAN, ToRevision(a) PROVE ReviewOf(flow', clean')
  <2> DEFINE f == Returned(a)
  <2>1. /\ flow.status = "running" /\ flow.current = "CONFIRM" /\ Saved(f, flow.steps)
        /\ f.current = flow.reviews /\ f.status = "running"
        /\ f.active = Rejected(a).active  BY <1>8, ToRevisionDoes
  <2> HIDE DEF f
  <2>2. flow.reviews = "ADJUDICATE"  BY <2>1, PlaceIs DEF InRuling, Dynamic
  <2>3. f.active = NoRound  BY <1>1, <2>1, <2>2, RejectedValues
  <2>4. QED  BY <1>1, <2>1, <2>2, <2>3, SavedWhole, ReviewElsewhere DEF PastReview, Dynamic
<1>9. ASSUME NEW a \in BOOLEAN, RescueToFix(a) PROVE ReviewOf(flow', clean')
  <2>1. RescueDue  BY <1>9, RescueToFixDoes
  <2>2. QED  BY <2>1, NothingUnflushed DEF RescueDue, Leaving
<1>10. QED  BY <1>3, <1>4, <1>5, <1>6, <1>7, <1>8, <1>9 DEF ToKnownStep

\* A restart that is not behind the review finds of it what then was known.
LEMMA RestartReview ==
  ASSUME Standard, SequenceInv, NEW i \in 1..Len(history), NEW r \in BOOLEAN, NEW u \in BOOLEAN,
         Restart(i, r, u), ~behind', ReviewOf(history[i].flow, history[i].clean)
  PROVE  ReviewOf(flow', clean')
<1> DEFINE e == history[i]  b == e.flow  g == Restored(i, LayersThen(r), NewestThen(r))
<1>1. /\ FlowOK(g, code) /\ SamePlace(g, b) /\ SameRound(g, b) /\ g.stash = b.stash
      /\ flow' = Rebuilt(g, u)
      /\ clean' = IF code = e.code /\ flow'.layer = b.layer THEN e.clean ELSE 0
      /\ ~WentBehind(i, flow')
  BY RestartDoes, Zenon DEF SequenceInv, RewindInv, RestartedFlow
<1>2. /\ Placed(b) /\ b.status = "running" /\ setup \in Setups
      /\ b.steps[b.current].status = "pending" /\ e.clean \in Nat /\ ReviewOf(b, e.clean)
  <2>1. e \in EntrySet  BY EntriesTyped DEF SequenceInv, RewindInv
  <2>2. e.clean \in Nat  BY <2>1 DEF EntrySet
  <2>3. QED  BY <2>2, Zenon DEF SequenceInv, RewindInv, EntryOK, Standing
<1>3. ~WentBehind(i, flow') =>
        IF flow'.current = "SELF_CHECK" THEN b.active.pass > 1 => code = e.code
        ELSE b.index > IndexOf(b, "SELF_CHECK") => code = e.code /\ flow'.layer = b.layer
  BY DEF WentBehind
<1> HIDE DEF e, b, g
<1>4. /\ g.status = "running" /\ g.current = b.current /\ g.index = b.index
      /\ g.selected = b.selected /\ g.active = b.active /\ g.forced = b.forced
      /\ g \in FlowSet  BY <1>1, <1>2 DEF SamePlace, SameRound, FlowOK
<1>5. /\ flow'.status = "running" /\ flow'.index = b.index /\ flow'.current = b.current
      /\ flow'.layer = g.layer
      /\ b.current = "SELF_CHECK" => EnteredSelfCheck(flow', g, g.index)
      /\ b.current # "SELF_CHECK" => flow'.active = g.active /\ flow'.forced = g.forced
  BY <1>1, <1>4, RebuiltValues DEF SameLayers, SameReview, SameRound
<1>6. clean' \in Nat  BY <1>1, <1>2
<1>7. CASE b.current = "SELF_CHECK"
  <2>1. RoundHolds(b, e.clean)  BY <1>2, <1>7 DEF ReviewOf
  <2>2. ASSUME b.active # NoRound
        PROVE  /\ g.active.credit = "full" => g.active.mode = "full"
               /\ g.active.layer = g.layer => ~g.forced /\ PassesBefore(g, clean')
    <3>1. /\ ~b.forced /\ b.active.layer = b.layer /\ PassesBefore(b, e.clean)
          /\ b.active.credit = "full" => b.active.mode = "full"
      BY <1>2, <1>7, <2>1, <2>2 DEF RoundHolds
    <3>2. ASSUME g.active.layer = g.layer, g.active.pass > 1 PROVE clean' = e.clean
      BY <1>1, <1>3, <1>4, <1>5, <1>7, <3>1, <3>2
    <3>3. QED  BY <1>1, <1>4, <3>1, <3>2 DEF PassesBefore
  <2>3. QED  BY <1>4, <1>5, <1>6, <1>7, <2>2, ReviewEntered
<1>8. CASE b.current # "SELF_CHECK"
  <2>1. b.active = NoRound /\ (PastReview(b) => b.forced \/ e.clean >= Passes)
    BY <1>2, <1>8 DEF ReviewOf
  <2>2. ASSUME PastReview(b) PROVE clean' = e.clean
    <3>1. b.selected = Base /\ b.current \notin Dynamic
      BY <1>2, <2>2 DEF PastReview, Placed, AtSlot, InRuling
    <3>2. IndexOf(b, "SELF_CHECK") = ReviewSlot  BY <3>1 DEF IndexOf, ReviewSlot
    <3>3. QED  BY <1>1, <1>3, <1>5, <1>8, <2>2, <3>2 DEF PastReview
  <2>3. PastReview(flow') => PastReview(b)  BY <1>5 DEF PastReview
  <2>4. QED  BY <1>4, <1>5, <1>8, <2>1, <2>2, <2>3, ReviewElsewhere
<1>9. QED  BY <1>7, <1>8

\* What is spent stays spent, and a restart is not taken back.
LEMMA SpentGrows ==
  ASSUME RewindInv, [RewindNext]_rvars
  PROVE  /\ setup' = setup /\ spent["tears"] \in Nat /\ spent["tears"] <= spent'["tears"]
         /\ behind => behind'
<1>1. Standing /\ setup' = setup /\ spent \in [Event -> Nat] /\ "tears" \in Event
  BY SetupKept DEF RewindInv, Standing, Event
<1>2. SUFFICES /\ spent["tears"] <= spent'["tears"]
               /\ behind => behind'  BY <1>1
<1>3. Scalars => spent["tears"] <= spent'["tears"]  BY <1>1 DEF Scalars
<1>4. CASE Enters  BY <1>1, <1>3, <1>4, BeginProgress DEF Enters, Progress
<1>5. CASE Adds \/ Revises
  BY <1>1, <1>3, <1>5, ToNewStepProgress, OperatorProgress DEF Adds, Revises, Operator, Progress
<1>6. CASE LeavesHistory
  <2>1. Progress
    BY <1>1, <1>6, HandlersProgress, OperatorProgress, ToKnownStepProgress, StoppedProgress
    DEF LeavesHistory, Operator, Stopped
  <2>2. QED  BY <1>3, <1>6, <2>1 DEF LeavesHistory, rewindVars, Progress
<1>7. CASE UNCHANGED rvars  BY <1>1, <1>7 DEF rvars, vars, rewindVars
<1>8. ASSUME NEW i \in 1..Len(history), NEW r \in BOOLEAN, NEW u \in BOOLEAN, Restart(i, r, u)
      PROVE  spent["tears"] <= spent'["tears"] /\ (behind => behind')
  <2>1. /\ spent' = [spent EXCEPT !.restarts = @ + 1, !.revisions = IF r THEN @ + 1 ELSE @]
        /\ behind' = (behind \/ WentBehind(i, flow'))  BY <1>8, RestartDoes
  <2>2. spent'["tears"] = spent["tears"]  BY <1>1, <2>1
  <2>3. spent["tears"] <= spent'["tears"]
    <3>1. spent["tears"] \in Nat  BY <1>1
    <3>2. QED  BY ONLY <2>2, <3>1
  <2>4. behind => behind'  BY <2>1, Zenon
  <2>5. QED  BY <2>3, <2>4, Zenon
<1>9. QED  BY <1>4, <1>5, <1>6, <1>7, <1>8 DEF RewindNext

LEMMA OrderedBefore ==
  ASSUME RewindInv, [RewindNext]_rvars, Ordered'
  PROVE  /\ Ordered /\ Orderly /\ ~behind /\ ~behind'
         /\ spent["tears"] = 0 /\ spent'["tears"] = 0 /\ setup' = setup
<1>1. setup' = setup /\ spent'["tears"] = 0 /\ ~behind'  BY SetupKept DEF Ordered, Orderly
<1>2. "SELF_CHECK" \notin Skippable  BY <1>1 DEF Ordered, Orderly, Skippable
<1>3. spent["tears"] = 0 /\ ~behind  BY <1>1, SpentGrows
<1>4. QED  BY <1>1, <1>2, <1>3 DEF Ordered, Orderly

LEMMA ReviewStays ==
  ASSUME setup' = setup
  PROVE  /\ ReviewOf(flow', clean') => ReviewOf(flow, clean)'
         /\ \A i : ReviewOf(history'[i].flow, history'[i].clean)
                      => ReviewOf(history[i].flow, history[i].clean)'
<1>1. Base' = Base /\ ReviewSlot' = ReviewSlot /\ Passes' = Passes
  <2>1. Base' = Base /\ Passes' = Passes  BY DEF Base, Passes
  <2> DEFINE f == [selected |-> Base]
  <2>2. f' = f  BY <2>1
  <2>3. IndexOf(f', "SELF_CHECK") = IndexOf(f, "SELF_CHECK")  BY ONLY <2>2
  <2>4. ReviewSlot' = IndexOf(f', "SELF_CHECK") /\ ReviewSlot = IndexOf(f, "SELF_CHECK")
    BY DEF ReviewSlot, IndexOf, SelectInSeq
  <2>5. QED  BY <2>1, <2>3, <2>4
<1>2. ReviewOf(flow', clean') => ReviewOf(flow, clean)'
  BY <1>1, Zenon DEF ReviewOf, RoundHolds, AnswerHolds, PassesBefore, PastReview
<1>3. \A i : ReviewOf(history'[i].flow, history'[i].clean)
                => ReviewOf(history[i].flow, history[i].clean)'
  BY <1>1, Zenon DEF ReviewOf, RoundHolds, AnswerHolds, PassesBefore, PastReview
<1>4. QED  BY <1>2, <1>3

\* A step keeps the review of the flow.
LEMMA StepKeepsReview ==
  ASSUME Standard, SequenceInv, ReviewInv, [RewindNext]_rvars, Ordered'
  PROVE  ReviewOf(flow', clean')
<1>1. /\ Standing /\ Placed(flow) /\ Orderly /\ spent'["tears"] = 0 /\ ~behind'
      /\ ReviewOf(flow, clean)
      /\ \A i \in 1..Len(history) : ReviewOf(history[i].flow, history[i].clean)
  BY OrderedBefore, Zenon DEF SequenceInv, RewindInv, ReviewInv
<1>2. CASE Enters  BY <1>1, <1>2, BeginReview DEF Enters
<1>3. CASE Adds  BY <1>1, <1>3, ToNewStepReview DEF Adds
<1>4. CASE Revises  BY <1>1, <1>4, OperatorReview DEF Revises, Operator
<1>5. CASE LeavesHistory
  <2>1. CASE Handlers  BY <1>1, <2>1, HandlersReview
  <2>2. CASE Retry \/ Skip \/ GiveUp  BY <1>1, <2>2, OperatorReview DEF Operator
  <2>3. CASE ToKnownStep  BY <1>1, <2>3, ToKnownStepReview
  <2>4. CASE Stopped  BY <1>1, <2>4 DEF Stopped, vars
  <2>5. QED  BY <1>5, <2>1, <2>2, <2>3, <2>4 DEF LeavesHistory
<1>6. CASE UNCHANGED rvars  BY <1>1, <1>6 DEF rvars, vars
<1>7. ASSUME NEW i \in 1..Len(history), NEW r \in BOOLEAN, NEW u \in BOOLEAN, Restart(i, r, u)
      PROVE  ReviewOf(flow', clean')  BY <1>1, <1>7, RestartReview
<1>8. QED  BY <1>2, <1>3, <1>4, <1>5, <1>6, <1>7 DEF RewindNext

\* The snapshots after a step: those there were, or fewer, and one of the flow.
LEMMA EntriesAfter ==
  ASSUME RewindInv, [RewindNext]_rvars, NEW i \in 1..Len(history')
  PROVE  \/ i \in 1..Len(history) /\ history'[i] = history[i]
         \/ Enters /\ history'[i] = Entry(flow)
              /\ Left("restarts") /\ flow.current \notin entered
<1>1. Len(history) \in Nat /\ history \in Seq(EntrySet) /\ RewindInv'
  BY EntriesTyped, StepKeeps DEF RewindInv
<1>2. CASE history' = history  BY <1>2
<1>3. CASE Enters /\ history' # history
  <2>1. /\ history' = Append(history, Entry(flow))
        /\ Left("restarts") /\ flow.current \notin entered
    BY <1>3 DEF Enters, SnapshotEntry
  <2> DEFINE e == Entry(flow)  h == history'
  <2>2. h[Len(h)] = e /\ Len(h) \in 1..Len(h) /\ h \in Seq(EntrySet')
    BY <1>1, <2>1 DEF RewindInv
  <2>3. e \in EntrySet' /\ h = Append(history, e)  BY <2>1, <2>2
  <2> HIDE DEF e
  <2>4. /\ Len(h) = Len(history) + 1 /\ h[Len(h)] = e
        /\ \A j \in 1..Len(history) : h[j] = history[j]  BY ONLY <1>1, <2>3
  <2>5. i \in 1..Len(history) \/ i = Len(h)  BY <1>1, <2>4
  <2>6. QED  BY <1>3, <2>1, <2>4, <2>5 DEF e
<1>4. ASSUME NEW j \in 1..Len(history), NEW r \in BOOLEAN, NEW u \in BOOLEAN, Restart(j, r, u)
      PROVE  i \in 1..Len(history) /\ history'[i] = history[i]
  <2>1. history' = SubSeq(history, 1, j - 1) \/ history' = << >>  BY <1>4, RestartDoes
  <2>2. CASE history' = SubSeq(history, 1, j - 1)
    BY ONLY <1>1, <2>2, j \in 1..Len(history), i \in 1..Len(history')
  <2>3. CASE history' = << >>  BY <2>3
  <2>4. QED  BY <2>1, <2>2, <2>3
<1>5. CASE Adds \/ Revises \/ LeavesHistory \/ UNCHANGED rvars
  BY <1>2, <1>5 DEF Adds, Revises, LeavesHistory, rewindVars, rvars
<1>6. QED  BY <1>2, <1>3, <1>4, <1>5 DEF RewindNext

LEMMA StepReviewed ==
  ASSUME Standard, SequenceInv, ReviewInv, [RewindNext]_rvars
  PROVE  ReviewInv'
<1> SUFFICES ASSUME Ordered'
             PROVE  /\ ReviewOf(flow, clean)'
                    /\ \A i \in 1..Len(history') : ReviewOf(history[i].flow, history[i].clean)'
  BY DEF ReviewInv
<1>1. /\ setup' = setup /\ RewindInv /\ ReviewOf(flow, clean)
      /\ \A i \in 1..Len(history) : ReviewOf(history[i].flow, history[i].clean)
  BY OrderedBefore DEF SequenceInv, ReviewInv
<1>2. ReviewOf(flow', clean')  BY StepKeepsReview
<1>3. ASSUME NEW i \in 1..Len(history')
      PROVE  ReviewOf(history'[i].flow, history'[i].clean)
  <2>1. CASE i \in 1..Len(history) /\ history'[i] = history[i]  BY <1>1, <2>1
  <2>2. CASE history'[i] = Entry(flow)
    <3>1. Entry(flow).flow = flow /\ Entry(flow).clean = clean  BY DEF Entry
    <3>2. QED  BY <1>1, <2>2, <3>1
  <2>3. QED  BY <1>1, <2>1, <2>2, EntriesAfter
<1>4. QED  BY <1>1, <1>2, <1>3, ReviewStays

LEMMA InitReviewed ==
  ASSUME Standard, RewindInit
  PROVE  ReviewInv
<1>1. setup \in Setups /\ history = << >>  BY DEF RewindInit, Init
<1>2. /\ flow.index = 1 /\ flow.current = Base[1] /\ flow.status = "running"
      /\ flow.active = NoRound  BY DEF RewindInit, Init
<1>3. ~(1 > ReviewSlot) /\ Base[1] # "SELF_CHECK"  BY <1>1, BaseFacts
<1>4. ReviewOf(flow, clean)  BY <1>2, <1>3 DEF ReviewOf, PastReview
<1>5. QED  BY <1>1, <1>4 DEF ReviewInv

\* A flow that completes has had Passes clean SELF_CHECK passes in a row, each
\* over the whole implementation, since its last change to the code or to the
\* description, wherever it was restarted from, unless a restart took code that
\* had changed past the review (ensure_rewindable, rewind.py:568).
THEOREM CompletionReviewed == RewindSpec => [](Standard => ReviewedUnlessBehind)
<1> DEFINE Inv == RewindInv /\ (Standard => SequenceInv /\ ReviewInv)
<1>1. RewindInit => Inv  BY InitPlaces, InitReviewed, InitStands
<1>2. Inv /\ [RewindNext]_rvars => Inv'
  <2> SUFFICES ASSUME Inv, [RewindNext]_rvars PROVE Inv'  OBVIOUS
  <2>1. RewindInv' /\ setup' = setup  BY StepKeeps, SetupKept
  <2>2. Standard' => Standard  BY <2>1 DEF Standard, Base, ConfirmRulings, Skippable
  <2>3. QED  BY <2>1, <2>2, StepPlaces, StepReviewed
<1>3. Inv => (Standard => ReviewedUnlessBehind)
  BY DEF ReviewInv, Ordered, ReviewOf, ReviewedUnlessBehind, CompletedReviewed
<1>4. QED  BY <1>1, <1>2, <1>3, PTL DEF RewindSpec
-----------------------------------------------------------------------------
(* The gate behind the review.                                              *)

LEMMA EnteredInRound ==
  ASSUME NEW g, NEW f, NEW i, EnteredSelfCheck(g, f, i)
  PROVE  AnsweredInRound(g) /\ ~PastReview(g)
<1>1. g.current = "SELF_CHECK" /\ g.active \in Round  BY DEF EnteredSelfCheck
<1>2. QED  BY <1>1, NoRoundIsNone DEF AnsweredInRound, PastReview

LEMMA ToNewStepGate ==
  ASSUME Standard, Standing, Placed(flow), ReviewOf(flow, clean), AnsweredInRound(flow),
         ToNewStep, spent'["tears"] = 0
  PROVE  AnsweredInRound(flow') /\ (PastReview(flow') => Fresh(flow'))
<1>1. flow \in FlowSet /\ setup \in Setups  BY StandingFlow DEF Standing
<1>2. ASSUME flow'.current \in Dynamic
      PROVE  AnsweredInRound(flow') /\ ~PastReview(flow')
  BY <1>2 DEF AnsweredInRound, PastReview, Dynamic
<1>3. CASE LoopToAdjudicate
  <2> DEFINE f == ToAdjudicate(Marked)
  <2>1. Saved(f, flow.steps)  BY <1>3, LoopToAdjudicateDoes
  <2>2. PICK at \in 1..Len(flow.selected) : AtInserted(f, Marked, at, "ADJUDICATE", Ruling(Marked))
    BY <1>3, LoopToAdjudicateDoes
  <2> HIDE DEF f
  <2>3. f.current = "ADJUDICATE"  BY <2>2 DEF AtInserted
  <2>4. QED  BY <1>2, <2>1, <2>3, SavedWhole DEF Dynamic
<1>4. CASE RescueToAdjudicate
  <2>1. RescueDue  BY <1>4, RescueToAdjudicateDoes
  <2>2. QED  BY <2>1, NothingUnflushed DEF RescueDue, Leaving
<1>5. CASE ConfirmRuling
  <2> DEFINE f == ToConfirm
  <2>1. Saved(f, flow.steps)  BY <1>5, ConfirmRulingDoes
  <2>2. PICK g : /\ AtInserted(g, flow, flow.index + 1, "CONFIRM", NewStep)
                 /\ f.current = g.current  BY <1>5, ConfirmRulingDoes
  <2> HIDE DEF f
  <2>3. f.current = "CONFIRM"  BY <2>2 DEF AtInserted
  <2>4. QED  BY <1>2, <2>1, <2>3, SavedWhole DEF Dynamic
<1>6. ASSUME NEW a \in BOOLEAN,
             LandRuling(a) \/ Reflow(a) \/ RepeatPass(a) \/ CloseWithFullRound(a)
      PROVE  \E g, f, i : EnteredSelfCheck(g, f, i) /\ Saved(g, flow.steps)
  BY <1>6, LandRulingDoes, ReflowDoes, RepeatPassDoes, CloseDoes
<1>7. ASSUME NEW a \in BOOLEAN, RescuePass(a)
      PROVE  AnsweredInRound(flow') /\ ~PastReview(flow')
  <2>1. Unflushed /\ flow.current = "SELF_CHECK" /\ Cur.status = "completed"
    BY <1>7, RescuePassDoes
  <2>2. QED  BY <2>1, NothingUnflushed
<1>8. ASSUME NEW a \in BOOLEAN, Advance(a)
      PROVE  AnsweredInRound(flow') /\ (PastReview(flow') => Fresh(flow'))
  <2> DEFINE i == flow.index + 1  t == flow.selected[i]
             f == IF t = "SELF_CHECK" THEN EnterSelfCheck(Departed, i, a) ELSE Entered(t)
  <2>1. /\ Onward /\ Cur.status = "completed" /\ flow.status = "running"
        /\ f.index = i /\ f.current = t /\ Saved(f, flow.steps)
        /\ t = "SELF_CHECK" => EnteredSelfCheck(f, Departed, i)
        /\ t # "SELF_CHECK" => f.forced = flow.forced /\ f.steps[t] = NewStep
    BY <1>8, AdvanceDoes
  <2>2. flow' = f  BY <2>1, SavedWhole
  <2>3. flow.index \in Nat /\ ReviewSlot \in Nat  BY <1>1, BaseFacts DEF FlowSet
  <2>4. flow.index >= ReviewSlot => ~flow.forced
    <3>1. CASE flow.current = "SELF_CHECK"
      <4>1. RoundHolds(flow, clean) /\ Cur = flow.steps["SELF_CHECK"]
        BY <2>1, <3>1, NothingUnflushed
      <4>2. QED  BY <2>1, <3>1, <4>1 DEF RoundHolds, AnsweredInRound
    <3>2. CASE flow.current # "SELF_CHECK"  BY <2>1, <3>2, OnwardReview
    <3>3. QED  BY <3>1, <3>2
  <2> HIDE DEF f, t
  <2>5. CASE t = "SELF_CHECK"  BY <2>1, <2>2, <2>5, EnteredInRound
  <2>6. CASE t # "SELF_CHECK"
    <3>1. NewStep.status = "pending"  BY DEF NewStep
    <3>2. AnsweredInRound(flow')  BY <2>1, <2>2, <2>6 DEF AnsweredInRound
    <3>3. PastReview(flow') => flow.index >= ReviewSlot  BY <2>1, <2>2, <2>3 DEF PastReview
    <3>4. QED  BY <2>1, <2>2, <2>4, <2>6, <3>1, <3>2, <3>3 DEF Fresh
  <2>7. QED  BY <2>5, <2>6
<1>9. ASSUME NEW a \in BOOLEAN,
             LandRuling(a) \/ Reflow(a) \/ RepeatPass(a) \/ CloseWithFullRound(a)
      PROVE  AnsweredInRound(flow') /\ ~PastReview(flow')
  <2>1. PICK g, f, i : EnteredSelfCheck(g, f, i) /\ Saved(g, flow.steps)  BY <1>6, <1>9
  <2>2. flow' = g  BY <2>1, SavedWhole
  <2>3. QED  BY <2>1, <2>2, EnteredInRound
<1>10. QED  BY <1>3, <1>4, <1>5, <1>7, <1>8, <1>9 DEF ToNewStep

LEMMA StaysPast ==
  ASSUME Stays
  PROVE  PastReview(flow') => PastReview(flow) /\ flow'.current = flow.current /\ Cur.status # "pending"
BY DEF Stays, PastReview

LEMMA ToKnownStepGate ==
  ASSUME Standard, Standing, Placed(flow), Placed(flow'), ReviewOf(flow, clean), ToKnownStep,
         spent'["tears"] = 0
  PROVE  /\ AnsweredInRound(flow')
         /\ PastReview(flow') =>
              PastReview(flow) /\ flow'.current = flow.current /\ Cur.status # "pending"
<1>1. flow \in FlowSet /\ setup \in Setups  BY StandingFlow DEF Standing
<1>2. ASSUME flow'.current = "IMPLEMENT", flow'.status # "completed"
      PROVE  AnsweredInRound(flow') /\ ~PastReview(flow')
  BY <1>1, <1>2, FixBeforeReview DEF AnsweredInRound
<1>3. ASSUME NEW f, NEW g, NEW bodies, AtFix(f, g), g.status = "running", Saved(f, bodies)
      PROVE  AnsweredInRound(flow') /\ ~PastReview(flow')
  <2>1. flow' = f  BY <1>3, SavedWhole
  <2>2. f.current = "IMPLEMENT" /\ f.status = "running"  BY <1>3 DEF AtFix
  <2>3. QED  BY <1>2, <2>1, <2>2
<1>4. CASE ContinueImplement
  <2>1. /\ flow.status = "running" /\ flow.current = "IMPLEMENT" /\ SameButSteps(Continued, flow)
        /\ Saved(Continued, Counted.steps)  BY <1>4, ContinueDoes
  <2>2. flow' = Continued  BY <2>1, SavedWhole
  <2>3. flow'.current = "IMPLEMENT" /\ flow'.status = "running"
    BY <2>1, <2>2 DEF SameButSteps, SamePlace
  <2>4. QED  BY <1>2, <2>3
<1>5. CASE FixesExhausted
  <2>1. Cur.status = "revision" /\ StepAndStatus(flow', flow, Cur, "failed")
    BY <1>1, <1>5, FixesExhaustedDoes
  <2>2. Stays /\ AnsweredInRound(flow')
    BY <2>1 DEF StepAndStatus, Stays, AnsweredInRound, Cur
  <2>3. QED  BY <2>2, StaysPast
<1>6. CASE Complete
  <2>1. /\ Onward /\ flow.status = "running" /\ Cur.status = "completed"
        /\ flow.index >= Len(flow.selected) /\ Saved(Ended, flow.steps)
        /\ Ended.current = flow.current  BY <1>6, CompleteDoes
  <2>2. /\ AtSlot(flow) /\ flow.selected = Base  BY <2>1, OnwardReview
  <2>3. /\ flow.index \in Nat /\ ReviewSlot \in Nat /\ ReviewSlot < Len(Base)
        /\ Len(Base) \in Nat  BY <1>1, BaseFacts DEF FlowSet
  <2>4. flow.current # "SELF_CHECK"
    <3>1. flow.current = "SELF_CHECK" => flow.index = ReviewSlot  BY <2>1, ReviewPlace
    <3>2. QED  BY <2>1, <2>2, <2>3, <3>1
  <2>5. PastReview(flow)  BY <2>1, <2>2, <2>3, <2>4 DEF PastReview, AtSlot
  <2>6. flow'.current = flow.current  BY <2>1, SavedWhole
  <2>7. QED  BY <2>1, <2>4, <2>5, <2>6 DEF AnsweredInRound
<1>7. ASSUME NEW a \in BOOLEAN, LoopToFix(a) PROVE AnsweredInRound(flow') /\ ~PastReview(flow')
  <2>1. /\ flow.status = "running"
        /\ AtFix(ToFix(Marked, a), Marked) /\ Saved(ToFix(Marked, a), flow.steps)
    BY <1>7, LoopToFixDoes
  <2>2. Marked.status = "running"  BY <2>1, MarkedValues DEF SamePlace
  <2>3. QED  BY <1>3, <2>1, <2>2
<1>8. ASSUME NEW a \in BOOLEAN, PassThroughRuling(a)
      PROVE  AnsweredInRound(flow') /\ ~PastReview(flow')
  <2>1. /\ flow.status = "running"
        /\ AtFix(ToFix(Unspliced, a), Unspliced) /\ Saved(ToFix(Unspliced, a), flow.steps)
    BY <1>8, PassThroughRulingDoes
  <2>2. Unspliced.status = "running"  BY <2>1, UnsplicedValues
  <2>3. QED  BY <1>3, <2>1, <2>2
<1>9. ASSUME NEW a \in BOOLEAN, ToRevision(a) PROVE AnsweredInRound(flow') /\ ~PastReview(flow')
  <2> DEFINE f == Returned(a)
  <2>1. /\ flow.status = "running" /\ flow.current = "CONFIRM" /\ Saved(f, flow.steps)
        /\ f.current = flow.reviews  BY <1>9, ToRevisionDoes
  <2> HIDE DEF f
  <2>2. flow.reviews = "ADJUDICATE"  BY <2>1, PlaceIs DEF InRuling, Dynamic
  <2>3. QED  BY <2>1, <2>2, SavedWhole DEF AnsweredInRound, PastReview, Dynamic
<1>10. ASSUME NEW a \in BOOLEAN, RescueToFix(a) PROVE FALSE
  <2>1. RescueDue  BY <1>10, RescueToFixDoes
  <2>2. QED  BY <2>1, NothingUnflushed DEF RescueDue, Leaving
<1>11. QED  BY <1>4, <1>5, <1>6, <1>7, <1>8, <1>9, <1>10 DEF ToKnownStep

\* A handler, and an operator who revises no finished step, leave the flow where it is.
LEMMA HandlersGate ==
  ASSUME Standing, AnsweredInRound(flow), AnswerHolds(flow) \/ flow.current # "SELF_CHECK",
         Handlers
  PROVE  AnsweredInRound(flow') /\ Stays
<1>1. flow \in FlowSet /\ flow.current \in Types /\ Cur \in Step  BY StandingFlow
<1>2. ASSUME NEW s, NEW x \in {"running", "failed"},
             StepTo(flow', flow, s) \/ StepAndStatus(flow', flow, s, x),
             Cur.status # "pending", flow.current # "SELF_CHECK" \/ s.status # "completed"
      PROVE  AnsweredInRound(flow') /\ Stays
  <2>1. /\ flow'.current = flow.current /\ flow'.index = flow.index
        /\ flow'.steps[flow.current] = s
    BY <1>2 DEF StepTo, StepAndStatus, SameButSteps, SamePlace
  <2>2. QED  BY <1>2, <2>1 DEF Stays, AnsweredInRound
<1>3. CASE FinishPlain  BY <1>1, <1>2, <1>3, FinishPlainDoes DEF FinishPlain, Running
<1>4. CASE Fail
  <2> DEFINE s == [Cur EXCEPT !.status = "failed"]
  <2>1. Cur.status = "running" /\ StepTo(flow', flow, s)  BY <1>1, <1>4, FailDoes
  <2>2. s.status = "failed"  BY <1>1 DEF Step
  <2> HIDE DEF s
  <2>3. QED  BY <1>2, <2>1, <2>2
<1>5. CASE Resume
  <2> DEFINE s == [Cur EXCEPT !.status = "pending", !.retries = 0]
  <2>1. StepAndStatus(flow', flow, s, "running") /\ Cur.status \in {"running", "failed"}
    BY <1>1, <1>5, ResumeDoes DEF Resume, Running
  <2>2. s.status = "pending"  BY <1>1 DEF Step
  <2> HIDE DEF s
  <2>3. QED  BY <1>2, <2>1, <2>2
<1>6. ASSUME NEW s \in Status, FinishImplement(s) \/ FinishGate(s)
      PROVE  AnsweredInRound(flow') /\ Stays
  <2>1. Cur.status = "running"  BY <1>6 DEF FinishImplement, FinishGate, Running
  <2>2. QED  BY <1>1, <1>2, <1>6, <2>1, FinishImplementDoes, FinishGateDoes DEF Gates
<1>7. ASSUME NEW found \in SUBSET Findings, NEW severe \in BOOLEAN,
             FinishSelfCheck(found, severe)
      PROVE  AnsweredInRound(flow') /\ Stays
  <2>1. /\ flow.current = "SELF_CHECK" /\ Cur.status = "running"
        /\ StepTo(flow', flow, PassAnswer(found, severe))
    BY <1>1, <1>7, FinishSelfCheckDoes
  <2>2. flow.active # NoRound  BY <1>7, <2>1 DEF AnswerHolds, Cur
  <2>3. flow'.active = flow.active /\ flow'.current = flow.current /\ flow'.index = flow.index
    BY <2>1 DEF StepTo, SameButSteps, SamePlace, SameReview, SameRound
  <2>4. QED  BY <2>1, <2>2, <2>3 DEF Stays, AnsweredInRound
<1>8. ASSUME NEW v \in {"noop", "description", "plan"}, FinishAdjudicate(v)
      PROVE  AnsweredInRound(flow') /\ Stays
  BY <1>1, <1>8, FinishAdjudicateDoes DEF SamePlace, Stays, AnsweredInRound
<1>9. ASSUME NEW v \in {"approved", "rejected"}, FinishConfirm(v)
      PROVE  AnsweredInRound(flow') /\ Stays
  BY <1>1, <1>2, <1>9, FinishConfirmDoes DEF FinishConfirm, Running
<1>10. QED  BY <1>3, <1>4, <1>5, <1>6, <1>7, <1>8, <1>9 DEF Handlers

LEMMA OperatorGate ==
  ASSUME Standing, AnsweredInRound(flow), "SELF_CHECK" \notin Skippable, ~ReviseDone, Operator
  PROVE  AnsweredInRound(flow') /\ Stays
<1>1. flow \in FlowSet /\ flow.current \in Types /\ Cur \in Step  BY StandingFlow
<1>2. ASSUME NEW s, StepTo(flow', flow, s) \/ StepAndStatus(flow', flow, s, "failed"),
             Cur.status # "pending", flow.current # "SELF_CHECK" \/ s.status # "completed"
      PROVE  AnsweredInRound(flow') /\ Stays
  <2>1. /\ flow'.current = flow.current /\ flow'.index = flow.index
        /\ flow'.steps[flow.current] = s
    BY <1>2 DEF StepTo, StepAndStatus, SameButSteps, SamePlace
  <2>2. QED  BY <1>2, <2>1 DEF Stays, AnsweredInRound
<1>3. CASE Retry
  <2> DEFINE s == [Cur EXCEPT !.status = "pending", !.retries = @ + 1]
  <2>1. Cur.status = "failed" /\ StepTo(flow', flow, s)  BY <1>1, <1>3, RetryDoes
  <2>2. s.status = "pending"  BY <1>1 DEF Step
  <2> HIDE DEF s
  <2>3. QED  BY <1>2, <2>1, <2>2
<1>4. CASE Skip
  <2>1. /\ Cur.status = "failed" /\ flow.current # "SELF_CHECK"
        /\ StepTo(flow', flow, [Cur EXCEPT !.status = "completed", !.skipped = TRUE])
    BY <1>1, <1>4, SkipDoes
  <2>2. QED  BY <1>2, <2>1
<1>5. CASE GiveUp  BY <1>1, <1>2, <1>5, GiveUpDoes
<1>6. CASE Revise
  <2> DEFINE s == [Cur EXCEPT !.status = IF @ = "running" THEN "pending" ELSE @]
  <2>1. /\ SamePlace(flow', flow) /\ flow'.steps[flow.current] = s
        /\ Cur.status \in {"running", "failed"}  BY <1>1, <1>6, ReviseDoes DEF Revise
  <2>2. s.status \in {"pending", "failed"}  BY <1>1, <2>1 DEF Step
  <2> HIDE DEF s
  <2>3. QED  BY <2>1, <2>2 DEF SamePlace, Stays, AnsweredInRound
<1>7. QED  BY <1>3, <1>4, <1>5, <1>6 DEF Operator

LEMMA BeginGate ==
  ASSUME Standing, Begin
  PROVE  AnsweredInRound(flow') /\ flow'.current = flow.current
<1>1. flow \in FlowSet /\ Cur \in Step /\ Grounded(flow, code)  BY StandingFlow
<1>2. CASE Start
  BY <1>1, <1>2, StartDoes DEF StepTo, SameButSteps, SamePlace, AnsweredInRound
<1>3. ASSUME NEW u \in BOOLEAN, StartSelfCheck(u)
      PROVE  AnsweredInRound(flow') /\ flow'.current = flow.current
  <2> DEFINE h == PrepareScope(Refreshed, u)
             s == [Cur EXCEPT !.status = "running", !.pass = h.active.pass,
                              !.flushTried = h.active.flushTried]
  <2>1. flow.current = "SELF_CHECK" /\ InRound(h, Refreshed) /\ StepTo(flow', h, s)
    BY <1>1, <1>3, StartSelfCheckDoes
  <2>2. Refreshed.current = flow.current  BY <1>1, ForceFullValues DEF Refreshed, SamePlace
  <2> HIDE DEF h, s
  <2>3. h.current = flow.current /\ h.active \in Round  BY <2>1, <2>2 DEF InRound, SamePlace
  <2>4. flow'.current = h.current /\ flow'.active = h.active
    BY <2>1 DEF StepTo, SameButSteps, SamePlace, SameReview, SameRound
  <2>5. QED  BY <2>3, <2>4, NoRoundIsNone DEF AnsweredInRound
<1>4. QED  BY <1>2, <1>3 DEF Begin

\* A restart finds the step behind the review as it was when it began.
LEMMA RestartGate ==
  ASSUME Standard, SequenceInv, NEW i \in 1..Len(history), NEW r \in BOOLEAN, NEW u \in BOOLEAN,
         Restart(i, r, u), PastReview(history[i].flow) => ~history[i].flow.forced
  PROVE  AnsweredInRound(flow') /\ (PastReview(flow') => Fresh(flow'))
<1> DEFINE e == history[i]  b == e.flow  g == Restored(i, LayersThen(r), NewestThen(r))
<1>1. /\ FlowOK(g, code) /\ SamePlace(g, b) /\ SameRound(g, b)
      /\ flow' = Rebuilt(g, u) /\ b.status = "running"
  BY RestartDoes, Zenon DEF SequenceInv, RewindInv, RestartedFlow, EntryOK
<1> HIDE DEF e, g
<1>2. /\ g.status = "running" /\ g.current = b.current /\ g.index = b.index
      /\ g.forced = b.forced  BY <1>1 DEF SamePlace, SameRound
<1>3. /\ flow'.index = b.index /\ flow'.current = b.current
      /\ b.current = "SELF_CHECK" => EnteredSelfCheck(flow', g, g.index)
      /\ b.current # "SELF_CHECK" =>
           flow'.forced = g.forced /\ flow'.steps[flow'.current] = Anew
  BY <1>1, <1>2, RebuiltValues DEF SameReview, SameRound
<1>4. CASE b.current = "SELF_CHECK"  BY <1>3, <1>4, EnteredInRound
<1>5. CASE b.current # "SELF_CHECK"
  <2>1. Anew.status = "pending"  BY DEF Anew, NewStep
  <2>2. PastReview(flow') => ~b.forced  BY <1>3 DEF PastReview, e
  <2>3. QED  BY <1>2, <1>3, <1>5, <2>1, <2>2 DEF Fresh, AnsweredInRound
<1>6. QED  BY <1>4, <1>5

LEMMA CutStays ==
  ASSUME flow \in FlowSet, NEW f \in FlowSet, NEW bodies \in [Types -> Step], Saved(f, bodies),
         flow.status = "running", spent' # spent
  PROVE  SamePlace(flow', flow) /\ flow'.status = "running"
<1>1. flow' = Torn(f, bodies)  BY DEF Saved
<1>2. SamePlace(flow', flow)  BY <1>1, TornValues DEF AtTorn
<1>3. QED  BY <1>2 DEF SamePlace

\* A save that is cut leaves the flow where it was.
LEMMA TransitionCut ==
  ASSUME Standing, ToNewStep \/ ToKnownStep, spent' # spent
  PROVE  SamePlace(flow', flow) /\ flow'.status = "running"
<1>1. flow \in FlowSet /\ flow.steps \in [Types -> Step]  BY StandingFlow
<1>2. Rescued \in FlowSet /\ Rescued.steps \in [Types -> Step]
  BY <1>1, RescuedValues DEF FlowSet
<1>3. ASSUME NEW f, NEW bodies, FlowOK(f, code), bodies \in [Types -> Step], Saved(f, bodies),
             flow.status = "running"
      PROVE  SamePlace(flow', flow) /\ flow'.status = "running"
  BY <1>1, <1>3, CutStays DEF FlowOK
<1>4. CASE LoopToAdjudicate  BY <1>1, <1>3, <1>4, LoopToAdjudicateDoes
<1>5. CASE ConfirmRuling  BY <1>1, <1>3, <1>5, ConfirmRulingDoes
<1>6. CASE RescueToAdjudicate
  BY <1>2, <1>3, <1>6, RescueToAdjudicateDoes DEF RescueDue, Leaving
<1>7. ASSUME NEW a \in BOOLEAN, LandRuling(a)
      PROVE  SamePlace(flow', flow) /\ flow'.status = "running"
  BY <1>1, <1>3, <1>7, LandRulingDoes DEF RulingStands, Leaving
<1>8. ASSUME NEW a \in BOOLEAN, Reflow(a)
      PROVE  SamePlace(flow', flow) /\ flow'.status = "running"
  BY <1>1, <1>3, <1>8, ReflowDoes
<1>9. ASSUME NEW a \in BOOLEAN, RepeatPass(a)
      PROVE  SamePlace(flow', flow) /\ flow'.status = "running"
  BY <1>1, <1>3, <1>9, RepeatPassDoes
<1>10. ASSUME NEW a \in BOOLEAN, RescuePass(a)
       PROVE  SamePlace(flow', flow) /\ flow'.status = "running"
  BY <1>1, <1>3, <1>10, RescuePassDoes
<1>11. ASSUME NEW a \in BOOLEAN, CloseWithFullRound(a)
       PROVE  SamePlace(flow', flow) /\ flow'.status = "running"
  BY <1>1, <1>3, <1>11, CloseDoes
<1>12. ASSUME NEW a \in BOOLEAN, Advance(a)
       PROVE  SamePlace(flow', flow) /\ flow'.status = "running"
  BY <1>1, <1>3, <1>12, AdvanceDoes
<1>13. CASE ContinueImplement  BY <1>3, <1>13, ContinueDoes
<1>14. CASE FixesExhausted  BY <1>14 DEF FixesExhausted
<1>15. CASE Complete  BY <1>1, <1>3, <1>15, CompleteDoes
<1>16. ASSUME NEW a \in BOOLEAN, LoopToFix(a)
       PROVE  SamePlace(flow', flow) /\ flow'.status = "running"
  BY <1>1, <1>3, <1>16, LoopToFixDoes
<1>17. ASSUME NEW a \in BOOLEAN, PassThroughRuling(a)
       PROVE  SamePlace(flow', flow) /\ flow'.status = "running"
  BY <1>1, <1>3, <1>17, PassThroughRulingDoes
<1>18. ASSUME NEW a \in BOOLEAN, ToRevision(a)
       PROVE  SamePlace(flow', flow) /\ flow'.status = "running"
  BY <1>1, <1>3, <1>18, ToRevisionDoes
<1>19. ASSUME NEW a \in BOOLEAN, RescueToFix(a)
       PROVE  SamePlace(flow', flow) /\ flow'.status = "running"
  BY <1>2, <1>3, <1>19, RescueToFixDoes DEF RescueDue, Leaving
<1>20. CASE ToNewStep
  BY <1>4, <1>5, <1>6, <1>7, <1>8, <1>9, <1>10, <1>11, <1>12, <1>20 DEF ToNewStep
<1>21. CASE ToKnownStep
  BY <1>13, <1>14, <1>15, <1>16, <1>17, <1>18, <1>19, <1>21 DEF ToKnownStep
<1>22. QED  BY <1>20, <1>21

\* Only a transition can be cut.
LEMMA OnlyTransitionsCut ==
  ASSUME RewindInv, [RewindNext]_rvars, spent'["tears"] # spent["tears"]
  PROVE  SamePlace(flow', flow) /\ flow'.status = "running"
<1>1. Standing /\ spent \in [Event -> Nat]  BY DEF RewindInv, Standing
<1>2. ASSUME NEW e \in Event, e # "tears", Spent(e) \/ spent' = spent
      PROVE  FALSE  BY <1>1, <1>2, SpentTyped DEF Event
<1>3. /\ "failures" \in Event /\ "resumes" \in Event /\ "revisions" \in Event
      /\ "rejections" \in Event /\ "tears" \in Event  BY DEF Event
<1>4. ASSUME Handlers PROVE FALSE  BY <1>2, <1>3, <1>4
  DEF Handlers, FinishPlain, Fail, Resume, FinishImplement, FinishGate, FinishSelfCheck,
      FinishAdjudicate, FinishConfirm, Spend, Spent
<1>5. ASSUME Operator PROVE FALSE
  BY <1>2, <1>3, <1>5 DEF Operator, Retry, Skip, GiveUp, Revise, Spend, Spent
<1>6. ASSUME Begin PROVE FALSE  BY <1>2, <1>3, <1>6 DEF Begin, Start, StartSelfCheck
<1>7. ASSUME Stopped \/ UNCHANGED rvars PROVE FALSE  BY <1>7 DEF Stopped, rvars, vars
<1>8. CASE ToNewStep \/ ToKnownStep  BY <1>1, <1>8, TransitionCut
<1>9. ASSUME NEW i \in 1..Len(history), NEW r \in BOOLEAN, NEW u \in BOOLEAN, Restart(i, r, u)
      PROVE  FALSE
  <2>1. spent' = [spent EXCEPT !.restarts = @ + 1, !.revisions = IF r THEN @ + 1 ELSE @]
    BY <1>9, RestartDoes
  <2>2. spent'["tears"] = spent["tears"]  BY <1>1, <2>1
  <2>3. QED  BY <2>2
<1>10. QED  BY <1>4, <1>5, <1>6, <1>7, <1>8, <1>9
  DEF RewindNext, Enters, Adds, Revises, LeavesHistory, Operator

LEMMA StepsOnGate ==
  ASSUME Standard, SequenceInv, ReviewInv, GateInv, Placed(flow'), ~ReviseDone, StepsOn,
         [RewindNext]_rvars, Ordered'
  PROVE  /\ AnsweredInRound(flow')
         /\ \/ UNCHANGED <<flow, entered>>
            \/ PastReview(flow') =>
                 PastReview(flow) /\ flow'.current = flow.current /\ Cur.status # "pending"
<1>1. /\ Standing /\ Placed(flow) /\ Orderly /\ Ordered /\ spent'["tears"] = 0
      /\ ReviewOf(flow, clean) /\ AnsweredInRound(flow) /\ RewindInv
  BY OrderedBefore, Zenon DEF SequenceInv, RewindInv, ReviewInv, GateInv
<1>2. AnswerHolds(flow) \/ flow.current # "SELF_CHECK"  BY <1>1 DEF ReviewOf
<1>3. CASE Handlers  BY <1>1, <1>2, <1>3, HandlersGate, StaysPast
<1>4. CASE Operator  BY <1>1, <1>4, OperatorGate, StaysPast DEF Orderly
<1>5. CASE ToKnownStep  BY <1>1, <1>5, ToKnownStepGate
<1>6. CASE LeavesHistory /\ Stopped
  BY <1>1, <1>6 DEF LeavesHistory, Stopped, vars, rewindVars
<1>7. CASE UNCHANGED rvars  BY <1>1, <1>7 DEF rvars, vars, rewindVars
<1>8. QED  BY <1>3, <1>4, <1>5, <1>6, <1>7 DEF StepsOn, LeavesHistory, Revises, Operator

\* What a step that leads elsewhere finds behind the review.
LEMMA StepsOffGate ==
  ASSUME Standard, SequenceInv, ReviewInv, GateInv, ~ReviseDone, Ordered', [RewindNext]_rvars,
         Adds \/ \E i \in 1..Len(history), r \in BOOLEAN, u \in BOOLEAN : Restart(i, r, u)
  PROVE  AnsweredInRound(flow') /\ (PastReview(flow') => Fresh(flow'))
<1>1. /\ Standing /\ Placed(flow) /\ Orderly /\ Ordered /\ spent'["tears"] = 0
      /\ ReviewOf(flow, clean) /\ AnsweredInRound(flow)
      /\ \A i \in 1..Len(history) : PastReview(history[i].flow) => ~history[i].flow.forced
  BY OrderedBefore, Zenon DEF SequenceInv, RewindInv, ReviewInv, GateInv
<1>2. CASE Adds  BY <1>1, <1>2, ToNewStepGate DEF Adds
<1>3. ASSUME NEW i \in 1..Len(history), NEW r \in BOOLEAN, NEW u \in BOOLEAN, Restart(i, r, u)
      PROVE  AnsweredInRound(flow') /\ (PastReview(flow') => Fresh(flow'))
  BY <1>1, <1>3, RestartGate
<1>4. QED  BY <1>2, <1>3

LEMMA GateStays ==
  ASSUME setup' = setup
  PROVE  /\ AnsweredInRound(flow') => AnsweredInRound(flow)'
         /\ Fresh(flow') => Fresh(flow)'
         /\ PastReview(flow)' => PastReview(flow')
         /\ \A i : PastReview(history[i].flow)' => PastReview(history'[i].flow)
         /\ ReviseDone' = ReviseDone
<1>1. ReviewSlot' = ReviewSlot
  <2>1. Base' = Base  BY DEF Base
  <2> DEFINE f == [selected |-> Base]
  <2>2. f' = f  BY <2>1
  <2>3. IndexOf(f', "SELF_CHECK") = IndexOf(f, "SELF_CHECK")  BY ONLY <2>2
  <2>4. ReviewSlot' = IndexOf(f', "SELF_CHECK") /\ ReviewSlot = IndexOf(f, "SELF_CHECK")
    BY DEF ReviewSlot, IndexOf, SelectInSeq
  <2>5. QED  BY <2>3, <2>4
<1>2. QED  BY <1>1, Zenon DEF AnsweredInRound, Fresh, PastReview, ReviseDone

\* What holds of the flow and its snapshots after a step, in the terms of before.
LEMMA PlaceBack ==
  ASSUME setup' = setup, Standard, SequenceInv'
  PROVE  Placed(flow')
<1>1. Base' = Base /\ ConfirmRulings' = ConfirmRulings /\ ReviewSlot' = ReviewSlot
  <2>1. Base' = Base /\ ConfirmRulings' = ConfirmRulings  BY DEF Base, ConfirmRulings
  <2> DEFINE f == [selected |-> Base]
  <2>2. f' = f  BY <2>1
  <2>3. IndexOf(f', "SELF_CHECK") = IndexOf(f, "SELF_CHECK")  BY ONLY <2>2
  <2>4. ReviewSlot' = IndexOf(f', "SELF_CHECK") /\ ReviewSlot = IndexOf(f, "SELF_CHECK")
    BY DEF ReviewSlot, IndexOf, SelectInSeq
  <2>5. QED  BY <2>1, <2>3, <2>4
<1>2. Placed(flow)'  BY DEF SequenceInv
<1>3. QED  BY <1>1, <1>2, Zenon DEF Placed, AtSlot, InRuling, Spliced

LEMMA RestartsSpent ==
  ASSUME RewindInv, [RewindNext]_rvars
  PROVE  Left("restarts")' => Left("restarts")
<1>1. Standing  BY DEF RewindInv
<1>2. CASE Enters  BY <1>1, <1>2, BeginProgress, ProgressStands DEF Enters
<1>3. CASE Adds \/ Revises
  BY <1>1, <1>3, ToNewStepProgress, OperatorProgress, ProgressStands DEF Adds, Revises, Operator
<1>4. CASE LeavesHistory
  BY <1>1, <1>4, HandlersProgress, OperatorProgress, ToKnownStepProgress, StoppedProgress,
     ProgressStands
  DEF LeavesHistory, Operator, Stopped
<1>5. CASE UNCHANGED rvars  BY <1>5 DEF rvars, vars, Left
<1>6. ASSUME NEW i \in 1..Len(history), NEW r \in BOOLEAN, NEW u \in BOOLEAN, Restart(i, r, u)
      PROVE  Left("restarts")' => Left("restarts")
  BY <1>1, <1>6, RestartKeeps, ProgressStands
<1>7. QED  BY <1>2, <1>3, <1>4, <1>5, <1>6 DEF RewindNext

LEMMA StepGated ==
  ASSUME Standard, SequenceInv, SequenceInv', ReviewInv, GateInv, [RewindNext]_rvars
  PROVE  GateInv'
<1>1. SUFFICES ASSUME Ordered', ~ReviseDone'
               PROVE  /\ AnsweredInRound(flow)'
                      /\ Left("restarts")' /\ PastReview(flow)' /\ flow'.current \notin entered'
                           => Fresh(flow)'
                      /\ \A i \in 1..Len(history') :
                           PastReview(history[i].flow)' => ~history'[i].flow.forced
  BY DEF GateInv
<1>2. /\ setup' = setup /\ RewindInv /\ Ordered /\ Standing
  BY <1>1, OrderedBefore, Zenon DEF SequenceInv, RewindInv
<1>3. /\ ~ReviseDone /\ AnsweredInRound(flow)
      /\ Left("restarts") /\ PastReview(flow) /\ flow.current \notin entered => Fresh(flow)
      /\ \A i \in 1..Len(history) : PastReview(history[i].flow) => ~history[i].flow.forced
  <2>1. ~ReviseDone  BY <1>1, <1>2, GateStays
  <2>2. QED  BY <1>2, <2>1 DEF GateInv
<1>4. Placed(flow')  BY <1>2, PlaceBack
<1>5. AnsweredInRound(flow')
      /\ (Left("restarts")' /\ PastReview(flow') /\ flow'.current \notin entered' => Fresh(flow'))
  <2>1. CASE Enters
    <3>1. AnsweredInRound(flow') /\ flow'.current = flow.current
      BY <1>2, <2>1, BeginGate DEF Enters
    <3>2. Left("restarts")' => flow.current \in entered'
      BY <1>2, <2>1, RestartsSpent DEF Enters, SnapshotEntry
    <3>3. QED  BY <3>1, <3>2
  <2>2. CASE StepsOn
    <3>1. AnsweredInRound(flow')  BY <1>1, <1>3, <1>4, <2>2, StepsOnGate
    <3>2. entered' = entered  BY <2>2 DEF StepsOn, LeavesHistory, Revises, rvars, rewindVars
    <3>3. SUFFICES ASSUME Left("restarts")', PastReview(flow'), flow'.current \notin entered'
                   PROVE  Fresh(flow')  BY <3>1
    <3>4. Left("restarts")  BY <1>2, <3>3, RestartsSpent
    <3>5. CASE flow' = flow  BY <1>3, <3>2, <3>3, <3>4, <3>5
    <3>6. CASE PastReview(flow) /\ flow'.current = flow.current /\ Cur.status # "pending"
      <4>1. Fresh(flow)  BY <1>3, <3>2, <3>3, <3>4, <3>6
      <4>2. QED  BY <3>6, <4>1 DEF Fresh, Cur
    <3>7. QED  BY <1>1, <1>3, <1>4, <2>2, <3>3, <3>5, <3>6, StepsOnGate
  <2>3. CASE Adds \/ \E i \in 1..Len(history), r \in BOOLEAN, u \in BOOLEAN : Restart(i, r, u)
    BY <1>1, <1>3, <2>3, StepsOffGate
  <2>4. QED  BY <2>1, <2>2, <2>3 DEF RewindNext, StepsOn
<1>6. ASSUME NEW i \in 1..Len(history'), PastReview(history'[i].flow)
      PROVE  ~history'[i].flow.forced
  <2>1. CASE i \in 1..Len(history) /\ history'[i] = history[i]  BY <1>3, <1>6, <2>1
  <2>2. CASE /\ history'[i] = Entry(flow)
             /\ Left("restarts") /\ flow.current \notin entered
    <3>1. Entry(flow).flow = flow  BY DEF Entry
    <3>2. Fresh(flow)  BY <1>3, <1>6, <2>2, <3>1
    <3>3. QED  BY <2>2, <3>1, <3>2 DEF Fresh
  <2>3. QED  BY <1>2, <2>1, <2>2, EntriesAfter
<1>7. QED  BY <1>2, <1>5, <1>6, GateStays

LEMMA InitGated ==
  ASSUME Standard, RewindInit
  PROVE  GateInv
<1>1. setup \in Setups /\ history = << >> /\ flow.index = 1 /\ flow.current = Base[1]
  BY DEF RewindInit, Init
<1>2. ReviewSlot \in 1..Len(Base) /\ Base[1] # "SELF_CHECK" /\ Len(Base) \in Nat
  <2>1. /\ ReviewSlot \in 1..Len(Base) /\ Base[ReviewSlot] = "SELF_CHECK" /\ Len(Base) \in Nat
        /\ \A i \in 1..Len(Base) : Base[i] = "SELF_CHECK" => i = ReviewSlot
        /\ \A i \in 1..Len(Base) : Base[i] = "IMPLEMENT" => i < ReviewSlot
        /\ \E i \in 1..Len(Base) : Base[i] = "IMPLEMENT"  BY <1>1, BaseFacts
  <2>2. ReviewSlot > 1  BY <2>1
  <2>3. QED  BY <2>1, <2>2
<1>3. AnsweredInRound(flow) /\ ~PastReview(flow)
  BY <1>1, <1>2 DEF AnsweredInRound, PastReview
<1>4. QED  BY <1>1, <1>3 DEF GateInv

\* In a ruling the slot of SELF_CHECK is ahead, at the review it is the flow's own.
LEMMA GateAhead ==
  ASSUME Standard, setup \in Setups, NEW f, Placed(f), f.status # "completed",
         f.index > IndexOf(f, "SELF_CHECK")
  PROVE  PastReview(f)
<1>1. /\ Len(Base) \in Nat /\ ReviewSlot \in 1..Len(Base) /\ Base[ReviewSlot] = "SELF_CHECK"
      /\ \A i \in 1..Len(Base) : Base[i] = "SELF_CHECK" => i = ReviewSlot  BY BaseFacts
<1>2. CASE AtSlot(f)
  <2>1. IndexOf(f, "SELF_CHECK") = ReviewSlot  BY <1>2 DEF AtSlot, IndexOf, ReviewSlot
  <2>2. f.index \in 1..Len(Base) /\ Base[f.index] = f.current /\ f.current \notin Dynamic
    BY <1>2 DEF AtSlot
  <2>3. f.current # "SELF_CHECK"  BY <1>1, <2>1, <2>2
  <2>4. QED  BY <2>1, <2>2, <2>3 DEF PastReview
<1>3. CASE InRuling(f)
  <2> DEFINE i == IndexOf(f, "SELF_CHECK")  q == f.selected
  <2>1. PICK k \in Nat : Spliced(q, k) /\ (f.current = "CONFIRM" => k > 0)
    BY <1>3 DEF InRuling
  <2>2. /\ f.index = IF f.current = "CONFIRM" THEN ReviewSlot + 1 ELSE ReviewSlot
    BY <1>3 DEF InRuling
  <2>3. /\ Len(q) = Len(Base) + 1 + k
        /\ \A j \in 1..Len(q) :
             q[j] = IF j < ReviewSlot THEN Base[j]
                    ELSE IF j = ReviewSlot THEN "ADJUDICATE"
                    ELSE IF j <= ReviewSlot + k THEN "CONFIRM"
                    ELSE Base[j - k - 1]  BY <2>1 DEF Spliced
  <2>4. ReviewSlot + k + 1 \in 1..Len(q) /\ q[ReviewSlot + k + 1] = "SELF_CHECK"
    <3> DEFINE m == ReviewSlot + k + 1
    <3>1. /\ m \in 1..Len(q) /\ ~(m < ReviewSlot) /\ m # ReviewSlot /\ ~(m <= ReviewSlot + k)
          /\ m - k - 1 = ReviewSlot  BY <1>1, <2>3
    <3> HIDE DEF m, q
    <3>2. q[m] = Base[m - k - 1]  BY <2>3, <3>1
    <3>3. QED  BY <1>1, <3>1, <3>2 DEF m
  <2>5. Len(q) \in Nat  BY <1>1, <2>3
  <2>6. i \in 1..Len(q) /\ q[i] = "SELF_CHECK"
    <3>1. /\ i \in 0..Len(q) /\ (i > 0 => q[i] = "SELF_CHECK")
          /\ \A j \in 1..Len(q) : q[j] = "SELF_CHECK" => i > 0  BY <2>5, Places
    <3> HIDE DEF i, q
    <3>2. QED  BY <2>4, <3>1
  <2> HIDE DEF i, q
  <2>7. i > ReviewSlot + k  BY <1>1, <2>3, <2>6
  <2>8. i >= f.index
    <3>1. ReviewSlot \in Nat /\ i \in Nat  BY <1>1, <2>5, <2>6
    <3>2. f.index = ReviewSlot \/ (f.index = ReviewSlot + 1 /\ k > 0)  BY <2>1, <2>2
    <3>3. QED  BY ONLY <2>7, <3>1, <3>2, k \in Nat
  <2>9. QED  BY <1>1, <2>1, <2>2, <2>6, <2>8 DEF i
<1>4. QED  BY <1>2, <1>3 DEF Placed

\* Whatever leads from SELF_CHECK to behind its slot finds the passes made.
LEMMA GateStep ==
  ASSUME Standard, SequenceInv, SequenceInv', ReviewInv, GateInv, ~ReviseDone,
         [RewindNext]_rvars, Orderly, ~behind', flow.current = "SELF_CHECK",
         flow'.index > IndexOf(flow', "SELF_CHECK")
  PROVE  clean' >= Passes
<1>1. RewindInv /\ setup' = setup /\ setup \in Setups
  BY SetupKept DEF SequenceInv, RewindInv, Standing
<1>2. Placed(flow')  BY <1>1, PlaceBack
<1>3. CASE spent'["tears"] # 0
  <2>1. flow'.current = "SELF_CHECK" /\ flow'.status = "running"
    BY <1>1, <1>3, OnlyTransitionsCut DEF Orderly, SamePlace
  <2>2. PastReview(flow')  BY <1>1, <1>2, <2>1, GateAhead
  <2>3. QED  BY <2>1, <2>2 DEF PastReview
<1>4. CASE spent'["tears"] = 0
  <2>1. Ordered'  BY <1>1, <1>4 DEF Ordered, Orderly, Skippable
  <2>2. ReviewOf(flow', clean')  BY <2>1, StepKeepsReview
  <2>3. CASE flow'.status = "completed"  BY <2>2, <2>3 DEF ReviewOf
  <2>4. CASE flow'.status # "completed"
    <3>1. PastReview(flow') /\ ~PastReview(flow)
      BY <1>1, <1>2, <2>4, GateAhead DEF PastReview
    <3>2. flow' # flow  BY <3>1
    <3>3. CASE StepsOn  BY <1>2, <2>1, <3>1, <3>2, <3>3, StepsOnGate
    <3>4. CASE Enters  BY <1>1, <3>1, <3>4, BeginGate DEF Enters, RewindInv, PastReview
    <3>5. CASE Adds \/ \E i \in 1..Len(history), r \in BOOLEAN, u \in BOOLEAN : Restart(i, r, u)
      <4>1. ~flow'.forced  BY <2>1, <3>1, <3>5, StepsOffGate DEF Fresh
      <4>2. QED  BY <2>2, <3>1, <4>1 DEF ReviewOf
    <3>6. QED  BY <3>3, <3>4, <3>5 DEF RewindNext, StepsOn
  <2>5. QED  BY <2>3, <2>4
<1>5. QED  BY <1>3, <1>4

\* Whatever leads from SELF_CHECK to a step behind its slot, a restart too, finds
\* the clean passes made over this code and this description, in a flow without
\* configured confirmation steps whose finished steps are not revised.
THEOREM GateKept == RewindSpec /\ [](Standard /\ ~ReviseDone) => GateUnlessBehind
<1> DEFINE Inv == RewindInv /\ (Standard => SequenceInv /\ ReviewInv /\ GateInv)
           A == (/\ Orderly /\ ~behind' /\ flow.current = "SELF_CHECK"
                 /\ flow'.index > IndexOf(flow', "SELF_CHECK"))
                => clean' >= Passes
<1>1. RewindInit => Inv  BY InitPlaces, InitReviewed, InitGated, InitStands
<1>2. Inv /\ [RewindNext]_rvars => Inv'
  <2> SUFFICES ASSUME Inv, [RewindNext]_rvars PROVE Inv'  OBVIOUS
  <2>1. RewindInv' /\ setup' = setup  BY StepKeeps, SetupKept
  <2>2. Standard' => Standard  BY <2>1 DEF Standard, Base, ConfirmRulings, Skippable
  <2>3. QED  BY <2>1, <2>2, StepPlaces, StepReviewed, StepGated
<1>3. Inv /\ Standard /\ ~ReviseDone /\ [RewindNext]_rvars => [A]_rvars
  <2> SUFFICES ASSUME Inv, Standard, ~ReviseDone, [RewindNext]_rvars PROVE A  OBVIOUS
  <2>1. QED  BY GateStep, StepPlaces
<1>4. QED  BY <1>1, <1>2, <1>3, PTL DEF RewindSpec, GateUnlessBehind
-----------------------------------------------------------------------------
(* Where findings wait.                                                     *)

LEMMA FindingsElsewhere ==
  ASSUME NEW g, NEW o, g.current \notin Dynamic \cup {"SELF_CHECK"}, o = {}
  PROVE  FindingsAt(g, o)
BY DEF FindingsAt, Ruled

\* Nothing that holds findings changes.
LEMMA HoldsKept ==
  ASSUME FindingsAt(flow, open), NEW g, g.current = flow.current, flow.current # "SELF_CHECK",
         \A t \in {"ADJUDICATE", "SELF_CHECK"} : g.steps[t].issues = flow.steps[t].issues
  PROVE  FindingsAt(g, open)
BY DEF FindingsAt, Ruled

\* A step is asked, answered or armed again, away from the review.
LEMMA StepFindings ==
  ASSUME FindingsAt(flow, open), flow.current \in Types, NEW g, g.current = flow.current,
         flow.current # "SELF_CHECK", g.steps[flow.current].issues = Cur.issues,
         \A u \in Types \ {flow.current} : g.steps[u] = flow.steps[u]
  PROVE  FindingsAt(g, open)
<1>1. {"ADJUDICATE", "SELF_CHECK"} \subseteq Types  BY DEF Types, Dynamic
<1>2. \A t \in {"ADJUDICATE", "SELF_CHECK"} : g.steps[t].issues = flow.steps[t].issues
  BY <1>1 DEF Cur
<1>3. QED  BY <1>2, HoldsKept

\* The review is asked again or cut short.
LEMMA PassFindings ==
  ASSUME FindingsAt(flow, open), flow.current = "SELF_CHECK", NEW g, g.current = "SELF_CHECK",
         g.stash = flow.stash,
         LET s == g.steps["SELF_CHECK"] IN
           /\ s.stash = Cur.stash /\ s.skipped = Cur.skipped
           /\ s.status \in {"pending", "failed"}
           /\ Cur.status \notin {"completed", "revision"}
  PROVE  FindingsAt(g, open)
<1>1. PassHolds(flow, open) /\ Cur = flow.steps["SELF_CHECK"]  BY DEF FindingsAt, Cur
<1>2. PassHolds(g, open)  BY <1>1 DEF PassHolds, HeldBy
<1>3. QED  BY <1>2 DEF FindingsAt, Ruled, Dynamic

\* A pass keeps what it finds, and what was deferred to it.
LEMMA AnsweredFindings ==
  ASSUME Standing, FindingsAt(flow, open), NEW found \in SUBSET Findings,
         NEW severe \in BOOLEAN, FinishSelfCheck(found, severe)
  PROVE  FindingsAt(flow', open')
<1> DEFINE s == PassAnswer(found, severe)  all == Cur.stash \cup found
<1>1. flow \in FlowSet /\ Cur \in Step /\ setup.passes \in Nat
  BY StandingFlow, EngineAssumption DEF Standing
<1>2. /\ flow.current = "SELF_CHECK" /\ Cur.status = "running" /\ StepTo(flow', flow, s)
      /\ open' = open \cup found  BY <1>1, FinishSelfCheckDoes DEF FinishSelfCheck
<1>3. PassHolds(flow, open) /\ Cur = flow.steps["SELF_CHECK"]  BY <1>2 DEF FindingsAt, Cur
<1>4. /\ open \subseteq Cur.stash /\ flow.stash \subseteq Cur.stash /\ ~Cur.skipped
      /\ flow.active # NoRound /\ flow.active.layer = flow.layer
  BY <1>2, <1>3 DEF PassHolds, HeldBy
<1>5. /\ s.pass = Cur.pass /\ s.skipped = Cur.skipped
      /\ \/ /\ s.status = "completed" /\ s.deferred = all /\ (s.wrote <=> all # {})
            /\ PassDefers(found, severe) \/ NothingLeft(found)
         \/ s.status = "revision" /\ s.issues = all
  BY <1>1 DEF PassAnswer, Step
<1>6. s.status = "completed" /\ s.pass >= Passes => all = {}
  <2> SUFFICES ASSUME s.status = "completed", s.pass >= Passes PROVE all = {}  OBVIOUS
  <2>1. Cur.pass \in Nat  BY <1>1 DEF Step
  <2>2. ~PassDefers(found, severe)  BY <1>1, <1>5, <2>1 DEF PassDefers, Passes
  <2>3. NothingLeft(found)  BY <1>5, <2>2
  <2>4. QED  BY <1>5, <2>3 DEF NothingLeft
<1> HIDE DEF s
<1>7. /\ flow'.current = "SELF_CHECK" /\ flow'.active = flow.active
      /\ flow'.layer = flow.layer /\ flow'.stash = flow.stash /\ flow'.steps["SELF_CHECK"] = s
  BY <1>2 DEF StepTo, SameButSteps, SamePlace, SameReview, SameRound, SameLayers
<1>8. open' \subseteq all /\ flow'.stash \subseteq all  BY <1>2, <1>4, <1>7
<1>9. HeldBy(s) = all  BY <1>5 DEF HeldBy
<1> HIDE DEF all
<1>10. PassHolds(flow', open')  BY <1>4, <1>5, <1>6, <1>7, <1>8, <1>9 DEF PassHolds
<1>11. QED  BY <1>7, <1>10 DEF FindingsAt, Ruled, Dynamic

LEMMA HandlersFindings ==
  ASSUME Standing, FindingsAt(flow, open), Handlers
  PROVE  FindingsAt(flow', open')
<1>1. flow \in FlowSet /\ flow.current \in Types /\ Cur \in Step  BY StandingFlow
<1>2. ASSUME NEW s, NEW x,
             StepTo(flow', flow, s) \/ StepAndStatus(flow', flow, s, x),
             open' = open, s.issues = Cur.issues, flow.current # "SELF_CHECK"
      PROVE  FindingsAt(flow', open')
  <2>1. /\ flow'.current = flow.current /\ flow'.steps[flow.current] = s
        /\ \A u \in Types \ {flow.current} : flow'.steps[u] = flow.steps[u]
    BY <1>2 DEF StepTo, StepAndStatus, SameButSteps, SamePlace
  <2>2. QED  BY <1>1, <1>2, <2>1, StepFindings
<1>3. ASSUME NEW s, NEW x,
             StepTo(flow', flow, s) \/ StepAndStatus(flow', flow, s, x),
             open' = open, flow.current = "SELF_CHECK", s.stash = Cur.stash,
             s.skipped = Cur.skipped,
             s.status \in {"pending", "failed"}, Cur.status \notin {"completed", "revision"}
      PROVE  FindingsAt(flow', open')
  <2>1. /\ flow'.stash = flow.stash /\ flow'.current = flow.current
        /\ flow'.steps["SELF_CHECK"] = s
    BY <1>3 DEF StepTo, StepAndStatus, SameButSteps, SamePlace, SameReview
  <2>2. QED  BY <1>3, <2>1, PassFindings
<1>4. CASE FinishPlain
  <2> DEFINE s == [Cur EXCEPT !.status = "completed"]
  <2>1. open' = open /\ flow.current # "SELF_CHECK" /\ StepTo(flow', flow, s)
    BY <1>1, <1>4, FinishPlainDoes DEF FinishPlain
  <2>2. s.issues = Cur.issues  BY <1>1 DEF Step
  <2>3. QED  BY <1>2, <2>1, <2>2
<1>5. CASE Fail
  <2> DEFINE s == [Cur EXCEPT !.status = "failed"]
  <2>1. open' = open /\ Cur.status = "running" /\ StepTo(flow', flow, s)
    BY <1>1, <1>5, FailDoes DEF Fail
  <2>2. /\ s.status = "failed" /\ s.stash = Cur.stash /\ s.issues = Cur.issues
        /\ s.skipped = Cur.skipped  BY <1>1 DEF Step
  <2> HIDE DEF s
  <2>3. QED  BY <1>2, <1>3, <2>1, <2>2
<1>6. CASE Resume
  <2> DEFINE s == [Cur EXCEPT !.status = "pending", !.retries = 0]
  <2>1. open' = open /\ StepAndStatus(flow', flow, s, "running")
        /\ Cur.status \in {"running", "failed"}
    BY <1>1, <1>6, ResumeDoes DEF Resume, Running
  <2>2. /\ s.status = "pending" /\ s.stash = Cur.stash /\ s.issues = Cur.issues
        /\ s.skipped = Cur.skipped  BY <1>1 DEF Step
  <2> HIDE DEF s
  <2>3. QED  BY <1>2, <1>3, <2>1, <2>2
<1>7. ASSUME NEW x \in Status, FinishImplement(x) \/ FinishGate(x)
      PROVE  FindingsAt(flow', open')
  <2> DEFINE s == [Cur EXCEPT !.status = x]
  <2>1. open' = open /\ flow.current # "SELF_CHECK" /\ StepTo(flow', flow, s)
    BY <1>1, <1>7, FinishImplementDoes, FinishGateDoes DEF FinishImplement, FinishGate, Gates
  <2>2. s.issues = Cur.issues  BY <1>1 DEF Step
  <2> HIDE DEF s
  <2>3. QED  BY <1>2, <2>1, <2>2
<1>8. ASSUME NEW v \in {"noop", "description", "plan"}, FinishAdjudicate(v)
      PROVE  FindingsAt(flow', open')
  <2> DEFINE s == [Cur EXCEPT !.status = "completed", !.verdict = v]
  <2>1. /\ flow.current = "ADJUDICATE" /\ SamePlace(flow', flow) /\ open' = open
        /\ flow'.steps["ADJUDICATE"] = s
        /\ \A u \in Types \ {"ADJUDICATE"} : flow'.steps[u] = flow.steps[u]
    BY <1>1, <1>8, FinishAdjudicateDoes DEF FinishAdjudicate
  <2>2. s.issues = Cur.issues  BY <1>1 DEF Step
  <2> HIDE DEF s
  <2>3. QED  BY <1>1, <2>1, <2>2, StepFindings DEF SamePlace
<1>9. ASSUME NEW v \in {"approved", "rejected"}, FinishConfirm(v)
      PROVE  FindingsAt(flow', open')
  <2> DEFINE s == [Cur EXCEPT !.verdict = v,
                     !.status = IF v = "approved" THEN "completed" ELSE "revision"]
  <2>1. open' = open /\ flow.current # "SELF_CHECK" /\ StepTo(flow', flow, s)
    BY <1>1, <1>9, FinishConfirmDoes DEF FinishConfirm
  <2>2. s.issues = Cur.issues  BY <1>1 DEF Step
  <2> HIDE DEF s
  <2>3. QED  BY <1>2, <2>1, <2>2
<1>10. QED  BY <1>4, <1>5, <1>6, <1>7, <1>8, <1>9, AnsweredFindings DEF Handlers

LEMMA OperatorFindings ==
  ASSUME Standing, ~ReviseDone, "SELF_CHECK" \notin Skippable, FindingsAt(flow, open), Operator
  PROVE  FindingsAt(flow', open')
<1>1. flow \in FlowSet /\ flow.current \in Types /\ Cur \in Step  BY StandingFlow
<1>2. CASE Retry
  <2> DEFINE s == [Cur EXCEPT !.status = "pending", !.retries = @ + 1]
  <2>1. Cur.status = "failed" /\ StepTo(flow', flow, s) /\ open' = open
    BY <1>1, <1>2, RetryDoes DEF Retry
  <2>2. /\ s.status = "pending" /\ s.stash = Cur.stash /\ s.issues = Cur.issues
        /\ s.skipped = Cur.skipped  BY <1>1 DEF Step
  <2> HIDE DEF s
  <2>3. /\ flow'.stash = flow.stash /\ flow'.current = flow.current
        /\ flow'.steps[flow.current] = s
        /\ \A u \in Types \ {flow.current} : flow'.steps[u] = flow.steps[u]
    BY <2>1 DEF StepTo, SameButSteps, SamePlace, SameReview
  <2>4. QED  BY <1>1, <2>1, <2>2, <2>3, PassFindings, StepFindings
<1>3. CASE Skip
  <2> DEFINE s == [Cur EXCEPT !.status = "completed", !.skipped = TRUE]
  <2>1. flow.current \in Skippable /\ StepTo(flow', flow, s) /\ open' = open
    BY <1>1, <1>3, SkipDoes DEF Skip
  <2>2. s.issues = Cur.issues  BY <1>1 DEF Step
  <2> HIDE DEF s
  <2>3. /\ flow'.current = flow.current /\ flow'.steps[flow.current] = s
        /\ \A u \in Types \ {flow.current} : flow'.steps[u] = flow.steps[u]
    BY <2>1 DEF StepTo, SameButSteps, SamePlace
  <2>4. QED  BY <1>1, <2>1, <2>2, <2>3, StepFindings
<1>4. CASE GiveUp
  <2>1. /\ Cur.status = "failed" /\ StepAndStatus(flow', flow, Cur, "failed") /\ open' = open
    BY <1>1, <1>4, GiveUpDoes DEF GiveUp
  <2>2. /\ flow'.stash = flow.stash /\ flow'.current = flow.current
        /\ flow'.steps[flow.current] = Cur
        /\ \A u \in Types \ {flow.current} : flow'.steps[u] = flow.steps[u]
    BY <2>1 DEF StepAndStatus, SameReview
  <2>3. QED  BY <1>1, <2>1, <2>2, PassFindings, StepFindings
<1>5. CASE Revise
  <2> DEFINE s == [Cur EXCEPT !.status = IF @ = "running" THEN "pending" ELSE @]
  <2>1. /\ SamePlace(flow', flow) /\ flow'.stash = flow.stash
        /\ flow'.steps[flow.current] = s
        /\ \A u \in Types \ {flow.current} : flow'.steps[u] = flow.steps[u]
    BY <1>1, <1>5, ReviseDoes
  <2>2. open' = open /\ Cur.status \in {"running", "failed"}  BY <1>5 DEF Revise
  <2>3. /\ s.status = IF Cur.status = "running" THEN "pending" ELSE Cur.status
        /\ s.stash = Cur.stash /\ s.issues = Cur.issues /\ s.skipped = Cur.skipped
    BY <1>1 DEF Step
  <2> HIDE DEF s
  <2>4. flow'.current = flow.current  BY <2>1 DEF SamePlace
  <2>5. QED  BY <1>1, <2>1, <2>2, <2>3, <2>4, PassFindings, StepFindings
<1>6. QED  BY <1>2, <1>3, <1>4, <1>5 DEF Operator

LEMMA BeginFindings ==
  ASSUME Standing, FindingsAt(flow, open), Begin
  PROVE  FindingsAt(flow', open')
<1>1. flow \in FlowSet /\ flow.current \in Types /\ Cur \in Step /\ Grounded(flow, code)
  BY StandingFlow
<1>2. CASE Start
  <2> DEFINE s == [Cur EXCEPT !.status = "running"]
  <2>1. flow.current # "SELF_CHECK" /\ StepTo(flow', flow, s) /\ open' = open
    BY <1>1, <1>2, StartDoes DEF Start
  <2>2. s.issues = Cur.issues  BY <1>1 DEF Step
  <2> HIDE DEF s
  <2>3. /\ flow'.current = flow.current /\ flow'.steps[flow.current] = s
        /\ \A u \in Types \ {flow.current} : flow'.steps[u] = flow.steps[u]
    BY <2>1 DEF StepTo, SameButSteps, SamePlace
  <2>4. QED  BY <1>1, <2>1, <2>2, <2>3, StepFindings
<1>3. ASSUME NEW u \in BOOLEAN, StartSelfCheck(u) PROVE FindingsAt(flow', open')
  <2> DEFINE h == PrepareScope(Refreshed, u)
             s == [Cur EXCEPT !.status = "running", !.pass = h.active.pass,
                              !.flushTried = h.active.flushTried]
  <2>1. /\ flow.current = "SELF_CHECK" /\ Cur.status = "pending"
        /\ InRound(h, Refreshed) /\ StepTo(flow', h, s) /\ open' = open
    BY <1>1, <1>3, StartSelfCheckDoes DEF StartSelfCheck
  <2>2. s.status = "running" /\ s.stash = Cur.stash /\ s.skipped = Cur.skipped
    BY <1>1 DEF Step
  <2>3. Refreshed.current = flow.current /\ Refreshed.stash = flow.stash
    BY <1>1, ForceFullValues DEF Refreshed, SamePlace
  <2> HIDE DEF h, s
  <2>4. /\ h.current = "SELF_CHECK" /\ h.stash = flow.stash
        /\ h.active \in Round /\ h.active.layer = h.layer
    BY <2>1, <2>3 DEF InRound, SamePlace
  <2>5. /\ flow'.current = "SELF_CHECK" /\ flow'.active = h.active
        /\ flow'.layer = h.layer /\ flow'.stash = flow.stash
        /\ flow'.steps["SELF_CHECK"] = s
    BY <2>1, <2>4 DEF StepTo, SameButSteps, SamePlace, SameReview, SameRound, SameLayers
  <2>6. PassHolds(flow, open) /\ Cur = flow.steps["SELF_CHECK"]  BY <2>1 DEF FindingsAt, Cur
  <2>7. PassHolds(flow', open')
    BY <2>1, <2>2, <2>4, <2>5, <2>6, NoRoundIsNone DEF PassHolds, HeldBy
  <2>8. QED  BY <2>5, <2>7 DEF FindingsAt, Ruled, Dynamic
<1>4. QED  BY <1>2, <1>3 DEF Begin

\* What a save leaves to wait.
LEMMA SaveHands ==
  ASSUME NEW f, NEW bodies, NEW handed, Save(f, bodies, handed)
  PROVE  \/ flow' = f /\ open' = open \ handed
         \/ flow' = Torn(f, bodies) /\ open' = open
BY DEF Save

\* A save that is cut leaves the findings where they were.
LEMMA TornFindings ==
  ASSUME Standing, FindingsAt(flow, open), NEW f \in FlowSet, flow' = Torn(f, flow.steps),
         flow.current = "SELF_CHECK" =>
           /\ Cur.status # "running" /\ f.stash \subseteq HeldBy(Cur)
           /\ Cur.status = "completed" /\ Cur.deferred # {} =>
                f.active # NoRound /\ f.active.layer = f.layer
  PROVE  FindingsAt(flow', open)
<1> DEFINE g == Torn(f, flow.steps)
           s == [Cur EXCEPT !.skipped = FALSE, !.status = IF Cur.skipped THEN "failed" ELSE @]
<1>1. flow \in FlowSet /\ flow.steps \in [Types -> Step] /\ flow.current \in Types
      /\ Cur \in Step  BY StandingFlow
<1>2. AtTorn(g, f, flow.steps)  BY <1>1, TornValues
<1>3. /\ s.issues = Cur.issues /\ s.stash = Cur.stash /\ s.deferred = Cur.deferred
      /\ s.wrote = Cur.wrote /\ s.pass = Cur.pass /\ ~s.skipped
      /\ ~Cur.skipped => s.status = Cur.status  BY <1>1 DEF Step
<1> HIDE DEF g, s
<1>4. /\ g.current = flow.current /\ g.steps[flow.current] = s
      /\ \A u \in Types \ {flow.current} : g.steps[u] = flow.steps[u]
      /\ g.stash = f.stash /\ g.active = f.active /\ g.layer = f.layer
  BY <1>2 DEF AtTorn, SamePlace, SameReview, SameRound, SameLayers, Cur, s
<1>5. FindingsAt(g, open)
  <2>1. CASE flow.current # "SELF_CHECK"  BY <1>1, <1>3, <1>4, <2>1, StepFindings
  <2>2. CASE flow.current = "SELF_CHECK"
    <3>1. PassHolds(flow, open) /\ Cur = flow.steps["SELF_CHECK"]
      BY <2>2 DEF FindingsAt, Cur
    <3>2. s.status = Cur.status /\ HeldBy(s) = HeldBy(Cur)
      BY <1>3, <3>1 DEF PassHolds, HeldBy
    <3>3. PassHolds(g, open)  BY <1>3, <1>4, <2>2, <3>1, <3>2 DEF PassHolds
    <3>4. QED  BY <1>4, <2>2, <3>3 DEF FindingsAt, Ruled, Dynamic
  <2>3. QED  BY <2>1, <2>2
<1>6. QED  BY <1>5 DEF g

\* A pass that is over without findings left holds none.
LEMMA NothingHeld ==
  ASSUME Standing, FindingsAt(flow, open), flow.current = "SELF_CHECK",
         Cur.status = "completed"
  PROVE  /\ ~Unflushed /\ Cur = flow.steps["SELF_CHECK"]
         /\ open \subseteq Cur.deferred /\ Mirrored.stash = Cur.deferred
         /\ Cur.pass >= Passes => Cur.deferred = {}
         /\ Cur.deferred # {} => flow.active # NoRound /\ flow.active.layer = flow.layer
<1>1. PassHolds(flow, open) /\ Cur = flow.steps["SELF_CHECK"]  BY DEF FindingsAt, Cur
<1>2. /\ open \subseteq Cur.deferred /\ flow.stash \subseteq Cur.deferred
      /\ Cur.wrote <=> Cur.deferred # {}  BY <1>1 DEF PassHolds, HeldBy
<1>3. Mirrored.stash = IF Cur.wrote THEN Cur.deferred ELSE flow.stash
  BY StandingFlow, MirroredValues
<1>4. Mirrored.stash = Cur.deferred  BY <1>2, <1>3
<1>5. ~Unflushed  BY <1>2, <1>4 DEF Unflushed
<1>6. QED  BY <1>1, <1>2, <1>4, <1>5 DEF PassHolds

\* A flow that enters SELF_CHECK with nothing to wait for.
LEMMA EnteredFindings ==
  ASSUME NEW f, NEW g, NEW i, EnteredSelfCheck(g, f, i), NEW o, o \subseteq g.stash
  PROVE  FindingsAt(g, o)
<1> DEFINE p == g.active.pass  q == g.active.flushTried  h == g.stash
           s == [NewStep EXCEPT !.pass = p, !.flushTried = q, !.stash = h]
<1>1. g.current = "SELF_CHECK" /\ g.steps["SELF_CHECK"] = s  BY DEF EnteredSelfCheck
<1>2. s.status = "pending" /\ s.stash = h /\ ~s.skipped  BY DEF NewStep
<1> HIDE DEF s
<1>3. PassHolds(g, o)  BY <1>1, <1>2 DEF PassHolds, HeldBy
<1>4. QED  BY <1>1, <1>3 DEF FindingsAt, Ruled, Dynamic

\* Onward with nothing left to wait for.
LEMMA OnwardFindings ==
  ASSUME Standard, Standing, Placed(flow), FindingsAt(flow, open), Onward
  PROVE  /\ AtSlot(flow) /\ open = {} /\ Cur.status = "completed"
         /\ flow.current = "SELF_CHECK" => Cur.deferred = {} /\ Departed.stash = {}
<1>1. flow \in FlowSet  BY StandingFlow
<1>2. /\ Leaving(flow.current, "completed") /\ Cur.status = "completed"
      /\ flow.current # "ADJUDICATE"
      /\ flow.current # "SELF_CHECK" => ~RulingStands  BY DEF Onward, RoundOver, Leaving
<1>3. AtSlot(flow)  BY <1>2, OnwardPlace
<1>4. ASSUME flow.current = "SELF_CHECK"
      PROVE  Cur.deferred = {} /\ open = {} /\ Departed.stash = {}
  <2>1. Cur.pass >= Passes  BY <1>4 DEF Onward, RoundOver
  <2>2. Cur.deferred = {} /\ open = {} /\ Mirrored.stash = {}
    BY <1>2, <1>4, <2>1, NothingHeld
  <2>3. QED  BY <1>1, <1>4, <2>2, DepartedValues
<1>5. ASSUME flow.current # "SELF_CHECK"
      PROVE  open = {}  BY <1>3, <1>5 DEF AtSlot, FindingsAt
<1>6. QED  BY <1>2, <1>3, <1>4, <1>5

\* Whatever a transition leads to, and whether its save is cut.
LEMMA HandedFindings ==
  ASSUME Standing, FindingsAt(flow, open), NEW f \in FlowSet, NEW handed,
         Save(f, flow.steps, handed), FindingsAt(f, open \ handed),
         flow.current = "SELF_CHECK" =>
           /\ Cur.status # "running" /\ f.stash \subseteq HeldBy(Cur)
           /\ Cur.status = "completed" /\ Cur.deferred # {} =>
                f.active # NoRound /\ f.active.layer = f.layer
  PROVE  FindingsAt(flow', open')
<1>1. CASE flow' = f /\ open' = open \ handed  BY <1>1
<1>2. CASE flow' = Torn(f, flow.steps) /\ open' = open  BY <1>2, TornFindings
<1>3. QED  BY <1>1, <1>2, SaveHands

LEMMA ToNewStepFindings ==
  ASSUME Standard, Standing, Placed(flow), FindingsAt(flow, open), ToNewStep
  PROVE  FindingsAt(flow', open')
<1>1. flow \in FlowSet /\ setup \in Setups /\ {"ADJUDICATE", "SELF_CHECK"} \subseteq Types
  BY StandingFlow DEF Standing, Types, Dynamic
<1>2. CASE LoopToAdjudicate
  <2> DEFINE f == ToAdjudicate(Marked)
  <2>1. /\ flow.current = "SELF_CHECK" /\ Cur.status = "revision" /\ f \in FlowSet
        /\ Save(f, flow.steps, {})
    BY <1>2, LoopToAdjudicateDoes DEF LoopToAdjudicate, Marked, FlowOK
  <2>2. PICK at \in 1..Len(flow.selected) : AtInserted(f, Marked, at, "ADJUDICATE", Ruling(Marked))
    BY <1>2, LoopToAdjudicateDoes
  <2> HIDE DEF f
  <2>3. Marked.steps = flow.steps /\ Marked.stash = flow.stash  BY MarkedValues
  <2>4. /\ f.current = "ADJUDICATE" /\ f.stash = flow.stash
        /\ f.steps["ADJUDICATE"] = Ruling(Marked)
        /\ f.steps["SELF_CHECK"] = flow.steps["SELF_CHECK"]
    BY <1>1, <2>2, <2>3 DEF AtInserted, SameReview, Kept, Dynamic
  <2>5. Ruling(Marked).issues = flow.steps["SELF_CHECK"].issues  BY <2>3 DEF Ruling, NewStep
  <2>6. PassHolds(flow, open) /\ Cur = flow.steps["SELF_CHECK"]  BY <2>1 DEF FindingsAt, Cur
  <2>7. open \subseteq Cur.issues /\ flow.stash \subseteq HeldBy(Cur)
    BY <2>1, <2>6 DEF PassHolds, HeldBy
  <2>8. FindingsAt(f, open)  BY <2>4, <2>5, <2>6, <2>7 DEF FindingsAt, Ruled, Dynamic
  <2>9. open \ {} = open  OBVIOUS
  <2>10. QED  BY <2>1, <2>4, <2>7, <2>8, <2>9, HandedFindings
<1>3. CASE RescueToAdjudicate
  <2>1. RescueDue  BY <1>3, RescueToAdjudicateDoes
  <2>2. QED  BY <2>1, NothingHeld DEF RescueDue, Leaving
<1>4. CASE ConfirmRuling
  <2> DEFINE f == ToConfirm
  <2>1. flow.current = "ADJUDICATE" /\ f \in FlowSet /\ Save(f, flow.steps, {})
    BY <1>4, ConfirmRulingDoes DEF ConfirmRuling, ToConfirm, FlowOK
  <2>2. PICK g : /\ AtInserted(g, flow, flow.index + 1, "CONFIRM", NewStep)
                 /\ f.current = g.current /\ f.steps = g.steps  BY <1>4, ConfirmRulingDoes
  <2> HIDE DEF f
  <2>3. /\ f.current = "CONFIRM" /\ f.steps["ADJUDICATE"] = flow.steps["ADJUDICATE"]
        /\ f.steps["SELF_CHECK"] = flow.steps["SELF_CHECK"]
    BY <1>1, <2>2 DEF AtInserted, Kept, Dynamic
  <2>4. FindingsAt(f, open)  BY <2>1, <2>3 DEF FindingsAt, Ruled, Dynamic
  <2>5. open \ {} = open  OBVIOUS
  <2>6. QED  BY <2>1, <2>4, <2>5, HandedFindings
<1>5. ASSUME NEW a \in BOOLEAN, LandRuling(a) PROVE FindingsAt(flow', open')
  <2> DEFINE i == StripAdjudicateRun(flow).selfCheck  f == EnterSelfCheck(Landed, i, a)
             h == flow.steps["ADJUDICATE"].issues
  <2>1. /\ RulingStands /\ EnteredSelfCheck(f, Landed, i) /\ f \in FlowSet
        /\ Save(f, flow.steps, h)  BY <1>5, LandRulingDoes DEF LandRuling, Landed, FlowOK
  <2>2. flow.current \in Dynamic /\ flow.current # "SELF_CHECK"
    BY <2>1 DEF RulingStands, Leaving, Dynamic
  <2>3. open \subseteq h  BY <2>2 DEF FindingsAt, Ruled
  <2> HIDE DEF f, i, h
  <2>4. FindingsAt(f, open \ h)  BY <2>1, <2>3, EnteredFindings
  <2>5. QED  BY <2>1, <2>2, <2>4, HandedFindings
<1>6. ASSUME NEW a \in BOOLEAN, Reflow(a) PROVE FindingsAt(flow', open')
  <2> DEFINE i == IndexOf(flow, "SELF_CHECK")  f == EnterSelfCheck(flow, i, a)
  <2>1. /\ flow.current \notin {"SELF_CHECK", "ADJUDICATE"}
        /\ EnteredSelfCheck(f, flow, i) /\ f \in FlowSet /\ Save(f, flow.steps, {})
    BY <1>6, ReflowDoes DEF Reflow, FlowOK
  <2>2. Leaving(flow.current, "completed") /\ ~RulingStands  BY <1>6 DEF Reflow, ReflowDue
  <2> HIDE DEF f, i
  <2>3. AtSlot(flow)  BY <2>1, <2>2, OnwardPlace
  <2>4. open = {}  BY <2>1, <2>3 DEF AtSlot, FindingsAt
  <2>5. FindingsAt(f, open \ {})  BY <2>1, <2>4, EnteredFindings
  <2>6. QED  BY <2>1, <2>5, HandedFindings
<1>7. ASSUME NEW a \in BOOLEAN, RepeatPass(a) PROVE FindingsAt(flow', open')
  <2> DEFINE m == Mirrored  h == AdvancePass(m)  f == EnterSelfCheck(h, flow.index, a)
  <2>1. /\ flow.current = "SELF_CHECK" /\ Cur.status = "completed"
        /\ EnteredSelfCheck(f, h, flow.index) /\ f \in FlowSet
        /\ Save(f, flow.steps, {})  BY <1>7, RepeatPassDoes DEF RepeatPass, FlowOK
  <2>2. /\ open \subseteq Cur.deferred /\ m.stash = Cur.deferred
        /\ Cur.deferred # {} => flow.active # NoRound /\ flow.active.layer = flow.layer
    BY <2>1, NothingHeld
  <2>3. m \in FlowSet /\ m.active = flow.active /\ m.layer = flow.layer
    <3>1. m \in FlowSet /\ SameRound(m, flow) /\ SameLayers(m, flow)
      BY <1>1, MirroredValues
    <3> HIDE DEF m
    <3>2. QED  BY <3>1 DEF SameRound, SameLayers
  <2> HIDE DEF m
  <2>4. h.stash = m.stash /\ h.layer = flow.layer
    <3>1. SameLayers(h, m) /\ h.stash = m.stash  BY <2>3, AdvancePassValues
    <3> HIDE DEF h
    <3>2. QED  BY <2>3, <3>1 DEF SameLayers
  <2>5. flow.active # NoRound =>
          /\ flow.active \in Round /\ h.active \in Round
          /\ h.active.pass = flow.active.pass + 1 /\ h.active.layer = flow.active.layer
    BY <2>3, AdvancePassValues
  <2> HIDE DEF h, f
  <2>6. /\ f.active \in Round /\ f.active.layer = f.layer
        /\ f.stash = IF f.active.pass = 1 THEN {} ELSE Cur.deferred
        /\ RoundKept(f, h) \/ RoundNew(f, h)  BY <2>1, <2>2, <2>4 DEF EnteredSelfCheck
  <2>7. Cur.deferred # {} => f.active.pass # 1
    <3> SUFFICES ASSUME Cur.deferred # {} PROVE f.active.pass # 1  OBVIOUS
    <3>1. h.active \in Round /\ h.active.layer = h.layer  BY <2>2, <2>4, <2>5
    <3>2. f.active.pass = flow.active.pass + 1
      BY <2>2, <2>5, <2>6, <3>1 DEF RoundKept, RoundNew
    <3>3. flow.active.pass \in Nat \ {0}  BY <2>2, <2>5 DEF Round
    <3>4. QED  BY <3>2, <3>3
  <2>8. f.stash = Cur.deferred  BY <2>6, <2>7
  <2>9. open \ {} \subseteq f.stash  BY <2>2, <2>8
  <2>10. FindingsAt(f, open \ {})  BY <2>1, <2>9, EnteredFindings
  <2>11. HeldBy(Cur) = Cur.deferred  BY <2>1 DEF HeldBy
  <2>12. f.active # NoRound  BY <2>6, NoRoundIsNone
  <2>13. QED  BY <2>1, <2>6, <2>8, <2>10, <2>11, <2>12, HandedFindings
<1>8. ASSUME NEW a \in BOOLEAN, RescuePass(a) PROVE FindingsAt(flow', open')
  <2>1. flow.current = "SELF_CHECK" /\ Cur.status = "completed" /\ Unflushed
    BY <1>8, RescuePassDoes
  <2>2. QED  BY <2>1, NothingHeld
<1>9. ASSUME NEW a \in BOOLEAN, CloseWithFullRound(a) PROVE FindingsAt(flow', open')
  <2> DEFINE h == CompleteClean(Mirrored)  f == EnterSelfCheck(h, flow.index, a)
  <2>1. /\ flow.current = "SELF_CHECK" /\ Cur.status = "completed" /\ Cur.pass >= Passes
        /\ EnteredSelfCheck(f, h, flow.index)
        /\ h.active = NoRound /\ f \in FlowSet /\ Save(f, flow.steps, {})
    BY <1>9, CloseDoes DEF CloseWithFullRound, RoundOver, Leaving, FlowOK
  <2> HIDE DEF f, h
  <2>2. open \subseteq Cur.deferred /\ Cur.deferred = {}  BY <2>1, NothingHeld
  <2>3. f.stash = {}  BY <2>1, NoRoundIsNone DEF EnteredSelfCheck, RoundKept, RoundNew
  <2>4. FindingsAt(f, open \ {})  BY <2>1, <2>2, EnteredFindings
  <2>5. QED  BY <2>1, <2>2, <2>3, <2>4, HandedFindings
<1>10. ASSUME NEW a \in BOOLEAN, Advance(a) PROVE FindingsAt(flow', open')
  <2> DEFINE i == flow.index + 1  t == flow.selected[i]
             f == IF t = "SELF_CHECK" THEN EnterSelfCheck(Departed, i, a) ELSE Entered(t)
  <2>1. /\ Onward /\ i \in 2..Len(flow.selected) /\ f \in FlowSet
        /\ f.current = t
        /\ t = "SELF_CHECK" => EnteredSelfCheck(f, Departed, i)
        /\ t # "SELF_CHECK" => SameReview(f, Departed)  BY <1>10, AdvanceDoes DEF FlowOK
  <2>2. Save(f, flow.steps, {})  BY <1>10 DEF Advance, Entered
  <2>3. /\ AtSlot(flow) /\ open = {} /\ Cur.status = "completed"
        /\ flow.current = "SELF_CHECK" => Cur.deferred = {} /\ Departed.stash = {}
    BY <2>1, OnwardFindings
  <2> HIDE DEF f
  <2>4. t \notin Dynamic  BY <1>1, <2>1, <2>3, BaseFacts DEF AtSlot
  <2>5. FindingsAt(f, open \ {})
    <3>1. CASE t = "SELF_CHECK"  BY <2>1, <2>3, <3>1, EnteredFindings
    <3>2. CASE t # "SELF_CHECK"  BY <2>1, <2>3, <2>4, <3>2, FindingsElsewhere
    <3>3. QED  BY <3>1, <3>2
  <2>6. flow.current = "SELF_CHECK" => f.stash = {}
    BY <2>1, <2>3 DEF EnteredSelfCheck, SameReview
  <2> HIDE DEF t
  <2>7. QED  BY <2>1, <2>2, <2>3, <2>5, <2>6, HandedFindings
<1>11. QED  BY <1>2, <1>3, <1>4, <1>5, <1>6, <1>7, <1>8, <1>9, <1>10 DEF ToNewStep

LEMMA ToKnownStepFindings ==
  ASSUME Standard, Standing, Placed(flow), FindingsAt(flow, open), ToKnownStep
  PROVE  FindingsAt(flow', open')
<1>1. flow \in FlowSet /\ setup \in Setups /\ {"ADJUDICATE", "SELF_CHECK"} \subseteq Types
  BY StandingFlow DEF Standing, Types, Dynamic
<1>2. CASE ContinueImplement
  <2>1. /\ flow.current = "IMPLEMENT" /\ open' \subseteq open
        /\ Continued \in FlowSet /\ SameButSteps(Continued, flow)
        /\ Counted.steps \in [Types -> Step] /\ Saved(Continued, Counted.steps)
    BY <1>2, ContinueDoes DEF FlowOK
  <2>2. ASSUME flow' = Continued PROVE flow'.current = flow.current
    BY <2>1, <2>2 DEF SameButSteps, SamePlace
  <2>3. ASSUME flow' = Torn(Continued, Counted.steps) PROVE flow'.current = flow.current
    <3>1. AtTorn(flow', Continued, Counted.steps)  BY <1>1, <2>1, <2>3, TornValues
    <3>2. QED  BY <3>1 DEF AtTorn, SamePlace
  <2>4. flow'.current = flow.current  BY <2>1, <2>2, <2>3 DEF Saved
  <2>5. flow.current \notin Dynamic \cup {"SELF_CHECK"}  BY <2>1 DEF Dynamic
  <2>6. open' = {}  BY <2>1, <2>5 DEF FindingsAt
  <2>7. QED  BY <2>4, <2>5, <2>6, FindingsElsewhere
<1>3. CASE FixesExhausted
  <2>1. StepAndStatus(flow', flow, Cur, "failed") /\ open' = open
    BY <1>1, <1>3, FixesExhaustedDoes DEF FixesExhausted
  <2>2. /\ flow'.current = flow.current /\ flow'.steps[flow.current] = Cur
        /\ flow'.stash = flow.stash /\ flow'.active = flow.active /\ flow'.layer = flow.layer
        /\ \A u \in Types \ {flow.current} : flow'.steps[u] = flow.steps[u]
    BY <2>1 DEF StepAndStatus, SameReview, SameRound, SameLayers
  <2>3. CASE flow.current = "SELF_CHECK"
    <3>1. PassHolds(flow, open) /\ Cur = flow.steps["SELF_CHECK"]
      BY <2>3 DEF FindingsAt, Cur
    <3>2. PassHolds(flow', open)  BY <2>2, <2>3, <3>1 DEF PassHolds
    <3>3. QED  BY <2>1, <2>2, <2>3, <3>2 DEF FindingsAt, Ruled, Dynamic
  <2>4. CASE flow.current # "SELF_CHECK"
    BY <1>1, <2>1, <2>2, <2>4, StepFindings, CurrentTyped
  <2>5. QED  BY <2>3, <2>4
<1>4. CASE Complete
  <2>1. /\ Onward /\ flow.status = "running" /\ flow.index >= Len(flow.selected)
        /\ Ended \in FlowSet /\ Ended.current = flow.current
    BY <1>4, CompleteDoes DEF FlowOK
  <2>2. Save(Ended, flow.steps, {})  BY <1>4 DEF Complete, Ended
  <2>3. AtSlot(flow) /\ open = {}  BY <2>1, OnwardFindings
  <2>4. flow.current # "SELF_CHECK" /\ flow.current \notin Dynamic
    <3>1. /\ flow.index \in 1..Len(Base) /\ Base[flow.index] = flow.current
          /\ flow.selected = Base /\ flow.current \notin Dynamic  BY <2>1, <2>3 DEF AtSlot
    <3>2. /\ Len(Base) \in Nat /\ ReviewSlot < Len(Base) /\ ReviewSlot \in Nat
          /\ Base[flow.index] = "SELF_CHECK" => flow.index = ReviewSlot
      BY <1>1, <3>1, BaseFacts
    <3>3. QED  BY <2>1, <3>1, <3>2
  <2>5. FindingsAt(Ended, open \ {})  BY <2>1, <2>3, <2>4, FindingsElsewhere
  <2>6. QED  BY <2>1, <2>2, <2>4, <2>5, HandedFindings
<1>5. ASSUME NEW a \in BOOLEAN, LoopToFix(a) PROVE FindingsAt(flow', open')
  <2> DEFINE f == ToFix(Marked, a)
  <2>1. /\ Cur.status = "revision" /\ flow.current \in Gates \cup {"SELF_CHECK"}
        /\ f \in FlowSet /\ AtFix(f, Marked)  BY <1>5, LoopToFixDoes DEF FlowOK
  <2>2. Save(f, flow.steps, Cur.issues)  BY <1>5 DEF LoopToFix, Marked
  <2>3. Marked.stash = flow.stash  BY MarkedValues
  <2> HIDE DEF f
  <2>4. f.current = "IMPLEMENT" /\ f.stash = flow.stash  BY <2>1, <2>3 DEF AtFix
  <2>5. flow.current = "SELF_CHECK" =>
          open \subseteq Cur.issues /\ flow.stash \subseteq HeldBy(Cur)
    BY <2>1 DEF FindingsAt, PassHolds, HeldBy, Cur
  <2>6. flow.current # "SELF_CHECK" => open = {}  BY <2>1 DEF FindingsAt, Gates, Dynamic
  <2>7. open \ Cur.issues = {}  BY <2>5, <2>6
  <2>8. FindingsAt(f, open \ Cur.issues)  BY <2>4, <2>7, FindingsElsewhere DEF Dynamic
  <2>9. QED  BY <2>1, <2>2, <2>4, <2>5, <2>8, HandedFindings
<1>6. ASSUME NEW a \in BOOLEAN, PassThroughRuling(a) PROVE FindingsAt(flow', open')
  <2> DEFINE f == ToFix(Unspliced, a)  h == flow.steps["SELF_CHECK"].issues
  <2>1. flow.current = "ADJUDICATE" /\ f \in FlowSet /\ AtFix(f, Unspliced)
    BY <1>6, PassThroughRulingDoes DEF FlowOK
  <2>2. Save(f, flow.steps, h)  BY <1>6 DEF PassThroughRuling, Unspliced
  <2>3. open \ h = {}  BY <2>1 DEF FindingsAt, Ruled, Dynamic
  <2> HIDE DEF f, h
  <2>4. f.current = "IMPLEMENT"  BY <2>1 DEF AtFix
  <2>5. FindingsAt(f, open \ h)  BY <2>3, <2>4, FindingsElsewhere DEF Dynamic
  <2>6. QED  BY <2>1, <2>2, <2>5, HandedFindings
<1>7. ASSUME NEW a \in BOOLEAN, ToRevision(a) PROVE FindingsAt(flow', open')
  <2> DEFINE f == Returned(a)  s == [flow.steps["ADJUDICATE"] EXCEPT !.status = "pending"]
  <2>1. /\ flow.status = "running" /\ flow.current = "CONFIRM" /\ f \in FlowSet
        /\ f.current = flow.reviews
        /\ f.steps[flow.reviews] = [flow.steps[flow.reviews] EXCEPT !.status = "pending"]
        /\ \A u \in Types \ {flow.reviews} : f.steps[u] = flow.steps[u]
    BY <1>7, ToRevisionDoes DEF FlowOK
  <2>2. Save(f, flow.steps, {})  BY <1>7 DEF ToRevision, Returned, Rejected
  <2>3. flow.reviews = "ADJUDICATE"  BY <2>1, PlaceIs DEF InRuling, Dynamic
  <2>4. s.issues = flow.steps["ADJUDICATE"].issues  BY <1>1, CurrentTyped DEF Step
  <2> HIDE DEF f, s
  <2>5. /\ f.current = "ADJUDICATE" /\ f.steps["ADJUDICATE"] = s
        /\ f.steps["SELF_CHECK"] = flow.steps["SELF_CHECK"]  BY <1>1, <2>1, <2>3 DEF s
  <2>6. FindingsAt(f, open)  BY <2>1, <2>4, <2>5 DEF FindingsAt, Ruled, Dynamic
  <2>7. open \ {} = open  OBVIOUS
  <2>8. QED  BY <2>1, <2>2, <2>6, <2>7, HandedFindings
<1>8. ASSUME NEW a \in BOOLEAN, RescueToFix(a) PROVE FindingsAt(flow', open')
  <2>1. RescueDue  BY <1>8, RescueToFixDoes
  <2>2. QED  BY <2>1, NothingHeld DEF RescueDue, Leaving
<1>9. QED  BY <1>2, <1>3, <1>4, <1>5, <1>6, <1>7, <1>8 DEF ToKnownStep

\* A restart: what the flow then held and now still waits for.
LEMMA RestartFindings ==
  ASSUME Standard, SequenceInv, NEW i \in 1..Len(history), NEW r \in BOOLEAN, NEW u \in BOOLEAN,
         Restart(i, r, u), FindingsAt(flow, open), Ruled(history[i].flow, history[i].open)
  PROVE  FindingsAt(flow', open')
<1> DEFINE e == history[i]  b == e.flow  g == Restored(i, LayersThen(r), NewestThen(r))
<1>1. /\ FlowOK(g, code) /\ g.current = b.current /\ g.steps = StepsBefore(i)
      /\ g.status = b.status /\ flow' = Rebuilt(g, u) /\ b.status = "running"
      /\ open' = open \cap e.open \cap Held(flow') /\ i \in 1..PositionOf(flow.current)
  <2>1. /\ FlowOK(g, code) /\ SamePlace(g, b) /\ g.steps = StepsBefore(i)
        /\ flow' = Rebuilt(g, u) /\ open' = open \cap e.open \cap Held(flow')
        /\ i \in 1..PositionOf(flow.current)
    BY RestartDoes, Zenon DEF SequenceInv, RewindInv, RestartedFlow
  <2>2. EntryOK(history[i], code, flow.layers)  BY DEF SequenceInv, RewindInv
  <2>3. b.status = "running"  BY <2>2 DEF EntryOK
  <2>4. QED  BY <2>1, <2>3, Zenon DEF SamePlace
<1>2. {"ADJUDICATE", "SELF_CHECK", "CONFIRM"} \subseteq Types  BY DEF Types, Dynamic
<1>3. /\ flow'.current = b.current
      /\ b.current = "SELF_CHECK" => EnteredSelfCheck(flow', g, g.index)
      /\ b.current # "SELF_CHECK" =>
           \A t \in Types \ {b.current} :
             flow'.steps[t] = IF t \in Kept(g, b.current) THEN g.steps[t] ELSE NoStep
  BY <1>1, RebuiltValues
<1>4. StepsBefore(i)["SELF_CHECK"] =
        IF PositionOf("SELF_CHECK") \in 1..(i - 1) /\ flow.steps["SELF_CHECK"] # NoStep
        THEN flow.steps["SELF_CHECK"] ELSE b.steps["SELF_CHECK"]
  BY <1>2, StepsBeforeValues DEF SequenceInv
<1>5. Placed(flow')  BY RestartPlace
<1>6. CASE b.current = "SELF_CHECK"
  <2>1. flow'.steps["SELF_CHECK"].stash = flow'.stash
    BY <1>3, <1>6 DEF EnteredSelfCheck, NewStep
  <2>2. open' \subseteq flow'.stash  BY <1>1, <1>3, <1>6, <2>1 DEF Held
  <2> HIDE DEF g
  <2>3. QED  BY <1>3, <1>6, <2>2, EnteredFindings
<1>7. CASE b.current = "CONFIRM"
  <2>1. flow'.reviews = "ADJUDICATE"
    BY <1>3, <1>5, <1>7 DEF Placed, AtSlot, InRuling, Dynamic
  <2>2. open' \subseteq flow'.steps["ADJUDICATE"].issues /\ open' \subseteq open
        /\ open' \subseteq e.open  BY <1>1, <1>3, <1>7, <2>1 DEF Held
  <2>3. flow'.steps["SELF_CHECK"] = StepsBefore(i)["SELF_CHECK"]
    BY <1>1, <1>2, <1>3, <1>7 DEF Kept, Dynamic
  <2>4. e.open \subseteq b.steps["SELF_CHECK"].issues  BY <1>7 DEF Ruled, Dynamic
  <2>5. PositionOf("SELF_CHECK") \in 1..(i - 1) => open \subseteq flow.steps["SELF_CHECK"].issues
    <3> SUFFICES ASSUME PositionOf("SELF_CHECK") \in 1..(i - 1)
                 PROVE  open \subseteq flow.steps["SELF_CHECK"].issues  OBVIOUS
    <3>1. flow.current # "SELF_CHECK"
      <4>1. PositionOf("SELF_CHECK") < i  OBVIOUS
      <4>2. QED  BY <1>1, <4>1
    <3>2. CASE flow.current \in Dynamic  BY <3>2 DEF FindingsAt, Ruled
    <3>3. CASE flow.current \notin Dynamic  BY <3>1, <3>3 DEF FindingsAt
    <3>4. QED  BY <3>2, <3>3
  <2>6. open' \subseteq flow'.steps["SELF_CHECK"].issues
    BY <1>4, <2>2, <2>3, <2>4, <2>5, Zenon
  <2>7. QED  BY <1>3, <1>7, <2>2, <2>6 DEF FindingsAt, Ruled, Dynamic
<1>8. CASE b.current \notin {"SELF_CHECK", "CONFIRM"}
  <2>1. open' = {}  BY <1>1, <1>3, <1>8 DEF Held
  <2>2. QED  BY <1>3, <1>8, <2>1 DEF FindingsAt, Ruled
<1>9. QED  BY <1>6, <1>7, <1>8

LEMMA FindingsStay ==
  ASSUME setup' = setup
  PROVE  /\ FindingsAt(flow', open') => FindingsAt(flow, open)'
         /\ \A i : Ruled(history'[i].flow, history'[i].open)
                      => Ruled(history[i].flow, history[i].open)'
<1>1. Passes' = Passes  BY DEF Passes
<1>2. FindingsAt(flow', open') => FindingsAt(flow, open)'
  BY <1>1, Zenon DEF FindingsAt, PassHolds, HeldBy, Ruled
<1>3. \A i : Ruled(history'[i].flow, history'[i].open)
               => Ruled(history[i].flow, history[i].open)'  BY Zenon DEF Ruled
<1>4. QED  BY <1>2, <1>3

\* A step loses no finding.
LEMMA StepKeepsFindings ==
  ASSUME Standard, SequenceInv, FindingsInv, ~ReviseDone, "SELF_CHECK" \notin Skippable,
         [RewindNext]_rvars
  PROVE  FindingsAt(flow', open')
<1>1. /\ Standing /\ Placed(flow) /\ FindingsAt(flow, open)
      /\ \A i \in 1..Len(history) : Ruled(history[i].flow, history[i].open)
  BY DEF SequenceInv, RewindInv, FindingsInv
<1>2. CASE Enters  BY <1>1, <1>2, BeginFindings DEF Enters
<1>3. CASE Adds  BY <1>1, <1>3, ToNewStepFindings DEF Adds
<1>4. CASE Revises  BY <1>1, <1>4, OperatorFindings DEF Revises, Operator
<1>5. CASE LeavesHistory
  <2>1. CASE Handlers  BY <1>1, <2>1, HandlersFindings
  <2>2. CASE Retry \/ Skip \/ GiveUp  BY <1>1, <2>2, OperatorFindings DEF Operator
  <2>3. CASE ToKnownStep  BY <1>1, <2>3, ToKnownStepFindings
  <2>4. CASE Stopped  BY <1>1, <2>4 DEF Stopped, vars
  <2>5. QED  BY <1>5, <2>1, <2>2, <2>3, <2>4 DEF LeavesHistory
<1>6. CASE UNCHANGED rvars  BY <1>1, <1>6 DEF rvars, vars
<1>7. ASSUME NEW i \in 1..Len(history), NEW r \in BOOLEAN, NEW u \in BOOLEAN, Restart(i, r, u)
      PROVE  FindingsAt(flow', open')  BY <1>1, <1>7, RestartFindings
<1>8. QED  BY <1>2, <1>3, <1>4, <1>5, <1>6, <1>7 DEF RewindNext

LEMMA StepFound ==
  ASSUME Standard, SequenceInv, FindingsInv, [RewindNext]_rvars
  PROVE  FindingsInv'
<1>1. setup' = setup /\ RewindInv  BY SetupKept DEF SequenceInv
<1> SUFFICES ASSUME ~ReviseDone, "SELF_CHECK" \notin Skippable
             PROVE  /\ FindingsAt(flow, open)'
                    /\ \A i \in 1..Len(history') : Ruled(history[i].flow, history[i].open)'
  BY <1>1 DEF FindingsInv, ReviseDone, Skippable
<1>2. /\ FindingsAt(flow, open)
      /\ \A i \in 1..Len(history) : Ruled(history[i].flow, history[i].open)
  BY DEF FindingsInv
<1>3. FindingsAt(flow', open')  BY StepKeepsFindings
<1>4. ASSUME NEW i \in 1..Len(history')
      PROVE  Ruled(history'[i].flow, history'[i].open)
  <2>1. CASE i \in 1..Len(history) /\ history'[i] = history[i]  BY <1>2, <2>1
  <2>2. CASE history'[i] = Entry(flow)
    <3>1. Entry(flow).flow = flow /\ Entry(flow).open = open  BY DEF Entry
    <3>2. QED  BY <1>2, <2>2, <3>1 DEF FindingsAt
  <2>3. QED  BY <1>1, <2>1, <2>2, EntriesAfter
<1>5. QED  BY <1>1, <1>3, <1>4, FindingsStay

LEMMA InitFound ==
  ASSUME Standard, RewindInit
  PROVE  FindingsInv
<1>1. setup \in Setups /\ history = << >> /\ open = {} /\ flow.current = Base[1]
  BY DEF RewindInit, Init
<1>2. Base[1] # "SELF_CHECK" /\ Base[1] \notin Dynamic  BY <1>1, BaseFacts
<1>3. QED  BY <1>1, <1>2 DEF FindingsInv, FindingsAt, Ruled

\* A pass that is held is one of the places where FindingsKept looks.
LEMMA HeldFindings ==
  ASSUME FindingsAt(flow, open)
  PROVE  FindingsKept
<1>1. CASE flow.current = "SELF_CHECK"
  <2>1. open \subseteq HeldBy(Cur)  BY <1>1 DEF FindingsAt, PassHolds, Cur
  <2>2. open \subseteq flow.stash \cup Cur.stash \cup Cur.deferred \cup Cur.issues
    BY <2>1 DEF HeldBy
  <2>3. QED  BY <1>1, <2>2 DEF FindingsKept, Dynamic
<1>2. CASE flow.current # "SELF_CHECK"  BY <1>2 DEF FindingsAt, Ruled, FindingsKept, Dynamic
<1>3. QED  BY <1>1, <1>2
-----------------------------------------------------------------------------
(* The fix budget.                                                          *)

\* What happens inside a step costs no fix.
LEMMA QuietFixes ==
  ASSUME Standing, Handlers \/ Operator \/ Begin
  PROVE  flow'.fixes = flow.fixes /\ flow'.current = flow.current
<1>1. flow \in FlowSet /\ Grounded(flow, code)  BY StandingFlow
<1>2. ASSUME NEW s, NEW x, StepTo(flow', flow, s) \/ StepAndStatus(flow', flow, s, x)
      PROVE  flow'.fixes = flow.fixes /\ flow'.current = flow.current
  BY <1>2 DEF StepTo, StepAndStatus, SameButSteps, SamePlace
<1>3. CASE FinishPlain \/ Fail \/ Resume \/ Retry \/ Skip \/ GiveUp \/ Start
  BY <1>1, <1>2, <1>3, FinishPlainDoes, FailDoes, ResumeDoes, RetryDoes, SkipDoes, GiveUpDoes,
     StartDoes, Zenon
<1>4. ASSUME NEW x \in Status, FinishImplement(x) \/ FinishGate(x)
      PROVE  flow'.fixes = flow.fixes /\ flow'.current = flow.current
  BY <1>1, <1>2, <1>4, FinishImplementDoes, FinishGateDoes, Zenon
<1>5. ASSUME NEW found \in SUBSET Findings, NEW severe \in BOOLEAN, FinishSelfCheck(found, severe)
      PROVE  flow'.fixes = flow.fixes /\ flow'.current = flow.current
  BY <1>1, <1>2, <1>5, FinishSelfCheckDoes, Zenon
<1>6. ASSUME NEW v \in {"noop", "description", "plan"}, FinishAdjudicate(v)
      PROVE  flow'.fixes = flow.fixes /\ flow'.current = flow.current
  BY <1>1, <1>6, FinishAdjudicateDoes, Zenon DEF SamePlace
<1>7. ASSUME NEW v \in {"approved", "rejected"}, FinishConfirm(v)
      PROVE  flow'.fixes = flow.fixes /\ flow'.current = flow.current
  BY <1>1, <1>2, <1>7, FinishConfirmDoes, Zenon
<1>8. CASE Revise  BY <1>1, <1>8, ReviseDoes, Zenon DEF SamePlace
<1>9. ASSUME NEW u \in BOOLEAN, StartSelfCheck(u)
      PROVE  flow'.fixes = flow.fixes /\ flow'.current = flow.current
  <2> DEFINE h == PrepareScope(Refreshed, u)
  <2>1. InRound(h, Refreshed) /\ SameButSteps(flow', h)
    BY <1>1, <1>9, StartSelfCheckDoes DEF StepTo
  <2>2. Refreshed.fixes = flow.fixes /\ Refreshed.current = flow.current
    BY <1>1, ForceFullValues DEF Refreshed, SamePlace
  <2> HIDE DEF h
  <2>3. QED  BY <2>1, <2>2 DEF InRound, SameButSteps, SamePlace
<1>10. QED  BY <1>3, <1>4, <1>5, <1>6, <1>7, <1>8, <1>9 DEF Handlers, Operator, Begin

LEMMA BudgetHeld ==
  ASSUME NEW g, NEW f, g.fixes = f.fixes, g.current = f.current \/ g.current \notin Dynamic,
         Budget(f)
  PROVE  Budget(g)
BY DEF Budget

\* A transition that takes a fix has one left.
LEMMA OneFixLeft ==
  ASSUME Standing, MaxFix > 0, Budget(flow), ~Exhausted \/ flow.current \in Dynamic
  PROVE  /\ flow.fixes \in Nat /\ MaxFix \in Nat
         /\ flow.fixes < MaxFix /\ flow.fixes + 1 <= MaxFix
<1>1. flow.fixes \in Nat /\ MaxFix \in Nat
  BY StandingFlow, EngineAssumption DEF Standing, FlowSet, MaxFix
<1>2. flow.fixes < MaxFix  BY <1>1 DEF Budget, Exhausted
<1>3. QED  BY <1>1, <1>2

LEMMA ToNewStepBudget ==
  ASSUME Standard, Standing, Placed(flow), ReviewOf(flow, clean), Budget(flow), MaxFix > 0,
         ToNewStep, spent'["tears"] = 0
  PROVE  Budget(flow')
<1>1. flow \in FlowSet /\ setup \in Setups  BY StandingFlow DEF Standing
<1>2. ASSUME NEW f, NEW h, NEW i, EnteredSelfCheck(f, h, i), h.fixes = flow.fixes,
             Saved(f, flow.steps)
      PROVE  Budget(flow')
  <2>1. f.fixes = flow.fixes /\ f.current \notin Dynamic
    BY <1>2 DEF EnteredSelfCheck, Dynamic
  <2>2. flow' = f  BY <1>2, SavedWhole
  <2>3. QED  BY <2>1, <2>2, BudgetHeld
<1>3. Mirrored \in FlowSet /\ Mirrored.fixes = flow.fixes
  BY <1>1, MirroredValues DEF SamePlace
<1>4. CASE LoopToAdjudicate
  <2> DEFINE f == ToAdjudicate(Marked)
  <2>1. ~Exhausted /\ Saved(f, flow.steps)
    BY <1>4, LoopToAdjudicateDoes DEF LoopToAdjudicate
  <2>2. PICK at \in 1..Len(flow.selected) : AtInserted(f, Marked, at, "ADJUDICATE", Ruling(Marked))
    BY <1>4, LoopToAdjudicateDoes
  <2> HIDE DEF f
  <2>3. f.fixes = flow.fixes  BY <2>2, MarkedValues DEF AtInserted, SamePlace
  <2>4. flow' = f  BY <2>1, SavedWhole
  <2>5. QED  BY <2>1, <2>3, <2>4, OneFixLeft DEF Budget
<1>5. CASE RescueToAdjudicate
  <2>1. RescueDue  BY <1>5, RescueToAdjudicateDoes
  <2>2. QED  BY <2>1, NothingUnflushed DEF RescueDue, Leaving
<1>6. CASE ConfirmRuling
  <2> DEFINE f == ToConfirm
  <2>1. flow.current = "ADJUDICATE" /\ Saved(f, flow.steps)  BY <1>6, ConfirmRulingDoes
  <2>2. PICK g : AtInserted(g, flow, flow.index + 1, "CONFIRM", NewStep) /\ f.fixes = g.fixes
    BY <1>6, ConfirmRulingDoes
  <2> HIDE DEF f
  <2>3. f.fixes = flow.fixes  BY <2>2 DEF AtInserted
  <2>4. flow' = f  BY <2>1, SavedWhole
  <2>5. QED  BY <2>1, <2>3, <2>4 DEF Budget, Dynamic
<1>7. ASSUME NEW a \in BOOLEAN, LandRuling(a) PROVE Budget(flow')
  <2> DEFINE i == StripAdjudicateRun(flow).selfCheck  f == EnterSelfCheck(Landed, i, a)
  <2>1. RulingStands /\ EnteredSelfCheck(f, Landed, i) /\ Saved(f, flow.steps)
    BY <1>7, LandRulingDoes
  <2> HIDE DEF f, i
  <2>2. f.fixes = flow.fixes + 1 /\ f.current \notin Dynamic
    BY <2>1, LandedValues DEF EnteredSelfCheck, Dynamic
  <2>3. flow.current \in Dynamic  BY <2>1 DEF RulingStands, Leaving, Dynamic
  <2>4. flow' = f  BY <2>1, SavedWhole
  <2>5. QED  BY <2>2, <2>3, <2>4, OneFixLeft DEF Budget
<1>8. ASSUME NEW a \in BOOLEAN, Reflow(a) PROVE Budget(flow')  BY <1>2, <1>8, ReflowDoes
<1>9. ASSUME NEW a \in BOOLEAN, RepeatPass(a) PROVE Budget(flow')
  <2> DEFINE h == AdvancePass(Mirrored)
  <2>1. h.fixes = flow.fixes  BY <1>3, AdvancePassValues DEF SamePlace
  <2> HIDE DEF h
  <2>2. QED  BY <1>2, <1>9, <2>1, RepeatPassDoes DEF h
<1>10. ASSUME NEW a \in BOOLEAN, RescuePass(a) PROVE Budget(flow')
  <2>1. flow.current = "SELF_CHECK" /\ Cur.status = "completed" /\ Unflushed
    BY <1>10, RescuePassDoes
  <2>2. QED  BY <2>1, NothingUnflushed
<1>11. ASSUME NEW a \in BOOLEAN, CloseWithFullRound(a) PROVE Budget(flow')
  <2> DEFINE h == CompleteClean(Mirrored)
  <2>1. h.fixes = flow.fixes  BY <1>3, CompleteCleanValues DEF SamePlace
  <2> HIDE DEF h
  <2>2. QED  BY <1>2, <1>11, <2>1, CloseDoes DEF h
<1>12. ASSUME NEW a \in BOOLEAN, Advance(a) PROVE Budget(flow')
  <2> DEFINE i == flow.index + 1  t == flow.selected[i]
             f == IF t = "SELF_CHECK" THEN EnterSelfCheck(Departed, i, a) ELSE Entered(t)
  <2>1. /\ Onward /\ i \in 2..Len(flow.selected) /\ Saved(f, flow.steps)
        /\ f.current = t /\ f.fixes = flow.fixes  BY <1>12, AdvanceDoes
  <2>2. flow.selected = Base  BY <2>1, OnwardReview
  <2> HIDE DEF f
  <2>3. t \notin Dynamic  BY <1>1, <2>1, <2>2, BaseFacts
  <2>4. flow' = f  BY <2>1, SavedWhole
  <2>5. QED  BY <2>1, <2>3, <2>4, BudgetHeld
<1>13. QED  BY <1>4, <1>5, <1>6, <1>7, <1>8, <1>9, <1>10, <1>11, <1>12 DEF ToNewStep

LEMMA ToKnownStepBudget ==
  ASSUME Standard, Standing, Placed(flow), ReviewOf(flow, clean), Budget(flow), MaxFix > 0,
         ToKnownStep, spent'["tears"] = 0
  PROVE  Budget(flow')
<1>1. flow \in FlowSet /\ setup \in Setups  BY StandingFlow DEF Standing
<1>2. CASE ContinueImplement
  <2>1. SameButSteps(Continued, flow) /\ Saved(Continued, Counted.steps)
    BY <1>2, ContinueDoes
  <2>2. flow' = Continued  BY <2>1, SavedWhole
  <2>3. QED  BY <2>1, <2>2, BudgetHeld DEF SameButSteps, SamePlace
<1>3. CASE FixesExhausted  BY <1>1, <1>3, FixesExhaustedDoes, BudgetHeld DEF StepAndStatus
<1>4. CASE Complete
  <2>1. Saved(Ended, flow.steps) /\ Ended.current = flow.current /\ Ended.fixes = flow.fixes
    BY <1>4, CompleteDoes
  <2>2. flow' = Ended  BY <2>1, SavedWhole
  <2>3. QED  BY <2>1, <2>2, BudgetHeld
<1>5. ASSUME NEW f, NEW g, AtFix(g, f), f.fixes = flow.fixes, Saved(g, flow.steps),
             ~Exhausted \/ flow.current \in Dynamic
      PROVE  Budget(flow')
  <2>1. g.fixes = flow.fixes + 1 /\ g.current \notin Dynamic  BY <1>5 DEF AtFix, Dynamic
  <2>2. flow' = g  BY <1>5, SavedWhole
  <2>3. QED  BY <1>5, <2>1, <2>2, OneFixLeft DEF Budget
<1>6. ASSUME NEW a \in BOOLEAN, LoopToFix(a) PROVE Budget(flow')
  <2>1. Marked.fixes = flow.fixes  BY MarkedValues DEF SamePlace
  <2>2. QED  BY <1>5, <1>6, <2>1, LoopToFixDoes
<1>7. ASSUME NEW a \in BOOLEAN, PassThroughRuling(a) PROVE Budget(flow')
  BY <1>5, <1>7, UnsplicedValues, PassThroughRulingDoes DEF Dynamic
<1>8. ASSUME NEW a \in BOOLEAN, ToRevision(a) PROVE Budget(flow')
  <2> DEFINE f == Returned(a)
  <2>1. /\ flow.status = "running" /\ flow.current = "CONFIRM" /\ Saved(f, flow.steps)
        /\ f.current = flow.reviews /\ f.fixes = flow.fixes  BY <1>8, ToRevisionDoes
  <2> HIDE DEF f
  <2>2. flow' = f  BY <2>1, SavedWhole
  <2>3. QED  BY <2>1, <2>2 DEF Budget, Dynamic
<1>9. ASSUME NEW a \in BOOLEAN, RescueToFix(a) PROVE Budget(flow')
  <2>1. RescueDue  BY <1>9, RescueToFixDoes
  <2>2. QED  BY <2>1, NothingUnflushed DEF RescueDue, Leaving
<1>10. QED  BY <1>2, <1>3, <1>4, <1>6, <1>7, <1>8, <1>9 DEF ToKnownStep

LEMMA RestartBudget ==
  ASSUME RewindInv, NEW i \in 1..Len(history), NEW r \in BOOLEAN, NEW u \in BOOLEAN,
         Restart(i, r, u), Budget(history[i].flow)
  PROVE  Budget(flow')
<1> DEFINE b == history[i].flow  g == Restored(i, LayersThen(r), NewestThen(r))
<1>1. /\ FlowOK(g, code) /\ SamePlace(g, b) /\ flow' = Rebuilt(g, u) /\ b.status = "running"
  <2>1. FlowOK(g, code) /\ SamePlace(g, b) /\ flow' = Rebuilt(g, u)
    BY RestartDoes, Zenon DEF RestartedFlow
  <2>2. EntryOK(history[i], code, flow.layers)  BY DEF RewindInv
  <2>3. QED  BY <2>1, <2>2 DEF EntryOK
<1> HIDE DEF b, g
<1>2. g.status = "running" /\ g.fixes = b.fixes /\ g.current = b.current
  BY <1>1 DEF SamePlace
<1>3. flow'.fixes = b.fixes /\ flow'.current = b.current
  <2>1. /\ flow'.current = g.current
        /\ g.current = "SELF_CHECK" => EnteredSelfCheck(flow', g, g.index)
        /\ g.current # "SELF_CHECK" => flow'.fixes = g.fixes  BY <1>1, <1>2, RebuiltValues
  <2>2. QED  BY <1>2, <2>1 DEF EnteredSelfCheck
<1>4. QED  BY <1>3, BudgetHeld DEF b

LEMMA BudgetStays ==
  ASSUME setup' = setup
  PROVE  /\ Budget(flow') => Budget(flow)'
         /\ \A i : Budget(history'[i].flow) => Budget(history[i].flow)'
BY Zenon DEF Budget, MaxFix

LEMMA StepBudgeted ==
  ASSUME Standard, SequenceInv, ReviewInv, BudgetInv, [RewindNext]_rvars
  PROVE  BudgetInv'
<1>1. setup' = setup /\ RewindInv  BY SetupKept DEF SequenceInv
<1> SUFFICES ASSUME Ordered', MaxFix > 0
             PROVE  Budget(flow)' /\ \A i \in 1..Len(history') : Budget(history[i].flow)'
  BY <1>1 DEF BudgetInv, MaxFix
<1>2. /\ Standing /\ Placed(flow) /\ spent'["tears"] = 0 /\ ReviewOf(flow, clean)
      /\ Budget(flow) /\ \A i \in 1..Len(history) : Budget(history[i].flow)
  BY OrderedBefore, Zenon DEF SequenceInv, RewindInv, ReviewInv, BudgetInv
<1>3. Budget(flow')
  <2>1. CASE Handlers \/ Operator \/ Begin  BY <1>2, <2>1, QuietFixes, BudgetHeld
  <2>2. CASE ToNewStep  BY <1>2, <2>2, ToNewStepBudget
  <2>3. CASE ToKnownStep  BY <1>2, <2>3, ToKnownStepBudget
  <2>4. CASE Stopped \/ UNCHANGED rvars  BY <1>2, <2>4 DEF Stopped, rvars, vars
  <2>5. ASSUME NEW i \in 1..Len(history), NEW r \in BOOLEAN, NEW u \in BOOLEAN, Restart(i, r, u)
        PROVE  Budget(flow')  BY <1>1, <1>2, <2>5, RestartBudget
  <2>6. QED  BY <2>1, <2>2, <2>3, <2>4, <2>5
    DEF RewindNext, Enters, Adds, Revises, LeavesHistory, Operator
<1>4. ASSUME NEW i \in 1..Len(history')
      PROVE  Budget(history'[i].flow)
  <2>1. CASE i \in 1..Len(history) /\ history'[i] = history[i]  BY <1>2, <2>1
  <2>2. CASE history'[i] = Entry(flow)  BY <1>2, <2>2 DEF Entry
  <2>3. QED  BY <1>1, <2>1, <2>2, EntriesAfter
<1>5. QED  BY <1>1, <1>3, <1>4, BudgetStays

LEMMA InitBudgeted ==
  ASSUME Standard, RewindInit
  PROVE  BudgetInv
<1>1. setup \in Setups /\ history = << >> /\ flow.fixes = 0 /\ flow.current = Base[1]
  BY DEF RewindInit, Init
<1>2. Base[1] \notin Dynamic /\ MaxFix \in Nat
  BY <1>1, BaseFacts, EngineAssumption DEF MaxFix
<1>3. QED  BY <1>1, <1>2 DEF BudgetInv, Budget
-----------------------------------------------------------------------------
(* How far back a review reaches.                                           *)

LEMMA ScopedAs ==
  ASSUME NEW f, NEW g, NEW r, Scoped(f, r), SameRound(g, f), g.fixBaselines = f.fixBaselines,
         g.layer >= 1, g.beforeRuling >= 1
  PROVE  Scoped(g, r)
BY DEF Scoped, NextReaches, RoundReaches, SameRound

LEMMA ScopedSame ==
  ASSUME NEW f, NEW g, NEW r, Scoped(f, r), SameRound(g, f), g.fixBaselines = f.fixBaselines,
         SameLayers(g, f)
  PROVE  Scoped(g, r)
BY ScopedAs DEF Scoped, SameLayers

\* What is to be reviewed anew from the start needs no baseline.
LEMMA ScopedForced ==
  ASSUME NEW g, NEW r, g.active = NoRound, g.forced, g.layer >= 1, g.beforeRuling >= 1
  PROVE  Scoped(g, r)
BY DEF Scoped, NextReaches, RoundReaches

\* Where a pass has seen everything, every baseline will do.
LEMMA ScopedSeen ==
  ASSUME NEW g \in FlowSet, NEW c \in Nat, Grounded(g, c), NEW r \in Nat, r >= c,
         g.active = NoRound, g.layer >= 1, g.beforeRuling >= 1
  PROVE  Scoped(g, r)
<1>1. ASSUME g.covered < Len(g.fixBaselines)
      PROVE  g.fixBaselines[g.covered + 1].at <= r
  <2>1. g.covered \in Nat /\ Len(g.fixBaselines) \in Nat  BY FlowLengths DEF FlowSet
  <2>2. g.covered + 1 \in 1..Len(g.fixBaselines)  BY <1>1, <2>1
  <2> DEFINE j == g.covered + 1
  <2>3. g.fixBaselines[j].at <= c /\ g.fixBaselines[j].at \in Nat
    BY <2>2, FlowLengths DEF Grounded
  <2>4. QED  BY <2>3
<1>2. QED  BY <1>1 DEF Scoped, NextReaches, RoundReaches

LEMMA ScopedLater ==
  ASSUME NEW f \in FlowSet, NEW c \in Nat, Grounded(f, c), NEW r \in Nat, NEW q \in Nat, r <= q,
         Scoped(f, r)
  PROVE  Scoped(f, q)
<1>1. ASSUME NEW j \in Nat, f.fixBaselines[j].at \in Nat, f.fixBaselines[j].at <= r
      PROVE  f.fixBaselines[j].at <= q  BY <1>1
<1>2. f.covered \in Nat /\ Len(f.fixBaselines) \in Nat /\ f.active \in Rounds
  BY FlowLengths DEF FlowSet
<1>3. f.covered < Len(f.fixBaselines) =>
        f.covered + 1 \in Nat /\ f.fixBaselines[f.covered + 1].at \in Nat
  <2> SUFFICES ASSUME f.covered < Len(f.fixBaselines)
               PROVE  f.covered + 1 \in Nat /\ f.fixBaselines[f.covered + 1].at \in Nat
    OBVIOUS
  <2>1. f.covered + 1 \in 1..Len(f.fixBaselines)  BY <1>2
  <2>2. QED  BY <2>1, FlowLengths
<1>4. NextReaches(f, q)  BY <1>1, <1>3 DEF NextReaches, Scoped
<1>5. RoundReaches(f, q)
  <2> SUFFICES ASSUME f.active # NoRound, f.active.mode = "incremental"
               PROVE  f.fixBaselines[f.active.base].at <= q  BY DEF RoundReaches, Scoped
  <2>1. f.active.base \in Nat /\ f.active.base <= Len(f.fixBaselines)
    BY <1>2, NoRoundIsNone DEF Round, Grounded
  <2>2. f.active.base > 0 /\ f.fixBaselines[f.active.base].at <= r
    BY DEF RoundReaches, Scoped
  <2>3. f.active.base \in 1..Len(f.fixBaselines)  BY <1>2, <2>1, <2>2
  <2>4. f.fixBaselines[f.active.base].at \in Nat  BY <2>3, FlowLengths
  <2>5. QED  BY <1>1, <2>1, <2>2, <2>4
<1>6. QED  BY <1>4, <1>5 DEF Scoped

\* A round that begins reaches back far enough.
LEMMA ScopedRound ==
  ASSUME NEW f \in FlowSet, NEW c, Grounded(f, c), NEW r, Scoped(f, r)
  PROVE  Scoped(PrepareRound(f), r)
<1> DEFINE S == Seq(Types)  B == Seq(Baseline)  g == PrepareRound(f)
           n == Len(f.fixBaselines)  e == EarliestUnreviewed(f)
           full == \/ f.forced \/ f.closure \/ (f.fingerprint # 0 /\ f.fingerprint # f.layer)
                   \/ ~f.fullOccurred \/ e = 0
           mode == IF full THEN "full" ELSE "incremental"
           a == [mode |-> mode, credit |-> mode, base |-> IF full THEN 0 ELSE e,
                 layer |-> f.layer, pass |-> 1, flushTried |-> FALSE]
<1>1. InRound(g, f)  BY PrepareRoundValues
<1>2. CASE f.active # NoRound /\ f.active.layer = f.layer  BY <1>2 DEF PrepareRound
<1>3. CASE ~(f.active # NoRound /\ f.active.layer = f.layer)
  <2>1. g = [f EXCEPT !.active = a, !.forced = FALSE, !.closure = FALSE,
                      !.fingerprint = f.layer, !.covered = n]
    BY <1>3 DEF PrepareRound, Coverage
  <2>2. /\ a.mode = "incremental" => ~full /\ a.base = e
        /\ a.layer = f.layer  OBVIOUS
  <2>3. ASSUME ~full PROVE e > 0 /\ f.fixBaselines[e].at <= r
    <3>1. f.active = NoRound
      <4> SUFFICES ASSUME f.active # NoRound PROVE FALSE  OBVIOUS
      <4>1. f.fingerprint = f.active.layer /\ f.active.layer >= 1
        BY DEF Scoped, RoundReaches
      <4>2. f.fingerprint \in Nat  BY DEF FlowSet
      <4>3. f.fingerprint # 0 /\ f.fingerprint # f.layer  BY <1>3, <4>1, <4>2
      <4>4. QED  BY <2>3, <4>3
    <3>2. f.fullOccurred /\ ~f.forced /\ e # 0  BY <2>3
    <3>3. e = f.covered + 1 /\ f.covered < n /\ f.covered \in Nat
      BY <3>2 DEF EarliestUnreviewed, FlowSet
    <3>4. f.fixBaselines[f.covered + 1].at <= r  BY <3>1, <3>2, <3>3 DEF Scoped, NextReaches
    <3>5. QED  BY <3>3, <3>4
  <2> HIDE DEF S, B, a, e, full, mode, n
  <2>4. g.active = a /\ g.fingerprint = f.layer  BY <2>1 DEF FlowSet
  <2> HIDE DEF g
  <2>5. /\ g.active \in Round /\ g.fixBaselines = f.fixBaselines
        /\ g.layer = f.layer /\ g.beforeRuling = f.beforeRuling
    BY <1>1 DEF InRound, SameLayers
  <2>6. RoundReaches(g, r)  BY <2>2, <2>3, <2>4, <2>5 DEF RoundReaches, Scoped
  <2>7. NextReaches(g, r)  BY <2>5, NoRoundIsNone DEF NextReaches
  <2>8. QED  BY <2>5, <2>6, <2>7 DEF Scoped, g
<1>4. QED  BY <1>2, <1>3

LEMMA ScopedScope ==
  ASSUME NEW f \in FlowSet, NEW c, Grounded(f, c), NEW r, Scoped(f, r), NEW u \in BOOLEAN
  PROVE  Scoped(PrepareScope(f, u), r)
<1> DEFINE h == PrepareRound(f)  g == PrepareScope(f, u)
<1>1. InRound(h, f) /\ InRound(g, f) /\ Scoped(h, r)
  BY PrepareRoundValues, PrepareScopeValues, ScopedRound
<1>2. CASE ~(u /\ h.active.mode = "incremental")  BY <1>1, <1>2 DEF PrepareScope
<1>3. CASE u /\ h.active.mode = "incremental"
  <2>1. h \in FlowSet /\ h.active \in Round /\ g.active \in Round  BY <1>1 DEF InRound
  <2> HIDE DEF h
  <2>2. g = [h EXCEPT !.active.mode = "full", !.active.base = 0,
                      !.active.credit = IF h.active.pass = 1 THEN "full" ELSE @]
    BY <1>3 DEF PrepareScope, h
  <2> DEFINE a == [h.active EXCEPT !.mode = "full", !.base = 0,
                         !.credit = IF h.active.pass = 1 THEN "full" ELSE @]
  <2>7. a.mode = "full" /\ a.layer = h.active.layer  BY <2>1 DEF Round
  <2>8. g = [h EXCEPT !.active = a]  BY <2>1, <2>2 DEF FlowSet, Round
  <2> HIDE DEF a
  <2>3. /\ g.active.mode = "full" /\ g.active.layer = h.active.layer
        /\ g.fingerprint = h.fingerprint /\ g.layer = h.layer
        /\ g.beforeRuling = h.beforeRuling  BY <2>1, <2>7, <2>8 DEF FlowSet
  <2> HIDE DEF g
  <2>4. RoundReaches(h, r) /\ h.active # NoRound /\ g.active # NoRound
    BY <1>1, <2>1, NoRoundIsNone DEF Scoped
  <2>5. RoundReaches(g, r) /\ NextReaches(g, r)  BY <2>3, <2>4 DEF RoundReaches, NextReaches
  <2>6. QED  BY <1>1, <2>3, <2>5 DEF Scoped, g
<1>4. QED  BY <1>2, <1>3

LEMMA ScopedEntered ==
  ASSUME NEW f \in FlowSet, NEW c, Grounded(f, c), NEW r, Scoped(f, r), NEW i \in Nat,
         NEW u \in BOOLEAN
  PROVE  Scoped(EnterSelfCheck(f, i, u), r)
<1> DEFINE h == PrepareScope(f, u)  g == EnterSelfCheck(f, i, u)
           kept == IF h.active.pass = 1 THEN {} ELSE h.stash
           k == [h EXCEPT !.stash = kept]
           s == [NewStep EXCEPT !.pass = h.active.pass,
                                !.flushTried = h.active.flushTried, !.stash = kept]
<1>1. Scoped(h, r) /\ InRound(h, f)  BY ScopedScope, PrepareScopeValues
<1> HIDE DEF h
<1>2. h \in FlowSet /\ h.active \in Round /\ kept \in SUBSET Findings
  BY <1>1 DEF InRound, FlowSet
<1>3. s \in Step
  <2>1. h.active.pass \in Nat /\ h.active.flushTried \in BOOLEAN  BY <1>2 DEF Round
  <2> HIDE DEF kept
  <2>2. QED  BY <1>2, <2>1 DEF NewStep, Step, Status
<1>4. g = Enter(k, "SELF_CHECK", i, s)  BY DEF EnterSelfCheck, h
<1> HIDE DEF kept, s
<1>5. /\ k \in FlowSet /\ SameRound(k, h) /\ SameLayers(k, h)
      /\ k.fixBaselines = h.fixBaselines  BY <1>2, StashValues
<1> HIDE DEF k, g
<1>6. SameReview(g, k)
  <2>1. "SELF_CHECK" \in Types  BY DEF Types
  <2>2. QED  BY <1>3, <1>4, <1>5, <2>1, EnterValues
<1>7. Scoped(k, r)  BY <1>1, <1>5, ScopedSame
<1>8. QED  BY <1>6, <1>7, ScopedSame DEF SameReview, g

\* A flow that stays where it is, with the rounds it had.
LEMMA StepScope ==
  ASSUME ScopeOf(flow, code, reviewed), NEW g, SameRound(g, flow),
         g.fixBaselines = flow.fixBaselines, g.layer >= 1, g.beforeRuling >= 1,
         g.current = flow.current, g.index = flow.index,
         flow.current = "SELF_CHECK" =>
           \/ g.steps["SELF_CHECK"].status \notin {"completed", "revision"}
           \/ g.steps["SELF_CHECK"].status = Cur.status,
         NEW c, c = code \/ ~Seen(flow)
  PROVE  ScopeOf(g, c, reviewed)
<1>1. Scoped(g, reviewed)  BY ScopedAs DEF ScopeOf
<1>2. Seen(g) => Seen(flow)  BY DEF Seen, PastReview, Cur
<1>3. Ahead(g) => Ahead(flow)  BY DEF Ahead
<1>4. Owed(flow) => Owed(g)  BY DEF Owed, SameRound
<1>5. QED  BY <1>1, <1>2, <1>3, <1>4 DEF ScopeOf

\* The same for a step that is answered, asked or armed again.
LEMMA StepToScope ==
  ASSUME ScopeOf(flow, code, reviewed), NEW s, NEW x,
         StepTo(flow', flow, s) \/ StepAndStatus(flow', flow, s, x),
         flow.current = "SELF_CHECK" =>
           s.status \notin {"completed", "revision"} \/ s.status = Cur.status,
         NEW c, c = code \/ ~Seen(flow)
  PROVE  ScopeOf(flow', c, reviewed)
<1>1. /\ SameReview(flow', flow) /\ flow'.current = flow.current /\ flow'.index = flow.index
      /\ flow'.steps[flow.current] = s
  BY DEF StepTo, StepAndStatus, SameButSteps, SamePlace
<1>2. flow'.layer >= 1 /\ flow'.beforeRuling >= 1
  BY <1>1 DEF SameReview, SameLayers, ScopeOf, Scoped
<1>3. QED  BY <1>1, <1>2, StepScope DEF SameReview

LEMMA HandlersScope ==
  ASSUME Standing, ScopeOf(flow, code, reviewed), Handlers
  PROVE  ScopeOf(flow', code', reviewed')
<1>1. flow \in FlowSet /\ flow.current \in Types /\ Cur \in Step /\ Grounded(flow, code)
      /\ code \in Nat /\ reviewed \in 0..code  BY StandingFlow DEF Standing
<1>2. CASE FinishPlain
  <2>1. UNCHANGED <<code, reviewed>> /\ flow.current # "SELF_CHECK"
        /\ StepTo(flow', flow, [Cur EXCEPT !.status = "completed"])
    BY <1>1, <1>2, FinishPlainDoes DEF FinishPlain
  <2>2. QED  BY <1>1, <2>1, StepToScope
<1>3. CASE Fail
  <2> DEFINE s == [Cur EXCEPT !.status = "failed"]
  <2>1. UNCHANGED <<code, reviewed>> /\ StepTo(flow', flow, s)
    BY <1>1, <1>3, FailDoes DEF Fail
  <2>2. s.status = "failed"  BY <1>1 DEF Step
  <2> HIDE DEF s
  <2>3. QED  BY <2>1, <2>2, StepToScope
<1>4. CASE Resume
  <2> DEFINE s == [Cur EXCEPT !.status = "pending", !.retries = 0]
  <2>1. UNCHANGED <<code, reviewed>> /\ StepAndStatus(flow', flow, s, "running")
    BY <1>1, <1>4, ResumeDoes DEF Resume
  <2>2. s.status = "pending"  BY <1>1 DEF Step
  <2> HIDE DEF s
  <2>3. QED  BY <2>1, <2>2, StepToScope
<1>5. ASSUME NEW x \in Status, FinishImplement(x) \/ FinishGate(x)
      PROVE  ScopeOf(flow', code', reviewed')
  <2>1. UNCHANGED <<code, reviewed>> /\ flow.current # "SELF_CHECK"
        /\ StepTo(flow', flow, [Cur EXCEPT !.status = x])
    BY <1>1, <1>5, FinishImplementDoes, FinishGateDoes DEF FinishImplement, FinishGate, Gates
  <2>2. QED  BY <1>1, <2>1, StepToScope
<1>6. ASSUME NEW v \in {"approved", "rejected"}, FinishConfirm(v)
      PROVE  ScopeOf(flow', code', reviewed')
  <2> DEFINE s == [Cur EXCEPT !.verdict = v,
                     !.status = IF v = "approved" THEN "completed" ELSE "revision"]
  <2>1. UNCHANGED <<code, reviewed>> /\ flow.current # "SELF_CHECK" /\ StepTo(flow', flow, s)
    BY <1>1, <1>6, FinishConfirmDoes DEF FinishConfirm
  <2> HIDE DEF s
  <2>2. QED  BY <1>1, <2>1, StepToScope
<1>7. ASSUME NEW v \in {"noop", "description", "plan"}, FinishAdjudicate(v)
      PROVE  ScopeOf(flow', code', reviewed')
  <2>1. /\ UNCHANGED <<code, reviewed>> /\ flow.current = "ADJUDICATE"
        /\ SamePlace(flow', flow) /\ SameRound(flow', flow)
        /\ flow'.fixBaselines = flow.fixBaselines
        /\ flow'.layer = IF v = "description" THEN flow.layers + 1 ELSE flow.layer
        /\ flow'.beforeRuling = flow.layer
    BY <1>1, <1>7, FinishAdjudicateDoes DEF FinishAdjudicate
  <2>2. flow.layers \in Nat /\ flow.layer >= 1  BY <1>1 DEF FlowSet, ScopeOf, Scoped
  <2>3. flow'.layer >= 1 /\ flow'.beforeRuling >= 1  BY <2>1, <2>2
  <2>4. QED  BY <2>1, <2>3, StepScope DEF SamePlace
<1>8. ASSUME NEW found \in SUBSET Findings, NEW severe \in BOOLEAN, FinishSelfCheck(found, severe)
      PROVE  ScopeOf(flow', code', reviewed')
  <2>1. /\ flow.current = "SELF_CHECK" /\ StepTo(flow', flow, PassAnswer(found, severe))
        /\ code' = code /\ reviewed' = code
    BY <1>1, <1>8, FinishSelfCheckDoes DEF FinishSelfCheck
  <2>2. /\ SameReview(flow', flow) /\ flow'.current = "SELF_CHECK" /\ flow' \in FlowSet
    BY <2>1 DEF StepTo, SameButSteps, SamePlace
  <2>3. Scoped(flow, code)  BY <1>1, ScopedLater DEF ScopeOf
  <2>4. Scoped(flow', code)  BY <2>2, <2>3, ScopedSame DEF SameReview
  <2>5. code >= code  BY <1>1
  <2>6. QED  BY <2>1, <2>2, <2>4, <2>5 DEF ScopeOf, Ahead
<1>9. QED  BY <1>2, <1>3, <1>4, <1>5, <1>6, <1>7, <1>8 DEF Handlers

LEMMA OperatorScope ==
  ASSUME Standing, ~ReviseDone, "SELF_CHECK" \notin Skippable, ScopeOf(flow, code, reviewed),
         Operator
  PROVE  ScopeOf(flow', code', reviewed')
<1>1. flow \in FlowSet /\ flow.current \in Types /\ Cur \in Step  BY StandingFlow
<1>2. CASE Retry
  <2> DEFINE s == [Cur EXCEPT !.status = "pending", !.retries = @ + 1]
  <2>1. UNCHANGED <<code, reviewed>> /\ StepTo(flow', flow, s)
    BY <1>1, <1>2, RetryDoes DEF Retry
  <2>2. s.status = "pending"  BY <1>1 DEF Step
  <2> HIDE DEF s
  <2>3. QED  BY <2>1, <2>2, StepToScope
<1>3. CASE Skip
  <2> DEFINE s == [Cur EXCEPT !.status = "completed", !.skipped = TRUE]
  <2>1. UNCHANGED <<code, reviewed>> /\ flow.current # "SELF_CHECK" /\ StepTo(flow', flow, s)
    BY <1>1, <1>3, SkipDoes DEF Skip
  <2> HIDE DEF s
  <2>2. QED  BY <1>1, <2>1, StepToScope
<1>4. CASE GiveUp
  <2>1. UNCHANGED <<code, reviewed>> /\ StepAndStatus(flow', flow, Cur, "failed")
    BY <1>1, <1>4, GiveUpDoes DEF GiveUp
  <2>2. QED  BY <2>1, StepToScope
<1>5. CASE Revise
  <2> DEFINE s == [Cur EXCEPT !.status = IF @ = "running" THEN "pending" ELSE @]
  <2>1. /\ SamePlace(flow', flow) /\ flow'.active = NoRound /\ flow'.forced = TRUE
        /\ flow'.layer = flow.layers + 1 /\ flow'.beforeRuling = flow.layers + 1
        /\ flow'.steps[flow.current] = s  BY <1>1, <1>5, ReviseDoes
  <2>2. UNCHANGED <<code, reviewed>> /\ Cur.status \in {"running", "failed"}
    BY <1>5 DEF Revise
  <2>3. s.status = IF Cur.status = "running" THEN "pending" ELSE Cur.status
    BY <1>1 DEF Step
  <2> HIDE DEF s
  <2>4. flow.layers \in Nat  BY <1>1 DEF FlowSet
  <2>5. Scoped(flow', reviewed)  BY <2>1, <2>4, ScopedForced
  <2>6. flow'.current = flow.current /\ flow'.index = flow.index  BY <2>1 DEF SamePlace
  <2>7. Seen(flow') => Seen(flow)  BY <2>1, <2>2, <2>3, <2>6 DEF Seen, PastReview
  <2>8. Owed(flow')  BY <2>1 DEF Owed
  <2>9. QED  BY <2>2, <2>5, <2>7, <2>8 DEF ScopeOf
<1>6. QED  BY <1>2, <1>3, <1>4, <1>5 DEF Operator

LEMMA BeginScope ==
  ASSUME Standard, Standing, Placed(flow), ScopeOf(flow, code, reviewed), Begin
  PROVE  ScopeOf(flow', code', reviewed')
<1>1. flow \in FlowSet /\ flow.current \in Types /\ Cur \in Step /\ Grounded(flow, code)
      /\ setup \in Setups  BY StandingFlow DEF Standing
<1>2. CASE Start
  <2> DEFINE s == [Cur EXCEPT !.status = "running"]
  <2>1. /\ flow.current # "SELF_CHECK" /\ StepTo(flow', flow, s) /\ reviewed' = reviewed
        /\ flow.status = "running"
        /\ code' = IF flow.current = "IMPLEMENT" THEN code + 1 ELSE code
    BY <1>1, <1>2, StartDoes DEF Start
  <2> HIDE DEF s
  <2>2. code' = code \/ ~Seen(flow)
    <3>1. CASE flow.current = "IMPLEMENT"
      BY <1>1, <2>1, <3>1, FixBeforeReview DEF Seen, Dynamic
    <3>2. QED  BY <2>1, <3>1
  <2>3. QED  BY <2>1, <2>2, StepToScope
<1>3. ASSUME NEW u \in BOOLEAN, StartSelfCheck(u) PROVE ScopeOf(flow', code', reviewed')
  <2> DEFINE h == PrepareScope(Refreshed, u)
             s == [Cur EXCEPT !.status = "running", !.pass = h.active.pass,
                              !.flushTried = h.active.flushTried]
  <2>1. /\ flow.current = "SELF_CHECK" /\ UNCHANGED <<code, reviewed>>
        /\ Refreshed \in FlowSet /\ Grounded(Refreshed, code)
        /\ InRound(h, Refreshed) /\ StepTo(flow', h, s)
    BY <1>1, <1>3, StartSelfCheckDoes DEF StartSelfCheck
  <2>2. s.status = "running"  BY <1>1 DEF Step
  <2>3. Scoped(Refreshed, reviewed)
    <3>1. CASE Refreshed = flow  BY <3>1 DEF ScopeOf
    <3>2. CASE Refreshed = ForceFull(flow)
      <4> DEFINE g == ForceFull(flow)
      <4>1. g.active = NoRound /\ g.forced /\ SameLayers(g, flow)  BY <1>1, ForceFullValues
      <4> HIDE DEF g
      <4>2. g.layer >= 1 /\ g.beforeRuling >= 1  BY <4>1 DEF SameLayers, ScopeOf, Scoped
      <4>3. Scoped(g, reviewed)  BY <4>1, <4>2, ScopedForced
      <4>4. QED  BY <3>2, <4>3 DEF g
    <3>3. QED  BY <3>1, <3>2 DEF Refreshed
  <2>4. Scoped(h, reviewed)  BY <2>1, <2>3, ScopedScope
  <2>5. Refreshed.current = flow.current  BY <1>1, ForceFullValues DEF Refreshed, SamePlace
  <2> HIDE DEF h, s
  <2>6. h.current = "SELF_CHECK"  BY <2>1, <2>5 DEF InRound, SamePlace
  <2>7. /\ flow'.current = "SELF_CHECK" /\ SameReview(flow', h)
        /\ flow'.steps["SELF_CHECK"] = s
    BY <2>1, <2>6 DEF StepTo, SameButSteps, SamePlace
  <2>8. Scoped(flow', reviewed)  BY <2>4, <2>7, ScopedSame DEF SameReview
  <2>9. ~Seen(flow') /\ ~Ahead(flow')  BY <2>2, <2>7 DEF Seen, PastReview, Ahead, Dynamic
  <2>10. QED  BY <2>1, <2>8, <2>9 DEF ScopeOf
<1>4. QED  BY <1>2, <1>3 DEF Begin

\* A review that begins has seen nothing yet, and owes no baseline.
LEMMA EnteredScope ==
  ASSUME NEW g, NEW f, NEW i, EnteredSelfCheck(g, f, i), NEW r, Scoped(g, r), NEW c
  PROVE  ScopeOf(g, c, r) /\ Owed(g)
<1>1. g.current = "SELF_CHECK" /\ g.active # NoRound /\ g.steps["SELF_CHECK"].status = "pending"
  BY NoRoundIsNone DEF EnteredSelfCheck, NewStep
<1>2. QED  BY <1>1 DEF ScopeOf, Seen, PastReview, Ahead, Owed, Dynamic

\* A save that is cut leaves the flow at its step, with what the review then is.
LEMMA SavedScope ==
  ASSUME Standing, ScopeOf(flow, code, reviewed), NEW f \in FlowSet, NEW bodies \in [Types -> Step],
         Saved(f, bodies), ScopeOf(f, code, reviewed), Ahead(flow) => Owed(f),
         flow.current = "SELF_CHECK" => bodies["SELF_CHECK"] = Cur
  PROVE  ScopeOf(flow', code, reviewed)
<1>1. CASE flow' = f  BY <1>1
<1>2. CASE flow' = Torn(f, bodies)
  <2> DEFINE g == Torn(f, bodies)
             s == [Cur EXCEPT !.skipped = FALSE, !.status = IF Cur.skipped THEN "failed" ELSE @]
  <2>1. AtTorn(g, f, bodies) /\ Cur \in Step  BY StandingFlow, TornValues
  <2>2. s.status \in {"failed", Cur.status}  BY <2>1 DEF Step
  <2> HIDE DEF g
  <2>3. SameReview(g, f) /\ g.current = flow.current /\ g.index = flow.index
    BY <2>1 DEF AtTorn, SamePlace
  <2>4. flow.current = "SELF_CHECK" => g.steps["SELF_CHECK"] = s  BY <2>1 DEF AtTorn
  <2> HIDE DEF s
  <2>5. Scoped(g, reviewed)  BY <2>3, ScopedSame DEF ScopeOf, SameReview
  <2>6. Seen(g) => Seen(flow)  BY <2>2, <2>3, <2>4 DEF Seen, PastReview, Cur
  <2>7. Ahead(g) => Owed(g)  BY <2>3 DEF Ahead, Owed, SameReview, SameRound
  <2>8. ScopeOf(g, code, reviewed)  BY <2>5, <2>6, <2>7 DEF ScopeOf
  <2>9. QED  BY <1>2, <2>8 DEF g
<1>3. QED  BY <1>1, <1>2 DEF Saved

\* Where a step stands: before the review, or behind it.
LEMMA SlotSides ==
  ASSUME Standard, setup \in Setups, NEW f, AtSlot(f), f.status # "completed",
         f.current # "SELF_CHECK"
  PROVE  /\ f.index \in Nat /\ ReviewSlot \in Nat /\ Len(Base) \in Nat
         /\ f.index # ReviewSlot /\ f.index <= Len(Base)
         /\ Ahead(f) \/ PastReview(f)
<1>1. f.index \in 1..Len(Base) /\ Base[f.index] = f.current /\ f.current \notin Dynamic
  BY DEF AtSlot
<1>2. Len(Base) \in Nat /\ ReviewSlot \in 1..Len(Base) /\ Base[ReviewSlot] = "SELF_CHECK"
  BY BaseFacts
<1>3. f.index # ReviewSlot /\ f.index \in Nat /\ ReviewSlot \in Nat  BY <1>1, <1>2
<1>4. f.index < ReviewSlot \/ f.index > ReviewSlot  BY <1>3
<1>5. QED  BY <1>1, <1>2, <1>3, <1>4 DEF Ahead, PastReview

\* A fix that is recorded: nobody has to have seen it yet.
LEMMA FixScope ==
  ASSUME Standard, Standing, Placed(flow), flow.status = "running",
         ScopeOf(flow, code, reviewed), NEW f \in FlowSet, NEW g \in FlowSet, AtFix(g, f),
         f.selected = Base, f.status = "running", HasSlots(f), Grounded(f, code),
         f.fixBaselines = flow.fixBaselines, f.layer >= 1, f.beforeRuling >= 1,
         Scoped(f, reviewed), reviewed >= code \/ (Ahead(flow) /\ SameRound(f, flow))
  PROVE  ScopeOf(g, code, reviewed) /\ Owed(g)
<1> DEFINE n == Len(f.fixBaselines)
<1>1. /\ n \in Nat /\ f.covered \in Nat /\ f.covered <= n /\ f.active \in Rounds
      /\ code \in Nat /\ reviewed \in Nat /\ setup \in Setups
  <2>1. n \in Nat  BY FlowLengths
  <2>2. f.covered \in Nat /\ f.active \in Rounds  BY DEF FlowSet
  <2>3. f.covered <= n  BY DEF Grounded
  <2>4. code \in Nat /\ reviewed \in 0..code /\ setup \in Setups  BY DEF Standing
  <2> HIDE DEF n
  <2>5. QED  BY <2>1, <2>2, <2>3, <2>4
<1>2. /\ SameRound(g, f) /\ g.layer >= 1 /\ g.beforeRuling >= 1 /\ OneMoreFix(g, f)
      /\ g.current = "IMPLEMENT" /\ g.status = "running"  BY DEF AtFix, SameLayers
<1>3. /\ Len(g.fixBaselines) = n + 1 /\ g.fixBaselines[n + 1].at = code
      /\ \A i \in 1..n : g.fixBaselines[i] = f.fixBaselines[i]  BY <1>2 DEF OneMoreFix
<1>4. g.covered = f.covered /\ g.active = f.active  BY <1>2 DEF SameRound
<1>5. Owed(g)
  <2>1. g.covered < Len(g.fixBaselines)  BY <1>1, <1>3, <1>4
  <2>2. QED  BY <2>1 DEF Owed
<1>6. ASSUME g.active = NoRound, g.fullOccurred, ~g.forced
      PROVE  g.fixBaselines[g.covered + 1].at <= reviewed
  <2>1. CASE f.covered < n
    <3>1. f.covered + 1 \in 1..n  BY <1>1, <2>1
    <3>2. f.fixBaselines[f.covered + 1].at <= reviewed
      BY <1>2, <1>6, <2>1 DEF SameRound, Scoped, NextReaches
    <3>3. QED  BY <1>3, <1>4, <3>1, <3>2
  <2>2. CASE f.covered = n
    <3>1. ~(Ahead(flow) /\ SameRound(f, flow))
      <4> SUFFICES ASSUME Ahead(flow), SameRound(f, flow) PROVE FALSE  OBVIOUS
      <4>1. Owed(flow)  BY DEF ScopeOf
      <4>2. flow.covered < Len(flow.fixBaselines)  BY <1>2, <1>6, <4>1 DEF Owed, SameRound
      <4>3. QED  BY <1>1, <2>2, <4>2 DEF SameRound
    <3>2. code <= reviewed  BY <1>1, <3>1
    <3>3. QED  BY <1>3, <1>4, <2>2, <3>2
  <2>3. QED  BY <1>1, <2>1, <2>2
<1>7. RoundReaches(g, reviewed)
  <2> SUFFICES ASSUME g.active # NoRound
               PROVE  /\ g.fingerprint = g.active.layer /\ g.active.layer >= 1
                      /\ g.active.mode = "incremental" =>
                           g.active.base > 0 /\ g.fixBaselines[g.active.base].at <= reviewed
    BY DEF RoundReaches
  <2>1. /\ f.fingerprint = f.active.layer /\ f.active.layer >= 1
        /\ f.active.mode = "incremental" =>
             f.active.base > 0 /\ f.fixBaselines[f.active.base].at <= reviewed
    BY <1>4 DEF Scoped, RoundReaches
  <2>2. f.active.base \in Nat /\ f.active.base <= n
    BY <1>1, <1>4, NoRoundIsNone DEF Round, Grounded
  <2>3. f.active.base > 0 => g.fixBaselines[f.active.base] = f.fixBaselines[f.active.base]
    BY <1>1, <1>3, <2>2
  <2>4. QED  BY <1>2, <1>4, <2>1, <2>3 DEF SameRound
<1>8. Scoped(g, reviewed)  BY <1>2, <1>6, <1>7 DEF Scoped, NextReaches
<1>9. ~Seen(g)
  <2>1. Placed(g)  BY <1>1, FixPlace
  <2>2. ~PastReview(g)  BY <1>1, <1>2, <2>1, FixBeforeReview
  <2>3. QED  BY <1>2, <2>2 DEF Seen, Dynamic
<1>10. QED  BY <1>5, <1>8, <1>9 DEF ScopeOf

\* After a pass a round may be closed: it has seen the code.
LEMMA ClosedScope ==
  ASSUME Standing, ScopeOf(flow, code, reviewed), Seen(flow), NEW f \in FlowSet,
         Grounded(f, code), SameLayers(f, flow), f.active = NoRound
  PROVE  Scoped(f, reviewed)
<1>1. code \in Nat /\ reviewed \in Nat /\ reviewed >= code  BY DEF Standing, ScopeOf
<1>2. f.layer >= 1 /\ f.beforeRuling >= 1  BY DEF SameLayers, ScopeOf, Scoped
<1>3. QED  BY <1>1, <1>2, ScopedSeen

\* What the flow is when it leaves a step.
LEMMA DepartedScope ==
  ASSUME Standing, ScopeOf(flow, code, reviewed), Cur.status = "completed"
  PROVE  Scoped(Departed, reviewed)
<1>1. /\ Departed \in FlowSet /\ Grounded(Departed, code) /\ SameLayers(Departed, flow)
      /\ Departed.fixBaselines = flow.fixBaselines
      /\ flow.current = "SELF_CHECK" => Departed.active = NoRound
      /\ flow.current # "SELF_CHECK" => SameRound(Departed, flow)
  BY StandingFlow, DepartedValues, DepartedGround
<1>2. CASE flow.current = "SELF_CHECK"  BY <1>1, <1>2, ClosedScope DEF Seen, Cur
<1>3. CASE flow.current # "SELF_CHECK"  BY <1>1, <1>3, ScopedSame DEF ScopeOf
<1>4. QED  BY <1>2, <1>3

LEMMA AdvancedScope ==
  ASSUME NEW f \in FlowSet, NEW r, Scoped(f, r)
  PROVE  Scoped(AdvancePass(f), r)
<1> DEFINE g == AdvancePass(f)  a == [f.active EXCEPT !.pass = @ + 1]
<1>1. CASE f.active = NoRound  BY <1>1 DEF AdvancePass
<1>2. CASE f.active # NoRound
  <2>1. f.active \in Round  BY <1>2, NoRoundIsNone DEF FlowSet
  <2>2. g = [f EXCEPT !.active = a]  BY <1>2, <2>1 DEF AdvancePass, FlowSet, Round
  <2>3. a.mode = f.active.mode /\ a.layer = f.active.layer /\ a.base = f.active.base
    BY <2>1 DEF Round
  <2> HIDE DEF a
  <2>4. /\ g.active = a /\ g.fingerprint = f.fingerprint /\ g.fixBaselines = f.fixBaselines
        /\ g.layer = f.layer /\ g.beforeRuling = f.beforeRuling  BY <2>2 DEF FlowSet
  <2>5. g.active # NoRound  BY <2>1, <2>4, AdvancePassValues, NoRoundIsNone, <1>2
  <2> HIDE DEF g
  <2>6. RoundReaches(g, r)  BY <1>2, <2>3, <2>4 DEF RoundReaches, Scoped
  <2>7. QED  BY <2>4, <2>5, <2>6 DEF Scoped, NextReaches, g
<1>3. QED  BY <1>1, <1>2

\* Into the review, from wherever a round that begins reaches back far enough.
LEMMA EntersScope ==
  ASSUME Standing, ScopeOf(flow, code, reviewed), NEW h \in FlowSet, Grounded(h, code),
         Scoped(h, reviewed), NEW i \in Nat, NEW a \in BOOLEAN,
         Saved(EnterSelfCheck(h, i, a), flow.steps)
  PROVE  ScopeOf(flow', code, reviewed)
<1> DEFINE f == EnterSelfCheck(h, i, a)
<1>1. EnteredSelfCheck(f, h, i) /\ Scoped(f, reviewed) /\ Saved(f, flow.steps)
  BY EnterSelfCheckValues, ScopedEntered
<1> HIDE DEF f
<1>2. f \in FlowSet /\ ScopeOf(f, code, reviewed) /\ Owed(f)
  BY <1>1, EnteredScope DEF EnteredSelfCheck
<1>3. flow.steps \in [Types -> Step] /\ (flow.current = "SELF_CHECK" => flow.steps["SELF_CHECK"] = Cur)
  BY StandingFlow DEF Cur
<1>4. QED  BY <1>1, <1>2, <1>3, SavedScope

\* Out of the review, or past it, the code was seen.
LEMMA SeenScope ==
  ASSUME Standing, ScopeOf(flow, code, reviewed), Seen(flow), ~Ahead(flow),
         NEW f \in FlowSet, Saved(f, flow.steps), Scoped(f, reviewed), Ahead(f) => Owed(f)
  PROVE  ScopeOf(flow', code, reviewed)
<1>1. flow.steps \in [Types -> Step] /\ (flow.current = "SELF_CHECK" => flow.steps["SELF_CHECK"] = Cur)
  BY StandingFlow DEF Cur
<1>2. ScopeOf(f, code, reviewed)  BY DEF ScopeOf
<1>3. QED  BY <1>1, <1>2, SavedScope

LEMMA MarkedScope ==
  ASSUME Standing, ScopeOf(flow, code, reviewed), Cur.status = "revision"
  PROVE  /\ Scoped(Marked, reviewed) /\ Marked.layer >= 1 /\ Marked.beforeRuling >= 1
         /\ flow.current # "SELF_CHECK" => SameRound(Marked, flow)
<1>1. /\ Marked \in FlowSet /\ Grounded(Marked, code) /\ SameLayers(Marked, flow)
      /\ flow.current = "SELF_CHECK" => Marked.active = NoRound  BY MarkedValues
<1>2. Marked.layer >= 1 /\ Marked.beforeRuling >= 1  BY <1>1 DEF SameLayers, ScopeOf, Scoped
<1>3. CASE flow.current = "SELF_CHECK"
  <2>1. Seen(flow)  BY <1>3 DEF Seen, Cur
  <2>2. QED  BY <1>1, <1>2, <1>3, <2>1, ClosedScope
<1>4. CASE flow.current # "SELF_CHECK"
  <2>1. Marked = flow  BY <1>4 DEF Marked
  <2>2. QED  BY <1>2, <1>4, <2>1 DEF ScopeOf, SameRound
<1>5. QED  BY <1>3, <1>4

LEMMA AdvanceScope ==
  ASSUME Standard, Standing, Placed(flow), FindingsAt(flow, open),
         ScopeOf(flow, code, reviewed), NEW a \in BOOLEAN, Advance(a)
  PROVE  ScopeOf(flow', code, reviewed)
<1> DEFINE i == flow.index + 1  t == flow.selected[i]
           f == IF t = "SELF_CHECK" THEN EnterSelfCheck(Departed, i, a) ELSE Entered(t)
<1>1. /\ Onward /\ flow.status = "running" /\ i \in 2..Len(flow.selected) /\ f \in FlowSet
      /\ Saved(f, flow.steps) /\ f.index = i /\ f.current = t
      /\ t # "SELF_CHECK" => SameReview(f, Departed)  BY AdvanceDoes DEF FlowOK
<1>2. AtSlot(flow) /\ Cur.status = "completed"  BY <1>1, OnwardFindings
<1>3. /\ Scoped(Departed, reviewed) /\ Departed \in FlowSet /\ Grounded(Departed, code)
      /\ flow.current # "SELF_CHECK" => SameRound(Departed, flow)
  BY <1>2, StandingFlow, DepartedScope, DepartedValues, DepartedGround
<1>4. /\ setup \in Setups /\ flow.steps \in [Types -> Step]
      /\ flow.current = "SELF_CHECK" => flow.steps["SELF_CHECK"] = Cur
  BY StandingFlow DEF Cur, Standing
<1>5. CASE t = "SELF_CHECK"
  <2>1. f = EnterSelfCheck(Departed, i, a) /\ i \in Nat  BY <1>1, <1>5
  <2> HIDE DEF f, i
  <2>2. QED  BY <1>1, <1>3, <2>1, EntersScope
<1>6. CASE t # "SELF_CHECK"
  <2> HIDE DEF f, t
  <2>1. Scoped(f, reviewed)  BY <1>1, <1>3, <1>6, ScopedSame DEF SameReview
  <2>2. flow.index \in Nat /\ ReviewSlot \in Nat
    BY <1>4, BaseFacts, StandingFlow DEF FlowSet
  <2>3. CASE flow.current = "SELF_CHECK"
    <3>1. flow.index = ReviewSlot  BY <1>1, <2>3, ReviewPlace
    <3>2. ~(f.index < ReviewSlot)  BY <1>1, <2>2, <3>1
    <3>3. Seen(flow) /\ ~Ahead(flow) /\ ~Ahead(f)  BY <1>2, <2>3, <3>2 DEF Seen, Ahead, Cur
    <3>4. QED  BY <1>1, <2>1, <3>3, SeenScope
  <2>4. CASE flow.current # "SELF_CHECK"
    <3>1. Ahead(flow) \/ PastReview(flow)  BY <1>1, <1>2, <1>4, <2>4, SlotSides
    <3>2. CASE PastReview(flow)
      <4>1. flow.index > ReviewSlot  BY <3>2 DEF PastReview
      <4>2. ~(flow.index < ReviewSlot) /\ ~(f.index < ReviewSlot)  BY <1>1, <2>2, <4>1
      <4>3. Seen(flow) /\ ~Ahead(flow) /\ ~Ahead(f)  BY <3>2, <4>2 DEF Seen, Ahead
      <4>4. QED  BY <1>1, <2>1, <4>3, SeenScope
    <3>3. CASE Ahead(flow)
      <4>1. Owed(flow) /\ flow.index < ReviewSlot  BY <3>3 DEF ScopeOf, Ahead
      <4>2. SameRound(f, flow) /\ f.fixBaselines = flow.fixBaselines
        BY <1>1, <1>3, <1>6, <2>4, DepartedValues, StandingFlow DEF SameReview, SameRound
      <4>3. Owed(f)  BY <4>1, <4>2 DEF Owed, SameRound
      <4>4. ~(f.index > ReviewSlot)  BY <1>1, <2>2, <4>1
      <4>5. t \notin Dynamic  BY <1>1, <1>2, <1>4, BaseFacts DEF AtSlot, t
      <4>6. ~Seen(f)  BY <1>1, <1>6, <4>4, <4>5 DEF Seen, PastReview
      <4>7. ScopeOf(f, code, reviewed)  BY <2>1, <4>3, <4>6 DEF ScopeOf
      <4>8. QED  BY <1>1, <1>4, <4>3, <4>7, SavedScope
    <3>4. QED  BY <3>1, <3>2, <3>3
  <2>5. QED  BY <2>3, <2>4
<1>7. QED  BY <1>5, <1>6

LEMMA ToNewStepScope ==
  ASSUME Standard, Standing, Placed(flow), FindingsAt(flow, open),
         ScopeOf(flow, code, reviewed), ToNewStep
  PROVE  ScopeOf(flow', code', reviewed')
<1>1. UNCHANGED <<code, reviewed>> /\ flow \in FlowSet /\ flow.index \in Nat
  BY StandingFlow, TransitionsLeave DEF FlowSet
<1>2. CASE LoopToAdjudicate
  <2> DEFINE f == ToAdjudicate(Marked)
  <2>1. /\ flow.current = "SELF_CHECK" /\ Cur.status = "revision" /\ f \in FlowSet
        /\ Saved(f, flow.steps)  BY <1>2, LoopToAdjudicateDoes DEF FlowOK
  <2>2. PICK at \in 1..Len(flow.selected) : AtInserted(f, Marked, at, "ADJUDICATE", Ruling(Marked))
    BY <1>2, LoopToAdjudicateDoes
  <2> HIDE DEF f
  <2>3. SameReview(f, Marked) /\ f.current = "ADJUDICATE"  BY <2>2 DEF AtInserted
  <2>4. Scoped(f, reviewed)  BY <2>1, <2>3, MarkedScope, ScopedSame DEF SameReview
  <2>5. Seen(flow) /\ ~Ahead(flow) /\ ~Ahead(f)  BY <2>1, <2>3 DEF Seen, Ahead, Dynamic, Cur
  <2>6. QED  BY <1>1, <2>1, <2>4, <2>5, SeenScope
<1>3. CASE RescueToAdjudicate
  <2>1. RescueDue  BY <1>3, RescueToAdjudicateDoes
  <2>2. QED  BY <2>1, NothingHeld DEF RescueDue, Leaving
<1>4. CASE ConfirmRuling
  <2> DEFINE f == ToConfirm
  <2>1. flow.current = "ADJUDICATE" /\ f \in FlowSet /\ Saved(f, flow.steps)
    BY <1>4, ConfirmRulingDoes DEF FlowOK
  <2>2. PICK g : /\ AtInserted(g, flow, flow.index + 1, "CONFIRM", NewStep)
                 /\ SameReview(f, g) /\ f.current = g.current  BY <1>4, ConfirmRulingDoes
  <2> HIDE DEF f
  <2>3. f.current = "CONFIRM" /\ SameReview(g, flow)  BY <2>2 DEF AtInserted
  <2>4. Scoped(f, reviewed)
    <3>1. Scoped(g, reviewed)  BY <2>3, ScopedSame DEF ScopeOf, SameReview
    <3>2. QED  BY <2>2, <3>1, ScopedSame DEF SameReview
  <2>5. Seen(flow) /\ ~Ahead(flow) /\ ~Ahead(f)  BY <2>1, <2>3 DEF Seen, Ahead, Dynamic
  <2>6. QED  BY <1>1, <2>1, <2>4, <2>5, SeenScope
<1>5. ASSUME NEW a \in BOOLEAN, LandRuling(a) PROVE ScopeOf(flow', code', reviewed')
  <2> DEFINE i == StripAdjudicateRun(flow).selfCheck
  <2>1. Saved(EnterSelfCheck(Landed, i, a), flow.steps)  BY <1>5, LandRulingDoes
  <2>2. /\ Landed \in FlowSet /\ Grounded(Landed, code) /\ SameLayers(Landed, flow)
        /\ Landed.active = NoRound /\ Landed.forced  BY LandedValues
  <2>3. i \in 1..Len(Unspliced.selected)  BY UnsplicedValues
  <2>4. Landed.layer >= 1 /\ Landed.beforeRuling >= 1
    BY <2>2 DEF SameLayers, ScopeOf, Scoped
  <2>5. Scoped(Landed, reviewed)  BY <2>2, <2>4, ScopedForced
  <2> HIDE DEF i
  <2>6. QED  BY <1>1, <2>1, <2>2, <2>3, <2>5, EntersScope
<1>6. ASSUME NEW a \in BOOLEAN, Reflow(a) PROVE ScopeOf(flow', code', reviewed')
  <2> DEFINE i == IndexOf(flow, "SELF_CHECK")
  <2>1. i \in 1..Len(flow.selected) /\ Saved(EnterSelfCheck(flow, i, a), flow.steps)
    BY <1>6, ReflowDoes
  <2> HIDE DEF i
  <2>2. Scoped(flow, reviewed) /\ Grounded(flow, code)  BY StandingFlow DEF ScopeOf
  <2>3. QED  BY <1>1, <2>1, <2>2, EntersScope
<1>7. ASSUME NEW a \in BOOLEAN, RepeatPass(a) PROVE ScopeOf(flow', code', reviewed')
  <2> DEFINE m == Mirrored  h == AdvancePass(m)
  <2>1. Saved(EnterSelfCheck(h, flow.index, a), flow.steps)  BY <1>7, RepeatPassDoes
  <2>2. /\ m \in FlowSet /\ SameRound(m, flow) /\ SameLayers(m, flow)
        /\ m.fixBaselines = flow.fixBaselines /\ Grounded(m, code) /\ HasSlots(m)
    BY <1>1, MirroredValues, MirroredGround
  <2> HIDE DEF m
  <2>3. Scoped(m, reviewed)  BY <2>2, ScopedSame DEF ScopeOf
  <2>4. Scoped(h, reviewed)  BY <2>2, <2>3, AdvancedScope
  <2>5. h \in FlowSet /\ Grounded(h, code)
    <3>1. /\ h \in FlowSet /\ SamePlace(h, m) /\ SameLayers(h, m)
          /\ h.fixBaselines = m.fixBaselines /\ h.covered = m.covered
          /\ m.active = NoRound => h.active = NoRound
          /\ m.active # NoRound => h.active.base = m.active.base
      BY <2>2, AdvancePassValues
    <3> HIDE DEF h
    <3>2. QED  BY <2>2, <3>1, SlotsAndGround DEF SamePlace
  <2> HIDE DEF h
  <2>6. QED  BY <1>1, <2>1, <2>4, <2>5, EntersScope
<1>8. ASSUME NEW a \in BOOLEAN, RescuePass(a) PROVE ScopeOf(flow', code', reviewed')
  <2>1. flow.current = "SELF_CHECK" /\ Cur.status = "completed" /\ Unflushed
    BY <1>8, RescuePassDoes
  <2>2. QED  BY <2>1, NothingHeld
<1>9. ASSUME NEW a \in BOOLEAN, CloseWithFullRound(a) PROVE ScopeOf(flow', code', reviewed')
  <2> DEFINE m == Mirrored  h == CompleteClean(m)
  <2>1. /\ flow.current = "SELF_CHECK" /\ Cur.status = "completed"
        /\ Saved(EnterSelfCheck(h, flow.index, a), flow.steps)
        /\ SameLayers(h, flow) /\ h.active = NoRound
    BY <1>9, CloseDoes DEF CloseWithFullRound, RoundOver, Leaving
  <2>2. m \in FlowSet /\ Grounded(m, code)  BY <1>1, MirroredValues, MirroredGround
  <2> HIDE DEF m
  <2>3. /\ h \in FlowSet /\ SameLayers(h, m) /\ h.fixBaselines = m.fixBaselines
        /\ h.covered = m.covered  BY <2>2, CompleteCleanValues
  <2> HIDE DEF h
  <2>4. Grounded(h, code)  BY <2>1, <2>2, <2>3, GroundKept
  <2>5. Seen(flow)  BY <2>1 DEF Seen, Cur
  <2>6. Scoped(h, reviewed)  BY <2>1, <2>3, <2>4, <2>5, ClosedScope
  <2>7. QED  BY <1>1, <2>1, <2>3, <2>4, <2>6, EntersScope
<1>10. ASSUME NEW a \in BOOLEAN, Advance(a) PROVE ScopeOf(flow', code', reviewed')
  BY <1>1, <1>10, AdvanceScope
<1>11. QED  BY <1>2, <1>3, <1>4, <1>5, <1>6, <1>7, <1>8, <1>9, <1>10 DEF ToNewStep

LEMMA ToKnownStepScope ==
  ASSUME Standard, Standing, Placed(flow), FindingsAt(flow, open),
         ScopeOf(flow, code, reviewed), ToKnownStep
  PROVE  ScopeOf(flow', code', reviewed')
<1>1. /\ UNCHANGED <<code, reviewed>> /\ flow \in FlowSet /\ flow.index \in Nat
      /\ setup \in Setups /\ flow.steps \in [Types -> Step]
      /\ flow.current = "SELF_CHECK" => flow.steps["SELF_CHECK"] = Cur
  BY StandingFlow, TransitionsLeave DEF FlowSet, Standing, Cur
<1>2. CASE ContinueImplement
  <2> DEFINE f == Continued
  <2>1. /\ flow.current = "IMPLEMENT" /\ f \in FlowSet /\ SameButSteps(f, flow)
        /\ Counted.steps \in [Types -> Step] /\ Saved(f, Counted.steps)
    BY <1>2, ContinueDoes DEF FlowOK
  <2> HIDE DEF f
  <2>2. /\ SameReview(f, flow) /\ f.current = flow.current /\ f.index = flow.index
    BY <2>1 DEF SameButSteps, SamePlace
  <2>3. f.layer >= 1 /\ f.beforeRuling >= 1
    BY <2>2 DEF SameReview, SameLayers, ScopeOf, Scoped
  <2>4. ScopeOf(f, code, reviewed)  BY <2>1, <2>2, <2>3, StepScope DEF SameReview
  <2>5. Ahead(flow) => Owed(f)  BY <2>2 DEF ScopeOf, Owed, SameReview, SameRound
  <2>6. QED  BY <1>1, <2>1, <2>4, <2>5, SavedScope
<1>3. CASE FixesExhausted
  <2>1. StepAndStatus(flow', flow, Cur, "failed")  BY <1>1, <1>3, FixesExhaustedDoes
  <2>2. QED  BY <1>1, <2>1, StepToScope
<1>4. CASE Complete
  <2> DEFINE f == Ended
  <2>1. /\ Onward /\ flow.status = "running" /\ flow.index >= Len(flow.selected)
        /\ f \in FlowSet /\ Saved(f, flow.steps) /\ SameReview(f, Departed)
        /\ f.index = Len(flow.selected) + 1  BY <1>4, CompleteDoes DEF FlowOK
  <2> HIDE DEF f
  <2>2. AtSlot(flow) /\ Cur.status = "completed" /\ flow.selected = Base
    BY <2>1, OnwardFindings DEF AtSlot
  <2>3. Scoped(f, reviewed)  BY <2>1, <2>2, DepartedScope, ScopedSame DEF SameReview
  <2>4. ReviewSlot \in Nat /\ Len(Base) \in Nat /\ ReviewSlot < Len(Base)
    BY <1>1, BaseFacts
  <2>5. flow.index > ReviewSlot /\ ~(flow.index < ReviewSlot) /\ ~(f.index < ReviewSlot)
    BY <1>1, <2>1, <2>2, <2>4
  <2>6. flow.current # "SELF_CHECK" /\ flow.current \notin Dynamic
    <3>1. flow.current = "SELF_CHECK" => flow.index = ReviewSlot  BY <2>1, ReviewPlace
    <3>2. QED  BY <2>2, <2>4, <2>5, <3>1 DEF AtSlot
  <2>7. Seen(flow) /\ ~Ahead(flow) /\ ~Ahead(f)  BY <2>5, <2>6 DEF Seen, PastReview, Ahead
  <2>8. QED  BY <1>1, <2>1, <2>3, <2>7, SeenScope
<1>5. ASSUME NEW a \in BOOLEAN, LoopToFix(a) PROVE ScopeOf(flow', code', reviewed')
  <2> DEFINE g == ToFix(Marked, a)
  <2>1. /\ flow.status = "running" /\ Cur.status = "revision"
        /\ flow.current \in Gates \cup {"SELF_CHECK"}
        /\ g \in FlowSet /\ AtFix(g, Marked) /\ Saved(g, flow.steps)
    BY <1>5, LoopToFixDoes DEF FlowOK
  <2> HIDE DEF g
  <2>2. AtSlot(flow) /\ flow.selected = Base  BY <2>1, PlaceIs DEF Gates, Dynamic, AtSlot
  <2>3. /\ Marked \in FlowSet /\ Marked.status = "running" /\ Marked.selected = Base
        /\ HasSlots(Marked) /\ Grounded(Marked, code)
        /\ Marked.fixBaselines = flow.fixBaselines
    BY <2>1, <2>2, MarkedValues DEF SamePlace
  <2>4. /\ Scoped(Marked, reviewed) /\ Marked.layer >= 1 /\ Marked.beforeRuling >= 1
        /\ flow.current # "SELF_CHECK" => SameRound(Marked, flow)  BY <2>1, MarkedScope
  <2>5. Seen(flow) \/ (Ahead(flow) /\ flow.current # "SELF_CHECK")
    <3>1. CASE flow.current = "SELF_CHECK"  BY <2>1, <3>1 DEF Seen, Cur
    <3>2. CASE flow.current # "SELF_CHECK"
      <4>1. Ahead(flow) \/ PastReview(flow)  BY <1>1, <2>1, <2>2, <3>2, SlotSides
      <4>2. QED  BY <3>2, <4>1 DEF Seen
    <3>3. QED  BY <3>1, <3>2
  <2>6. reviewed >= code \/ (Ahead(flow) /\ SameRound(Marked, flow))
    BY <2>4, <2>5 DEF ScopeOf
  <2>7. ScopeOf(g, code, reviewed) /\ Owed(g)  BY <2>1, <2>3, <2>4, <2>6, FixScope
  <2>8. QED  BY <1>1, <2>1, <2>7, SavedScope
<1>6. ASSUME NEW a \in BOOLEAN, PassThroughRuling(a) PROVE ScopeOf(flow', code', reviewed')
  <2> DEFINE f == Unspliced  g == ToFix(f, a)
  <2>1. /\ flow.status = "running" /\ flow.current = "ADJUDICATE"
        /\ g \in FlowSet /\ AtFix(g, f) /\ Saved(g, flow.steps)
    BY <1>6, PassThroughRulingDoes DEF FlowOK
  <2>2. PICK k \in Nat : Spliced(flow.selected, k)  BY <2>1, PlaceIs DEF InRuling, Dynamic
  <2>3. f.selected = Base  BY <2>1, <2>2, StripSpliced, UnsplicedValues
  <2>4. /\ f \in FlowSet /\ HasSlots(f) /\ f.status = "running" /\ Grounded(f, code)
        /\ SameReview(f, flow)  BY <2>1, UnsplicedValues
  <2> HIDE DEF f, g
  <2>5. /\ Scoped(f, reviewed) /\ f.fixBaselines = flow.fixBaselines
        /\ f.layer >= 1 /\ f.beforeRuling >= 1
    BY <2>4, ScopedSame DEF ScopeOf, SameReview, Scoped
  <2>6. reviewed >= code  BY <2>1 DEF ScopeOf, Seen, Dynamic
  <2>7. ScopeOf(g, code, reviewed) /\ Owed(g)  BY <2>1, <2>3, <2>4, <2>5, <2>6, FixScope
  <2>8. QED  BY <1>1, <2>1, <2>7, SavedScope
<1>7. ASSUME NEW a \in BOOLEAN, ToRevision(a) PROVE ScopeOf(flow', code', reviewed')
  <2> DEFINE f == Returned(a)  g == Rejected(a)
  <2>1. /\ flow.status = "running" /\ flow.current = "CONFIRM" /\ f \in FlowSet
        /\ Saved(f, flow.steps) /\ f.current = flow.reviews /\ SameReview(f, g)
    BY <1>7, ToRevisionDoes DEF FlowOK
  <2>2. flow.reviews = "ADJUDICATE"  BY <2>1, PlaceIs DEF InRuling, Dynamic
  <2>3. /\ SameRound(g, flow) /\ g.fixBaselines = flow.fixBaselines
        /\ g.layer = flow.beforeRuling /\ g.beforeRuling = flow.beforeRuling
    BY <2>2, RejectedValues
  <2> HIDE DEF f, g
  <2>4. Scoped(g, reviewed)  BY <2>3, ScopedAs DEF ScopeOf, Scoped
  <2>5. Scoped(f, reviewed)  BY <2>1, <2>4, ScopedSame DEF SameReview
  <2>6. Seen(flow) /\ ~Ahead(flow) /\ ~Ahead(f)  BY <2>1, <2>2 DEF Seen, Ahead, Dynamic
  <2>7. QED  BY <1>1, <2>1, <2>5, <2>6, SeenScope
<1>8. ASSUME NEW a \in BOOLEAN, RescueToFix(a) PROVE ScopeOf(flow', code', reviewed')
  <2>1. RescueDue  BY <1>8, RescueToFixDoes
  <2>2. QED  BY <2>1, NothingHeld DEF RescueDue, Leaving
<1>9. QED  BY <1>2, <1>3, <1>4, <1>5, <1>6, <1>7, <1>8 DEF ToKnownStep

\* A restart that is not behind the review reaches back as far as it then did.
LEMMA RestartScope ==
  ASSUME Standard, SequenceInv, NEW i \in 1..Len(history), NEW r \in BOOLEAN, NEW u \in BOOLEAN,
         Restart(i, r, u), ~behind', ScopeOf(history[i].flow, history[i].code, reviewed)
  PROVE  ScopeOf(flow', code', reviewed')
<1> DEFINE e == history[i]  b == e.flow  g == Restored(i, LayersThen(r), NewestThen(r))
<1>1. /\ FlowOK(g, code) /\ SamePlace(g, b) /\ SameRound(g, b)
      /\ g.fixBaselines = b.fixBaselines /\ flow' = Rebuilt(g, u)
      /\ UNCHANGED <<code, reviewed>> /\ ~WentBehind(i, flow')
      /\ g.layer >= 1 /\ g.beforeRuling >= 1
  <2>1. /\ FlowOK(g, code) /\ SamePlace(g, b) /\ SameRound(g, b)
        /\ g.fixBaselines = b.fixBaselines /\ flow' = Rebuilt(g, u)
        /\ UNCHANGED <<code, reviewed>> /\ ~WentBehind(i, flow')
        /\ LayersThen(r) \in Nat /\ flow.layers <= LayersThen(r)
        /\ NewestThen(r) \in 1..LayersThen(r)
    BY RestartDoes, Zenon DEF SequenceInv, RewindInv, RestartedFlow
  <2> DEFINE l == LayersThen(r)  n == NewestThen(r)
  <2>2. g.layer >= n /\ g.beforeRuling >= n  BY <2>1, RestoredValues, Zenon DEF SequenceInv
  <2>3. g.layer \in Nat /\ g.beforeRuling \in Nat /\ n \in Nat /\ n >= 1
    BY <2>1 DEF FlowOK, FlowSet
  <2> HIDE DEF n, g, e, b
  <2>4. g.layer >= 1 /\ g.beforeRuling >= 1  BY <2>2, <2>3
  <2>5. QED  BY <2>1, <2>4
<1>2. /\ Placed(b) /\ b.status = "running" /\ setup \in Setups /\ ScopeOf(b, e.code, reviewed)
  BY Zenon DEF SequenceInv, RewindInv, EntryOK, Standing
<1>3. b.current # "SELF_CHECK" /\ flow'.current # "SELF_CHECK"
        /\ (b.index > IndexOf(b, "SELF_CHECK") \/ "ADJUDICATE" \in Range(b.selected))
          => code = e.code  BY <1>1 DEF WentBehind
<1> HIDE DEF e, b, g
<1>4. g.status = "running" /\ g.current = b.current /\ g.index = b.index /\ g \in FlowSet
  BY <1>1, <1>2 DEF SamePlace, FlowOK
<1>5. Scoped(g, reviewed)  BY <1>1, <1>2, ScopedAs DEF ScopeOf
<1>6. /\ flow'.current = b.current /\ flow'.index = b.index
      /\ b.current = "SELF_CHECK" => flow' = EnterSelfCheck(g, g.index, u)
      /\ b.current # "SELF_CHECK" => SameReview(flow', g)  BY <1>1, <1>4, RebuiltValues
<1>7. CASE b.current = "SELF_CHECK"
  <2>1. Grounded(g, code) /\ g.index \in Nat  BY <1>1, <1>4 DEF FlowOK, FlowSet
  <2>2. Scoped(flow', reviewed) /\ EnteredSelfCheck(flow', g, g.index)
    BY <1>4, <1>5, <1>6, <1>7, <2>1, ScopedEntered, EnterSelfCheckValues
  <2>3. QED  BY <1>1, <2>2, EnteredScope
<1>8. CASE b.current # "SELF_CHECK"
  <2>1. Scoped(flow', reviewed)  BY <1>5, <1>6, <1>8, ScopedSame DEF SameReview
  <2>2. Ahead(flow') => Owed(flow')
    <3>1. Ahead(flow') => Ahead(b)  BY <1>6 DEF Ahead
    <3>2. SameRound(flow', b) /\ flow'.fixBaselines = b.fixBaselines
      BY <1>1, <1>6, <1>8 DEF SameReview, SameRound
    <3>3. QED  BY <1>2, <3>1, <3>2 DEF ScopeOf, Owed, SameRound
  <2>3. Seen(flow') => Seen(b)  BY <1>6, <1>8 DEF Seen, PastReview
  <2>4. Seen(b) => code = e.code
    <3>1. CASE b.current \in Dynamic
      <4>1. PICK k \in Nat : Spliced(b.selected, k)
        BY <1>2, <3>1 DEF Placed, AtSlot, InRuling
      <4>2. ReviewSlot \in 1..Len(Base) /\ Len(Base) \in Nat  BY <1>2, BaseFacts
      <4>3. ReviewSlot \in 1..Len(b.selected) /\ ~(ReviewSlot < ReviewSlot)
        BY <4>1, <4>2 DEF Spliced
      <4>4. b.selected[ReviewSlot] = "ADJUDICATE"  BY <4>1, <4>3 DEF Spliced
      <4>5. "ADJUDICATE" \in Range(b.selected)
        <5>1. ReviewSlot \in DOMAIN b.selected
          <6>1. b.selected \in Seq(Types)  BY <1>1, <1>4 DEF SamePlace, FlowSet
          <6>2. QED  BY <4>3, <6>1
        <5>2. QED  BY <4>4, <5>1 DEF Range
      <4>6. QED  BY <1>3, <1>6, <1>8, <4>5
    <3>2. CASE PastReview(b)
      <4>1. b.selected = Base  BY <1>2, <3>2 DEF PastReview, Placed, AtSlot, InRuling
      <4>2. IndexOf(b, "SELF_CHECK") = ReviewSlot  BY <4>1 DEF IndexOf, ReviewSlot
      <4>3. QED  BY <1>3, <1>6, <1>8, <3>2, <4>2 DEF PastReview
    <3>3. QED  BY <1>8, <3>1, <3>2 DEF Seen
  <2>5. QED  BY <1>1, <1>2, <2>1, <2>2, <2>3, <2>4 DEF ScopeOf
<1>9. QED  BY <1>7, <1>8

\* What has been reviewed stays reviewed.
LEMMA ReviewedGrows ==
  ASSUME RewindInv, [RewindNext]_rvars
  PROVE  reviewed \in Nat /\ reviewed' \in Nat /\ reviewed <= reviewed'
<1>1. Standing /\ code \in Nat /\ reviewed \in 0..code  BY DEF RewindInv, Standing
<1>2. reviewed' = reviewed \/ reviewed' = code
  <2>1. CASE Handlers
    BY <2>1 DEF Handlers, FinishPlain, Fail, Resume, FinishImplement, FinishGate,
                FinishSelfCheck, FinishAdjudicate, FinishConfirm
  <2>2. CASE Operator  BY <2>2 DEF Operator, Retry, Skip, GiveUp, Revise
  <2>3. CASE Begin  BY <2>3 DEF Begin, Start, StartSelfCheck
  <2>4. CASE ToNewStep \/ ToKnownStep  BY <2>4, TransitionsLeave
  <2>5. CASE Stopped \/ UNCHANGED rvars  BY <2>5 DEF Stopped, rvars, vars
  <2>6. ASSUME NEW i \in 1..Len(history), NEW r \in BOOLEAN, NEW u \in BOOLEAN, Restart(i, r, u)
        PROVE  reviewed' = reviewed  BY <2>6, RestartDoes
  <2>7. QED  BY <2>1, <2>2, <2>3, <2>4, <2>5, <2>6
    DEF RewindNext, Enters, Adds, Revises, LeavesHistory, Operator
<1>3. QED  BY <1>1, <1>2

LEMMA ScopeLater ==
  ASSUME NEW f \in FlowSet, NEW c \in Nat, Grounded(f, c), NEW r \in Nat, NEW q \in Nat, r <= q,
         ScopeOf(f, c, r)
  PROVE  ScopeOf(f, c, q)
<1>1. Scoped(f, q)  BY ScopedLater DEF ScopeOf
<1>2. r >= c => q >= c  OBVIOUS
<1>3. QED  BY <1>1, <1>2 DEF ScopeOf

LEMMA ScopeStays ==
  ASSUME setup' = setup
  PROVE  /\ ScopeOf(flow', code', reviewed') => ScopeOf(flow, code, reviewed)'
         /\ \A i : ScopeOf(history'[i].flow, history'[i].code, reviewed')
                      => ScopeOf(history[i].flow, history[i].code, reviewed)'
<1>1. ReviewSlot' = ReviewSlot
  <2>1. Base' = Base  BY DEF Base
  <2> DEFINE f == [selected |-> Base]
  <2>2. f' = f  BY <2>1
  <2>3. IndexOf(f', "SELF_CHECK") = IndexOf(f, "SELF_CHECK")  BY ONLY <2>2
  <2>4. ReviewSlot' = IndexOf(f', "SELF_CHECK") /\ ReviewSlot = IndexOf(f, "SELF_CHECK")
    BY DEF ReviewSlot, IndexOf, SelectInSeq
  <2>5. QED  BY <2>3, <2>4
<1>2. ScopeOf(flow', code', reviewed') => ScopeOf(flow, code, reviewed)'  BY <1>1, Zenon
  DEF ScopeOf, Scoped, NextReaches, RoundReaches, Seen, PastReview, Ahead, Owed
<1>3. \A i : ScopeOf(history'[i].flow, history'[i].code, reviewed')
                => ScopeOf(history[i].flow, history[i].code, reviewed)'  BY <1>1, Zenon
  DEF ScopeOf, Scoped, NextReaches, RoundReaches, Seen, PastReview, Ahead, Owed
<1>4. QED  BY <1>2, <1>3

\* A step keeps the reach of the review.
LEMMA StepKeepsScope ==
  ASSUME Standard, SequenceInv, FindingsInv, ScopeInv, ~ReviseDone, "SELF_CHECK" \notin Skippable,
         ~behind, ~behind', [RewindNext]_rvars
  PROVE  ScopeOf(flow', code', reviewed')
<1>1. /\ Standing /\ Placed(flow) /\ FindingsAt(flow, open) /\ ScopeOf(flow, code, reviewed)
      /\ \A i \in 1..Len(history) : ScopeOf(history[i].flow, history[i].code, reviewed)
  BY DEF SequenceInv, RewindInv, FindingsInv, ScopeInv
<1>2. CASE Enters  BY <1>1, <1>2, BeginScope DEF Enters
<1>3. CASE Adds  BY <1>1, <1>3, ToNewStepScope DEF Adds
<1>4. CASE Revises  BY <1>1, <1>4, OperatorScope DEF Revises, Operator
<1>5. CASE LeavesHistory
  <2>1. CASE Handlers  BY <1>1, <2>1, HandlersScope
  <2>2. CASE Retry \/ Skip \/ GiveUp  BY <1>1, <2>2, OperatorScope DEF Operator
  <2>3. CASE ToKnownStep  BY <1>1, <2>3, ToKnownStepScope
  <2>4. CASE Stopped  BY <1>1, <2>4 DEF Stopped, vars
  <2>5. QED  BY <1>5, <2>1, <2>2, <2>3, <2>4 DEF LeavesHistory
<1>6. CASE UNCHANGED rvars  BY <1>1, <1>6 DEF rvars, vars
<1>7. ASSUME NEW i \in 1..Len(history), NEW r \in BOOLEAN, NEW u \in BOOLEAN, Restart(i, r, u)
      PROVE  ScopeOf(flow', code', reviewed')  BY <1>1, <1>7, RestartScope
<1>8. QED  BY <1>2, <1>3, <1>4, <1>5, <1>6, <1>7 DEF RewindNext

LEMMA StepScoped ==
  ASSUME Standard, SequenceInv, FindingsInv, ScopeInv, [RewindNext]_rvars
  PROVE  ScopeInv'
<1>1. setup' = setup /\ RewindInv /\ (behind => behind')
  BY SetupKept, SpentGrows DEF SequenceInv
<1> SUFFICES ASSUME ~ReviseDone, "SELF_CHECK" \notin Skippable, ~behind'
             PROVE  /\ ScopeOf(flow, code, reviewed)'
                    /\ \A i \in 1..Len(history') :
                         ScopeOf(history[i].flow, history[i].code, reviewed)'
  BY <1>1 DEF ScopeInv, ReviseDone, Skippable
<1>2. /\ ~behind /\ ScopeOf(flow, code, reviewed)
      /\ \A i \in 1..Len(history) : ScopeOf(history[i].flow, history[i].code, reviewed)
  BY <1>1 DEF ScopeInv
<1>3. ScopeOf(flow', code', reviewed')  BY <1>2, StepKeepsScope
<1>4. reviewed \in Nat /\ reviewed' \in Nat /\ reviewed <= reviewed'  BY <1>1, ReviewedGrows
<1>5. ASSUME NEW i \in 1..Len(history')
      PROVE  ScopeOf(history'[i].flow, history'[i].code, reviewed')
  <2>1. CASE i \in 1..Len(history) /\ history'[i] = history[i]
    <3>1. EntryOK(history[i], code, flow.layers) /\ history[i] \in EntrySet
      BY <1>1, <2>1, EntriesTyped DEF RewindInv
    <3>2. /\ history[i].flow \in FlowSet /\ history[i].code \in Nat
          /\ Grounded(history[i].flow, history[i].code)
      BY <3>1 DEF EntryOK, FlowOK, EntrySet
    <3>3. QED  BY <1>2, <1>4, <2>1, <3>2, ScopeLater
  <2>2. CASE history'[i] = Entry(flow)
    <3>1. Entry(flow).flow = flow /\ Entry(flow).code = code  BY DEF Entry
    <3>2. flow \in FlowSet /\ code \in Nat /\ Grounded(flow, code)
      BY <1>1, StandingFlow DEF RewindInv
    <3>3. QED  BY <1>2, <1>4, <2>2, <3>1, <3>2, ScopeLater
  <2>3. QED  BY <1>1, <2>1, <2>2, EntriesAfter
<1>6. QED  BY <1>1, <1>3, <1>5, ScopeStays

LEMMA InitScoped ==
  ASSUME Standard, RewindInit
  PROVE  ScopeInv
<1>1. /\ setup \in Setups /\ history = << >> /\ flow.layer = 1 /\ flow.beforeRuling = 1
      /\ flow.active = NoRound /\ ~flow.fullOccurred /\ flow.current = Base[1] /\ flow.index = 1
  BY DEF RewindInit, Init
<1>2. /\ Base[1] # "SELF_CHECK" /\ Base[1] \notin Dynamic /\ ~(1 > ReviewSlot)
  BY <1>1, BaseFacts
<1>3. Scoped(flow, reviewed)  BY <1>1 DEF Scoped, NextReaches, RoundReaches
<1>4. ~Seen(flow) /\ Owed(flow)  BY <1>1, <1>2 DEF Seen, PastReview, Owed
<1>5. QED  BY <1>1, <1>3, <1>4 DEF ScopeInv, ScopeOf

\* What the invariants say of a flow that no restart took past its review.
LEMMA BookkeepingOf ==
  ASSUME Standard, SequenceInv, ReviewInv, FindingsInv, BudgetInv, ScopeInv,
         ~ReviseDone, "SELF_CHECK" \notin Skippable
  PROVE  BookkeepingUnlessBehind
<1>1. SequenceRestored /\ FindingsKept  BY PlacedRestored, HeldFindings DEF FindingsInv
<1>2. ASSUME ~behind PROVE ScopeReachesUnreviewed
  <2>1. RoundReaches(flow, reviewed)  BY <1>2 DEF ScopeInv, ScopeOf, Scoped
  <2>2. flow.active.mode = "incremental" => flow.active # NoRound  BY DEF NoRound
  <2>3. QED  BY <2>1, <2>2 DEF RoundReaches, ScopeReachesUnreviewed
<1>3. ASSUME ~behind, spent.tears = 0 PROVE RoundAnswersDescription
  <2>1. ReviewOf(flow, clean)  BY <1>3 DEF ReviewInv, Ordered, Orderly
  <2>2. QED  BY <2>1 DEF ReviewOf, RoundHolds, RoundAnswersDescription
<1>4. ASSUME ~behind, Orderly, MaxFix > 0 PROVE flow.fixes <= MaxFix
  BY <1>4 DEF BudgetInv, Budget, Ordered
<1>5. QED  BY <1>1, <1>2, <1>3, <1>4 DEF BookkeepingUnlessBehind, ReviewBookkeeping

\* The spliced slots are unwound with the steps they belonged to (rewind.py:919),
\* every finding waits where the flow looks for it, and, unless a restart went past
\* its review, each round reaches back to the first fix nobody saw, answers the
\* description in force and keeps to the fix budget (state_machine.py:1642), when
\* no done step may be revised and nobody may skip the review.
THEOREM BookkeepingKept ==
  RewindSpec =>
    [](Standard /\ ~ReviseDone /\ "SELF_CHECK" \notin Skippable => BookkeepingUnlessBehind)
<1> DEFINE Inv == RewindInv /\ (Standard => /\ SequenceInv /\ ReviewInv /\ FindingsInv
                                            /\ BudgetInv /\ ScopeInv)
<1>1. RewindInit => Inv
  BY InitPlaces, InitReviewed, InitFound, InitBudgeted, InitScoped, InitStands
<1>2. Inv /\ [RewindNext]_rvars => Inv'
  <2> SUFFICES ASSUME Inv, [RewindNext]_rvars PROVE Inv'  OBVIOUS
  <2>1. RewindInv' /\ setup' = setup  BY StepKeeps, SetupKept
  <2>2. Standard' => Standard  BY <2>1 DEF Standard, Base, ConfirmRulings, Skippable
  <2>3. QED  BY <2>1, <2>2, StepPlaces, StepReviewed, StepFound, StepBudgeted, StepScoped
<1>3. Inv => (Standard /\ ~ReviseDone /\ "SELF_CHECK" \notin Skippable => BookkeepingUnlessBehind)
  BY BookkeepingOf
<1>4. QED  BY <1>1, <1>2, <1>3, PTL DEF RewindSpec
=============================================================================
