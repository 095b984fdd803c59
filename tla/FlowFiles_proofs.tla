-------------------------- MODULE FlowFiles_proofs --------------------------
(***************************************************************************)
(* Proofs about FlowFiles for any number of flows, contents and troubles.  *)
(***************************************************************************)
EXTENDS FlowFiles, TLAPS

\* A save, a run and a retirement at work.
Saving   == {"bodies", "displaced", "snapshot", "own"}
Running  == Saving \cup {"arm", "armed", "work", "reclaim"}
Retiring == {"copy", "publish", "unlive", "rmlive", "unsnap", "prune", "discard"}

\* Who is at work, on which flow, and where a save returns to.
WorkInv ==
    /\ pc \in Running => mem.flow \in Flows /\ \A p \in Parts : mem.val[p] # NoBody
    /\ pc \notin Running => mem.flow = NoFlow
    /\ pc \in Retiring => ret.flow \in Flows
    /\ pc \in {"copy", "publish", "unlive", "rmlive"} => ret.landed
    /\ pc \in Saving => /\ save.next # "idle"
                        /\ save.next = "reclaim" <=> mem.status = "completed"
                        /\ save.todo \subseteq {p \in Parts : mem.loaded[p]}
                        /\ save.displaced # mem.flow
    /\ pc = "displaced" => save.displaced # NoFlow
    /\ pc \in {"displaced", "snapshot"} =>
         engine.flow = mem.flow /\ engine.status = mem.status
    /\ pc \in {"own", "reclaim"} => mem.status = "completed"
    /\ pc \in {"arm", "armed", "work"} => mem.status = "open"

\* A part that counts as loaded was read or produced, the current step apart.
WholeInv ==
    /\ UnreadStaysWhole
    /\ \A p \in {"past", "context"} : mem.loaded[p] => mem.val[p] # Blank

\* What holds whichever troubles there are.
CoreInv == TypeOK /\ WorkInv /\ WholeInv

-----------------------------------------------------------------------------
(* Types.                                                                  *)

\* The type invariant, by the owner of the variables.
Body  == Bodies \cup {NoBody}
Mems  == [flow : Flows \cup {NoFlow}, status : {"open", "completed"},
          val : [Parts -> Body], loaded : [Parts -> BOOLEAN], ref : [Parts -> Body]]
Saves == [todo : SUBSET Parts, displaced : Flows \cup {NoFlow},
          next : {"idle", "arm", "work", "reclaim"}]
Rets  == [flow : Flows \cup {NoFlow}, by : {"salvage", "end"}, alive : BOOLEAN,
          landed : BOOLEAN, copy : [Parts -> Body]]
HeadersTyped == /\ engine \in Headers /\ snap \in [Flows -> Headers]
                /\ \A f \in Flows : snap[f] = NoHeader \/ snap[f].flow = f
BodiesTyped  == /\ cold \in [Flows -> [Parts -> Body]]
                /\ archive \subseteq [flow : Flows, ref : [Parts -> Body],
                                      bodies : [Parts -> Body]]
WorkTyped    == pc \in Places /\ mem \in Mems /\ save \in Saves /\ ret \in Rets
GhostsTyped  == /\ life \in [Flows -> {"none", "open", "ended"}]
                /\ saved \in [Flows -> [Parts -> Body]]
                /\ discarded \subseteq Flows /\ marks \in [Flows -> SUBSET Marks]
                /\ spent \in 0 .. MaxTroubles

\* The type invariant is made of these.
LEMMA TypeOKIs == TypeOK <=> HeadersTyped /\ BodiesTyped /\ WorkTyped /\ GhostsTyped
  BY DEF TypeOK, HeadersTyped, BodiesTyped, WorkTyped, GhostsTyped, Body, Mems, Saves, Rets

\* The contents a part can have are apart from none and from unreadable.
LEMMA BodyFacts ==
    /\ NoBody \in Body /\ Blank \in Body /\ NoBody # Blank /\ 1 \in Real
    /\ Real \subseteq Body /\ Blank \notin Real /\ NoBody \notin Real
    /\ NoBodies \in [Parts -> Body] /\ \A p \in Parts : NoBodies[p] = NoBody
  BY FilesAssumption DEF Body, Bodies, NoBody, Blank, Real, NoBodies

\* The header that is not there.
LEMMA NoHeaderIs ==
    /\ NoHeader \in Headers /\ NoHeader.flow = NoFlow /\ NoHeader.ref = NoBodies
    /\ NoHeader.status = "completed"
  BY BodyFacts DEF NoHeader, Headers, Body

\* A step that may fail says whether it did, which takes a trouble that is left.
LEMMA Failing ==
    ASSUME NEW kind, NEW ok \in Outcomes(kind)
    PROVE  ok \in BOOLEAN /\ (ok \/ (kind \in Troubles /\ spent < MaxTroubles))
<1>1. CASE Trouble(kind)
  BY <1>1 DEF Outcomes, Trouble
<1>2. CASE ~Trouble(kind)
  BY <1>2 DEF Outcomes
<1> QED
  BY <1>1, <1>2

\* A trouble is counted while one is left.
LEMMA Spent ==
    ASSUME spent \in 0 .. MaxTroubles, NEW hurt \in BOOLEAN, Spend(hurt),
           hurt => spent < MaxTroubles
    PROVE  spent' \in 0 .. MaxTroubles
<1>1. CASE hurt
  BY <1>1, FilesAssumption DEF Spend
<1>2. CASE ~hurt
  BY <1>2 DEF Spend
<1> QED
  BY <1>1, <1>2

\* What a save finds and leaves when it begins.
LEMMA SaveBegins ==
    ASSUME NEW m, NEW next, BeginSave(m, next)
    PROVE  /\ \E ok \in Outcomes("header") : Spend(~ok)
           /\ mem' = m /\ pc' = "bodies"
           /\ \E seen \in {engine, NoHeader} :
                /\ "header" \notin Troubles => seen = engine
                /\ save' = [todo |-> Dirty(m, seen),
                            displaced |-> IF seen.flow = m.flow THEN NoFlow ELSE seen.flow,
                            next |-> next]
<1>1. PICK ok \in Outcomes("header") :
        /\ mem' = m
        /\ save' = [todo |-> Dirty(m, SeenEngine(ok)),
                    displaced |-> IF SeenEngine(ok).flow = m.flow THEN NoFlow
                                  ELSE SeenEngine(ok).flow,
                    next |-> next]
        /\ pc' = "bodies"
        /\ Spend(~ok)
  BY DEF BeginSave
<1>2. SeenEngine(ok) \in {engine, NoHeader}
      /\ ("header" \notin Troubles => SeenEngine(ok) = engine)
  BY Failing DEF SeenEngine
<1> QED
  BY <1>1, <1>2

\* What reading a body may give.
LEMMA Reading ==
    ASSUME NEW f, NEW p, NEW ok \in Reads(f, p)
    PROVE  /\ ok \in BOOLEAN /\ (ok => cold[f][p] # NoBody)
           /\ ~ok /\ cold[f][p] # NoBody => spent < MaxTroubles
  BY Failing DEF Reads

\* Only a body that was read counts as loaded.
LEMMA HydratedIs ==
    ASSUME NEW m \in Mems, NEW p \in Parts, NEW ok \in BOOLEAN,
           BodiesTyped, m.flow \in Flows
    PROVE  LET h == Hydrated(m, p, ok)
           IN /\ h \in Mems
              /\ h.flow = m.flow /\ h.status = m.status /\ h.ref = m.ref
              /\ h.val = [m.val EXCEPT ![p] = IF ok THEN cold[m.flow][p] ELSE Blank]
              /\ h.loaded = [m.loaded EXCEPT ![p] = ok]
<1> DEFINE h == Hydrated(m, p, ok)
           body == IF ok THEN cold[m.flow][p] ELSE Blank
<1>1. body \in Body
  BY BodyFacts DEF BodiesTyped
<1>2. h = [m EXCEPT !.val = [m.val EXCEPT ![p] = body], !.loaded = [m.loaded EXCEPT ![p] = ok]]
  BY DEF Hydrated, Mems
<1>3. [m.val EXCEPT ![p] = body] \in [Parts -> Body]
      /\ [m.loaded EXCEPT ![p] = ok] \in [Parts -> BOOLEAN]
  BY <1>1 DEF Mems
<1> HIDE DEF h, body
<1>4. /\ h \in Mems
      /\ h.flow = m.flow /\ h.status = m.status /\ h.ref = m.ref
      /\ h.val = [m.val EXCEPT ![p] = body] /\ h.loaded = [m.loaded EXCEPT ![p] = ok]
  BY <1>2, <1>3 DEF Mems
<1> QED
  BY <1>4 DEF h, body

\* Headers are filed under their own flow.
LEMMA NextHeadersTyped ==
    ASSUME CoreInv, Next
    PROVE  HeadersTyped'
<1>0. HeadersTyped /\ BodiesTyped /\ WorkTyped /\ GhostsTyped /\ WorkInv
  BY TypeOKIs DEF CoreInv
<1>1. ASSUME \/ \E p \in Parts : WriteBody(p)
             \/ PruneDisplaced
             \/ PruneOwn
             \/ \E f \in Flows : Create(f)
             \/ \E f \in Flows : Resume(f)
             \/ Access("current")
             \/ Access("past")
     PROVE  UNCHANGED <<engine, snap>>
  BY ONLY <1>1 DEF WriteBody, PruneDisplaced, Prune, PruneOwn, Create,
    KeepRest, Resume, Access, files
<1>2. ASSUME \/ Rearm
             \/ LeaveStep
             \/ Work("open")
             \/ Work("completed")
             \/ Reclaim
             \/ Exit
             \/ Salvage
     PROVE  UNCHANGED <<engine, snap>>
  BY ONLY <1>2 DEF Rearm, KeepRest, LeaveStep, Work, Reclaim, Exit, Salvage,
    files
<1>3. ASSUME \/ \E f \in Flows : EndSession(f)
             \/ Copy
             \/ RemoveLive
             \/ PruneRetired
             \/ Discard
             \/ Crash
     PROVE  UNCHANGED <<engine, snap>>
  BY ONLY <1>3 DEF EndSession, Copy, ArchiveFails, RemoveLive, PruneRetired,
    Prune, Discard, Crash, files
<1>4. CASE UNCHANGED <<engine, snap>>
  BY <1>4, <1>0 DEF HeadersTyped
<1> USE <1>0, NoHeaderIs DEF HeadersTyped, WorkTyped, WorkInv, Running, Saving, Retiring
<1>5. ASSUME WriteHeader
     PROVE  HeadersTyped'
  <2>1. Header(mem) \in Headers
    BY ONLY <1>0 DEF Header, Headers, Mems, WorkTyped, Body
  <2> QED
    BY ONLY <1>5, <2>1, <1>0 DEF WriteHeader, HeadersTyped
<1>6. ASSUME WriteSnapshot
     PROVE  HeadersTyped'
  BY <1>6 DEF WriteSnapshot
<1>7. ASSUME ClearSnapshot
     PROVE  HeadersTyped'
  BY <1>7 DEF ClearSnapshot, Unlink
<1>8. ASSUME Publish
     PROVE  HeadersTyped'
  BY <1>8 DEF Publish, ArchiveFails
<1>9. ASSUME Unlive
     PROVE  HeadersTyped'
  BY <1>9 DEF Unlive, ArchiveFails
<1>10. ASSUME RetireSnapshot
     PROVE  HeadersTyped'
  BY <1>10 DEF RetireSnapshot, Unlink
<1> QED
  BY <1>1, <1>2, <1>3, <1>4, <1>5, <1>6, <1>7, <1>8, <1>9, <1>10
     DEF Next, SaveStep, RunStep, RetireStep

\* Bodies are bodies.
LEMMA NextBodiesTyped ==
    ASSUME CoreInv, Next
    PROVE  BodiesTyped'
<1>0. HeadersTyped /\ BodiesTyped /\ WorkTyped /\ GhostsTyped /\ WorkInv
  BY TypeOKIs DEF CoreInv
<1>1. ASSUME \/ WriteHeader
             \/ WriteSnapshot
             \/ ClearSnapshot
             \/ \E f \in Flows : Create(f)
             \/ \E f \in Flows : Resume(f)
             \/ Access("current")
             \/ Access("past")
     PROVE  UNCHANGED <<cold, archive>>
  BY ONLY <1>1 DEF WriteHeader, WriteSnapshot, ClearSnapshot, Unlink, Create,
    KeepRest, Resume, Access, files
<1>2. ASSUME \/ Rearm
             \/ LeaveStep
             \/ Work("open")
             \/ Work("completed")
             \/ Reclaim
             \/ Exit
             \/ Salvage
     PROVE  UNCHANGED <<cold, archive>>
  BY ONLY <1>2 DEF Rearm, KeepRest, LeaveStep, Work, Reclaim, Exit, Salvage,
    files
<1>3. ASSUME \/ \E f \in Flows : EndSession(f)
             \/ Copy
             \/ RetireSnapshot
             \/ Discard
             \/ Crash
     PROVE  UNCHANGED <<cold, archive>>
  BY ONLY <1>3 DEF EndSession, Copy, ArchiveFails, RetireSnapshot, Unlink,
    Discard, Crash, files
<1>4. CASE UNCHANGED <<cold, archive>>
  BY <1>4, <1>0 DEF BodiesTyped
<1> USE <1>0, BodyFacts DEF HeadersTyped, BodiesTyped, WorkTyped, Headers, Mems, Rets, Saves, WorkInv,
        Running, Saving, Retiring
<1>5. ASSUME NEW p \in Parts, WriteBody(p)
     PROVE  BodiesTyped'
  BY <1>5 DEF WriteBody
<1>6. ASSUME PruneDisplaced
     PROVE  BodiesTyped'
  BY <1>6 DEF PruneDisplaced, Prune
<1>7. ASSUME PruneOwn
     PROVE  BodiesTyped'
  BY <1>7 DEF PruneOwn, Prune
<1>8. ASSUME Publish
     PROVE  BodiesTyped'
  BY <1>8 DEF Publish, ArchiveFails, Archived, Body
<1>9. ASSUME Unlive
     PROVE  BodiesTyped'
  BY <1>9 DEF Unlive, ArchiveFails, Archived, Body
<1>10. ASSUME RemoveLive
     PROVE  BodiesTyped'
  BY <1>10 DEF RemoveLive
<1>11. ASSUME PruneRetired
     PROVE  BodiesTyped'
  BY <1>11 DEF PruneRetired, Prune
<1> QED
  BY <1>1, <1>2, <1>3, <1>4, <1>5, <1>6, <1>7, <1>8, <1>9, <1>10, <1>11
     DEF Next, SaveStep, RunStep, RetireStep

\* Troubles are counted up to their bound.
LEMMA NextSpent ==
    ASSUME CoreInv, Next
    PROVE  (spent \in 0 .. MaxTroubles)'
<1>0. HeadersTyped /\ BodiesTyped /\ WorkTyped /\ GhostsTyped /\ WorkInv
  BY TypeOKIs DEF CoreInv
<1>1. ASSUME \/ \E p \in Parts : WriteBody(p)
             \/ WriteHeader
             \/ LeaveStep
             \/ Reclaim
             \/ Exit
             \/ Salvage
             \/ Discard
     PROVE  UNCHANGED <<spent>>
  BY ONLY <1>1 DEF WriteBody, WriteHeader, LeaveStep, Reclaim, Exit, Salvage,
    Discard, files
<1>2. CASE UNCHANGED <<spent>>
  BY <1>2, <1>0 DEF GhostsTyped
<1>3. ASSUME PruneDisplaced
     PROVE  (spent \in 0 .. MaxTroubles)'
  <2>1. PICK read \in Outcomes("header"), removed \in Outcomes("disk") :
          (read \/ removed) /\ Spend(~(read /\ removed))
    BY <1>3 DEF PruneDisplaced, Prune
  <2> QED
    BY <1>0, <2>1, Failing, Spent DEF GhostsTyped
<1>4. ASSUME WriteSnapshot
     PROVE  (spent \in 0 .. MaxTroubles)'
  <2>1. PICK ok \in Outcomes("disk") : Spend(~ok)
    BY <1>4 DEF WriteSnapshot
  <2> QED
    BY <1>0, <2>1, Failing, Spent DEF GhostsTyped
<1>5. ASSUME ClearSnapshot
     PROVE  (spent \in 0 .. MaxTroubles)'
  <2>1. PICK ok \in Outcomes("disk") : Spend(~ok)
    BY <1>5 DEF ClearSnapshot, Unlink
  <2> QED
    BY <1>0, <2>1, Failing, Spent DEF GhostsTyped
<1>6. ASSUME PruneOwn
     PROVE  (spent \in 0 .. MaxTroubles)'
  <2>1. PICK read \in Outcomes("header"), removed \in Outcomes("disk") :
          (read \/ removed) /\ Spend(~(read /\ removed))
    BY <1>6 DEF PruneOwn, Prune
  <2> QED
    BY <1>0, <2>1, Failing, Spent DEF GhostsTyped
<1>7. ASSUME NEW f \in Flows, Create(f)
     PROVE  (spent \in 0 .. MaxTroubles)'
  <2>1. PICK m, next : BeginSave(m, next)
    BY <1>7 DEF Create
  <2>2. PICK ok \in Outcomes("header") : Spend(~ok)
    BY <2>1, SaveBegins
  <2> QED
    BY <1>0, <2>2, Failing, Spent DEF GhostsTyped
<1>8. ASSUME NEW f \in Flows, Resume(f)
     PROVE  (spent \in 0 .. MaxTroubles)'
  <2>1. PICK found \in Outcomes("header"), ok \in Reads(f, "context") :
          (found \/ ok) /\ Spend(~found \/ (~ok /\ cold[f]["context"] # NoBody))
    BY <1>8 DEF Resume
  <2> QED
    BY <1>0, <2>1, Failing, Reading, Spent DEF GhostsTyped
<1>9. ASSUME Access("current")
     PROVE  (spent \in 0 .. MaxTroubles)'
  <2>1. PICK p \in Parts : \E ok \in Reads(mem.flow, p) : Spend(~ok /\ cold[mem.flow][p] # NoBody)
    BY <1>9 DEF Access, Parts
  <2> QED
    BY <1>0, <2>1, Reading, Spent DEF GhostsTyped
<1>10. ASSUME Access("past")
     PROVE  (spent \in 0 .. MaxTroubles)'
  <2>1. PICK p \in Parts : \E ok \in Reads(mem.flow, p) : Spend(~ok /\ cold[mem.flow][p] # NoBody)
    BY <1>10 DEF Access, Parts
  <2> QED
    BY <1>0, <2>1, Reading, Spent DEF GhostsTyped
<1>11. ASSUME Rearm
     PROVE  (spent \in 0 .. MaxTroubles)'
  <2>1. PICK m, next : BeginSave(m, next)
    BY <1>11 DEF Rearm
  <2>2. PICK ok \in Outcomes("header") : Spend(~ok)
    BY <2>1, SaveBegins
  <2> QED
    BY <1>0, <2>2, Failing, Spent DEF GhostsTyped
<1>12. ASSUME Work("open")
     PROVE  (spent \in 0 .. MaxTroubles)'
  <2>1. PICK m, next : BeginSave(m, next)
    BY <1>12 DEF Work
  <2>2. PICK ok \in Outcomes("header") : Spend(~ok)
    BY <2>1, SaveBegins
  <2> QED
    BY <1>0, <2>2, Failing, Spent DEF GhostsTyped
<1>13. ASSUME Work("completed")
     PROVE  (spent \in 0 .. MaxTroubles)'
  <2>1. PICK m, next : BeginSave(m, next)
    BY <1>13 DEF Work
  <2>2. PICK ok \in Outcomes("header") : Spend(~ok)
    BY <2>1, SaveBegins
  <2> QED
    BY <1>0, <2>2, Failing, Spent DEF GhostsTyped
<1>14. ASSUME NEW f \in Flows, EndSession(f)
     PROVE  (spent \in 0 .. MaxTroubles)'
  <2>1. PICK ok \in Outcomes("header") : Spend(~ok)
    BY <1>14 DEF EndSession
  <2> QED
    BY <1>0, <2>1, Failing, Spent DEF GhostsTyped
<1>15. ASSUME Copy
     PROVE  (spent \in 0 .. MaxTroubles)'
  <2>1. PICK ok \in Outcomes("disk") : Spend(~ok)
    BY <1>15 DEF Copy
  <2> QED
    BY <1>0, <2>1, Failing, Spent DEF GhostsTyped
<1>16. ASSUME Publish
     PROVE  (spent \in 0 .. MaxTroubles)'
  <2>1. PICK ok \in Outcomes("disk") : Spend(~ok)
    BY <1>16 DEF Publish
  <2> QED
    BY <1>0, <2>1, Failing, Spent DEF GhostsTyped
<1>17. ASSUME Unlive
     PROVE  (spent \in 0 .. MaxTroubles)'
  <2>1. PICK ok \in Outcomes("unlink") : Spend(~ok)
    BY <1>17 DEF Unlive
  <2> QED
    BY <1>0, <2>1, Failing, Spent DEF GhostsTyped
<1>18. ASSUME RemoveLive
     PROVE  (spent \in 0 .. MaxTroubles)'
  <2>1. PICK ok \in Outcomes("disk") : Spend(~ok)
    BY <1>18 DEF RemoveLive
  <2> QED
    BY <1>0, <2>1, Failing, Spent DEF GhostsTyped
<1>19. ASSUME RetireSnapshot
     PROVE  (spent \in 0 .. MaxTroubles)'
  <2>1. PICK ok \in Outcomes("disk") : Spend(~ok)
    BY <1>19 DEF RetireSnapshot, Unlink
  <2> QED
    BY <1>0, <2>1, Failing, Spent DEF GhostsTyped
<1>20. ASSUME PruneRetired
     PROVE  (spent \in 0 .. MaxTroubles)'
  <2>1. PICK read \in Outcomes("header"), removed \in Outcomes("disk") :
          (read \/ removed) /\ Spend(~(read /\ removed))
    BY <1>20 DEF PruneRetired, Prune
  <2> QED
    BY <1>0, <2>1, Failing, Spent DEF GhostsTyped
<1>21. ASSUME Crash
     PROVE  (spent \in 0 .. MaxTroubles)'
  <2>1. Spend(TRUE) /\ spent < MaxTroubles
    BY <1>21 DEF Crash, Trouble
  <2> QED
    BY <1>0, <2>1, Spent DEF GhostsTyped
<1> QED
  BY <1>1, <1>2, <1>3, <1>4, <1>5, <1>6, <1>7, <1>8, <1>9, <1>10, <1>11, <1>12,
    <1>13, <1>14, <1>15, <1>16, <1>17, <1>18, <1>19, <1>20, <1>21
     DEF Next, SaveStep, RunStep, RetireStep

\* The history variables keep their types.
LEMMA NextGhostsTyped ==
    ASSUME CoreInv, Next
    PROVE  GhostsTyped'
<1>0. HeadersTyped /\ BodiesTyped /\ WorkTyped /\ GhostsTyped /\ WorkInv
  BY TypeOKIs DEF CoreInv
<1>1. ASSUME \/ \E p \in Parts : WriteBody(p)
             \/ PruneDisplaced
             \/ PruneOwn
             \/ \E f \in Flows : Create(f)
             \/ \E f \in Flows : Resume(f)
             \/ Access("current")
             \/ Access("past")
     PROVE  UNCHANGED <<life, saved, discarded, marks>>
  BY ONLY <1>1 DEF WriteBody, PruneDisplaced, Prune, PruneOwn, Create,
    KeepRest, Resume, Access, files
<1>2. ASSUME \/ Rearm
             \/ LeaveStep
             \/ Work("open")
             \/ Work("completed")
             \/ Exit
             \/ Salvage
             \/ \E f \in Flows : EndSession(f)
     PROVE  UNCHANGED <<life, saved, discarded, marks>>
  BY ONLY <1>2 DEF Rearm, KeepRest, LeaveStep, Work, Exit, Salvage, EndSession,
    files
<1>3. ASSUME \/ Copy
             \/ Publish
             \/ Unlive
             \/ RemoveLive
             \/ PruneRetired
     PROVE  UNCHANGED <<life, saved, discarded, marks>>
  BY ONLY <1>3 DEF Copy, ArchiveFails, Publish, Unlive, RemoveLive,
    PruneRetired, Prune, files
<1>4. CASE UNCHANGED <<life, saved, discarded, marks>>
  BY <1>4, <1>0, NextSpent DEF GhostsTyped
<1> USE <1>0, BodyFacts, NextSpent DEF GhostsTyped, WorkTyped, Mems, Rets, WorkInv,
        Running, Saving, Retiring, Marks
<1>5. ASSUME WriteHeader
     PROVE  GhostsTyped'
  BY <1>5 DEF WriteHeader
<1>6. ASSUME WriteSnapshot
     PROVE  GhostsTyped'
  BY <1>6 DEF WriteSnapshot, Unmark
<1>7. ASSUME ClearSnapshot
     PROVE  GhostsTyped'
  BY <1>7 DEF ClearSnapshot, Unlink
<1>8. ASSUME Reclaim
     PROVE  GhostsTyped'
  BY <1>8 DEF Reclaim
<1>9. ASSUME RetireSnapshot
     PROVE  GhostsTyped'
  BY <1>9 DEF RetireSnapshot, Unlink
<1>10. ASSUME Discard
     PROVE  GhostsTyped'
  BY <1>10 DEF Discard
<1>11. ASSUME Crash
     PROVE  GhostsTyped'
  BY <1>11 DEF Crash, CrashMarks
<1> QED
  BY <1>1, <1>2, <1>3, <1>4, <1>5, <1>6, <1>7, <1>8, <1>9, <1>10, <1>11
     DEF Next, SaveStep, RunStep, RetireStep

-----------------------------------------------------------------------------
(* What the steps of a run do to the flow in memory and to the save.       *)

\* What a run leaves alone.
Rest == <<engine, snap, cold, archive, ret, life, saved, discarded, marks>>

\* A save begins for the flow as m holds it: what is dirty is held against the
\* header that was seen.
SaveOf(m, seen, next) ==
    save' = [todo |-> Dirty(m, seen),
             displaced |-> IF seen.flow = m.flow THEN NoFlow ELSE seen.flow,
             next |-> next]

\* What reading engine.json may give.
Seen(seen) == seen \in {engine, NoHeader} /\ ("header" \notin Troubles => seen = engine)

\* Setting fields of the flow in memory.
LEMMA RearmedMem ==
    ASSUME mem \in Mems, NEW m, m = [mem EXCEPT !.loaded["current"] = TRUE]
    PROVE  /\ m \in Mems /\ m.flow = mem.flow /\ m.status = mem.status /\ m.ref = mem.ref
           /\ m.val = mem.val /\ m.loaded = [mem.loaded EXCEPT !["current"] = TRUE]
<1>1. m = [mem EXCEPT !.loaded = [mem.loaded EXCEPT !["current"] = TRUE]]
  BY DEF Mems
<1>2. [mem.loaded EXCEPT !["current"] = TRUE] \in [Parts -> BOOLEAN]
  BY DEF Mems, Parts
<1> QED
  BY <1>1, <1>2 DEF Mems

\* A new flow.
LEMMA CreateIs ==
    ASSUME CoreInv, NEW f \in Flows, Create(f)
    PROVE  /\ pc = "idle" /\ life[f] = "none" /\ pc' = "bodies" /\ UNCHANGED Rest
           /\ mem' \in Mems /\ mem'.flow = f /\ mem'.status = "open" /\ mem'.ref = NoBodies
           /\ \A p \in Parts : mem'.val[p] = 1 /\ mem'.loaded[p] = TRUE
           /\ \E seen : Seen(seen) /\ SaveOf(mem', seen, "work")
<1> DEFINE m == [flow |-> f, status |-> "open", val |-> [p \in Parts |-> 1],
                 loaded |-> [p \in Parts |-> TRUE], ref |-> NoBodies]
<1>1. pc = "idle" /\ life[f] = "none" /\ BeginSave(m, "work") /\ UNCHANGED Rest
  BY DEF Create, KeepRest, files, Rest
<1>2. m \in Mems
  BY BodyFacts DEF Mems
<1>3. m.flow = f /\ m.status = "open" /\ m.ref = NoBodies
      /\ \A p \in Parts : m.val[p] = 1 /\ m.loaded[p] = TRUE
  OBVIOUS
<1> HIDE DEF m
<1> QED
  BY <1>1, <1>2, <1>3, SaveBegins DEF Seen, SaveOf

\* A body is produced, or declared the one that counts.
LEMMA Produces ==
    ASSUME CoreInv, \/ Rearm /\ pc = "armed"
                    \/ (Work("open") \/ Work("completed")) /\ pc = "work"
    PROVE  /\ pc' = "bodies" /\ UNCHANGED Rest
           /\ mem' \in Mems /\ mem'.flow = mem.flow /\ mem'.ref = mem.ref
           /\ mem'.loaded = [mem.loaded EXCEPT !["current"] = TRUE]
           /\ mem'.val["past"] = mem.val["past"]
           /\ mem'.val["current"] \in Real \cup {mem.val["current"]}
           /\ mem'.val["context"] \in Real \cup {mem.val["context"]}
           /\ \E seen, next :
                /\ Seen(seen) /\ SaveOf(mem', seen, next)
                /\ next \in {"work", "reclaim"}
                /\ next = "reclaim" <=> mem'.status = "completed"
<1>0. mem \in Mems /\ mem.val \in [Parts -> Body] /\ pc \in {"armed", "work"}
  BY TypeOKIs DEF CoreInv, WorkTyped, Mems
<1>1. CASE Rearm
  <2>1. BeginSave([mem EXCEPT !.loaded["current"] = TRUE], "work") /\ UNCHANGED Rest
    BY <1>1 DEF Rearm, KeepRest, files, Rest
  <2>2. mem' = [mem EXCEPT !.loaded["current"] = TRUE]
    BY <2>1, SaveBegins
  <2>3. mem.status = "open"
    BY <1>0 DEF CoreInv, WorkInv
  <2>4. /\ mem' \in Mems /\ mem'.flow = mem.flow /\ mem'.status = mem.status
        /\ mem'.ref = mem.ref /\ mem'.val = mem.val
        /\ mem'.loaded = [mem.loaded EXCEPT !["current"] = TRUE]
    BY ONLY <1>0, <2>2, RearmedMem
  <2>5. pc' = "bodies" /\ \E seen : Seen(seen) /\ SaveOf(mem', seen, "work")
    <3> DEFINE m == [mem EXCEPT !.loaded["current"] = TRUE]
    <3>1. BeginSave(m, "work")
      BY <2>1
    <3> HIDE DEF m
    <3> QED
      BY ONLY <3>1, SaveBegins DEF Seen, SaveOf
  <2> QED
    BY <2>1, <2>3, <2>4, <2>5
<1>2. ASSUME NEW status \in {"open", "completed"}, Work(status)
      PROVE  /\ pc' = "bodies" /\ UNCHANGED Rest
             /\ mem' \in Mems /\ mem'.flow = mem.flow /\ mem'.ref = mem.ref
             /\ mem'.loaded = [mem.loaded EXCEPT !["current"] = TRUE]
             /\ mem'.val["past"] = mem.val["past"]
             /\ mem'.val["current"] \in Real \cup {mem.val["current"]}
             /\ mem'.val["context"] \in Real
             /\ mem'.status = status
             /\ \E seen : Seen(seen) /\ SaveOf(mem', seen, IF status = "open" THEN "work"
                                                           ELSE "reclaim")
  <2> DEFINE next == IF status = "open" THEN "work" ELSE "reclaim"
  <2>1. UNCHANGED Rest
    BY <1>2 DEF Work, KeepRest, files, Rest
  <2>2. PICK c \in Real \cup {mem.val["current"]}, x \in Real :
          BeginSave([mem EXCEPT !.status = status, !.val["current"] = c,
                                !.loaded["current"] = TRUE, !.val["context"] = x], next)
    BY <1>2 DEF Work
  <2>3. c \in Body /\ x \in Body
    BY <1>0, BodyFacts DEF Parts
  <2>4. mem' = [mem EXCEPT !.status = status, !.val["current"] = c,
                           !.loaded["current"] = TRUE, !.val["context"] = x]
    BY <2>2, SaveBegins
  <2>5. /\ mem' \in Mems /\ mem'.flow = mem.flow /\ mem'.status = status
        /\ mem'.ref = mem.ref
        /\ mem'.val = [mem.val EXCEPT !["current"] = c, !["context"] = x]
        /\ mem'.loaded = [mem.loaded EXCEPT !["current"] = TRUE]
    <3>1. mem' = [mem EXCEPT !.status = status,
                   !.val = [mem.val EXCEPT !["current"] = c, !["context"] = x],
                   !.loaded = [mem.loaded EXCEPT !["current"] = TRUE]]
      BY ONLY <1>0, <2>4 DEF Mems
    <3>2. [mem.val EXCEPT !["current"] = c, !["context"] = x] \in [Parts -> Body]
      BY ONLY <1>0, <2>3 DEF Mems, Parts
    <3>3. [mem.loaded EXCEPT !["current"] = TRUE] \in [Parts -> BOOLEAN]
      BY ONLY <1>0 DEF Mems, Parts
    <3> QED
      BY ONLY <1>0, <3>1, <3>2, <3>3, status \in {"open", "completed"} DEF Mems
  <2>6. pc' = "bodies" /\ \E seen : Seen(seen) /\ SaveOf(mem', seen, next)
    <3> DEFINE m == [mem EXCEPT !.status = status, !.val["current"] = c,
                                !.loaded["current"] = TRUE, !.val["context"] = x]
    <3>1. BeginSave(m, next)
      BY <2>2
    <3> HIDE DEF m, next
    <3> QED
      BY ONLY <3>1, SaveBegins DEF Seen, SaveOf
  <2>7. /\ mem'.val["past"] = mem.val["past"] /\ mem'.val["current"] = c
        /\ mem'.val["context"] = x
    BY <1>0, <2>5 DEF Parts
  <2> QED
    BY <2>1, <2>2, <2>5, <2>6, <2>7
<1> QED
  BY <1>1, <1>2

\* A flow is found in engine.json, or in its snapshot and written back.
LEMMA ResumeIs ==
    ASSUME CoreInv, NEW f \in Flows, Resume(f)
    PROVE  \E seen : \E ok \in BOOLEAN :
             /\ Seen(seen) /\ Found(f, seen).flow = f /\ Found(f, seen).status = "open"
             /\ pc = "idle" /\ UNCHANGED Rest
             /\ mem' \in Mems /\ mem'.flow = f /\ mem'.status = "open"
             /\ mem'.ref = Found(f, seen).ref
             /\ \A p \in Parts : /\ mem'.loaded[p] <=> p = "context" /\ ok
                                 /\ mem'.val[p] = IF p = "context" /\ ok THEN cold[f][p]
                                                  ELSE Blank
             /\ ok => cold[f]["context"] # NoBody
             /\ \/ seen.flow = f /\ pc' = "arm" /\ UNCHANGED save
                \/ seen.flow # f /\ pc' = "bodies" /\ SaveOf(mem', seen, "arm")
<1>0. HeadersTyped /\ BodiesTyped
  BY TypeOKIs DEF CoreInv
<1>1. PICK found \in Outcomes("header"), ok \in Reads(f, "context") :
        LET seen == SeenEngine(found)
            h    == Found(f, seen)
            lazy == [flow |-> f, status |-> "open",
                     val |-> [p \in Parts |-> Blank],
                     loaded |-> [p \in Parts |-> FALSE], ref |-> h.ref]
            m    == Hydrated(lazy, "context", ok)
        IN /\ h.flow = f /\ h.status = "open"
           /\ mem' = m
           /\ \/ seen.flow = f /\ pc' = "arm" /\ UNCHANGED save
              \/ /\ seen.flow # f /\ pc' = "bodies"
                 /\ save' = [todo |-> Dirty(m, seen), displaced |-> seen.flow,
                             next |-> "arm"]
  BY DEF Resume
<1> DEFINE seen == SeenEngine(found)
           h    == Found(f, seen)
           lazy == [flow |-> f, status |-> "open", val |-> [p \in Parts |-> Blank],
                    loaded |-> [p \in Parts |-> FALSE], ref |-> h.ref]
<1>2. Seen(seen)
  BY Failing DEF SeenEngine, Seen
<1>3. h.ref \in [Parts -> Body]
  BY <1>0, <1>2, NoHeaderIs DEF Seen, Found, HeadersTyped, Headers, Body
<1>4. lazy \in Mems
  BY <1>3, BodyFacts DEF Mems
<1>5. lazy.flow = f /\ lazy.status = "open" /\ lazy.ref = h.ref
      /\ lazy.val = [p \in Parts |-> Blank] /\ lazy.loaded = [p \in Parts |-> FALSE]
  OBVIOUS
<1>6. ok \in BOOLEAN /\ (ok => cold[f]["context"] # NoBody)
  BY Reading
<1>7. "context" \in Parts
  BY DEF Parts
<1>8. mem' = Hydrated(lazy, "context", ok) /\ h.flow = f /\ h.status = "open"
      /\ \/ seen.flow = f /\ pc' = "arm" /\ UNCHANGED save
         \/ /\ seen.flow # f /\ pc' = "bodies"
            /\ save' = [todo |-> Dirty(mem', seen), displaced |-> seen.flow,
                        next |-> "arm"]
  BY <1>1
<1>9. lazy.flow \in Flows /\ mem' = Hydrated(lazy, "context", ok)
  BY <1>5, <1>8
<1> HIDE DEF lazy
<1>10. /\ mem' \in Mems /\ mem'.flow = lazy.flow /\ mem'.status = lazy.status
      /\ mem'.ref = lazy.ref
      /\ mem'.val = [lazy.val EXCEPT !["context"] = IF ok THEN cold[lazy.flow]["context"]
                                                    ELSE Blank]
      /\ mem'.loaded = [lazy.loaded EXCEPT !["context"] = ok]
  BY ONLY <1>0, <1>4, <1>6, <1>7, <1>9, HydratedIs
<1>11. /\ mem'.val = [[p \in Parts |-> Blank] EXCEPT !["context"] =
                         IF ok THEN cold[f]["context"] ELSE Blank]
       /\ mem'.loaded = [[p \in Parts |-> FALSE] EXCEPT !["context"] = ok]
  BY ONLY <1>5, <1>10
<1>12. \A p \in Parts : /\ mem'.loaded[p] <=> p = "context" /\ ok
                        /\ mem'.val[p] = IF p = "context" /\ ok THEN cold[f][p] ELSE Blank
  BY ONLY <1>11, <1>7, <1>6
<1>13. pc = "idle" /\ UNCHANGED Rest
  BY DEF Resume, KeepRest, files, Rest
<1>14. \/ seen.flow = f /\ pc' = "arm" /\ UNCHANGED save
       \/ seen.flow # f /\ pc' = "bodies" /\ SaveOf(mem', seen, "arm")
  BY <1>5, <1>8, <1>10 DEF SaveOf
<1>15. /\ mem' \in Mems /\ mem'.flow = f /\ mem'.status = "open"
       /\ mem'.ref = Found(f, seen).ref
       /\ Found(f, seen).flow = f /\ Found(f, seen).status = "open"
  BY <1>5, <1>8, <1>10
<1> HIDE DEF seen
<1> QED
  BY ONLY <1>2, <1>6, <1>12, <1>13, <1>14, <1>15

\* A body is read at its first access.
LEMMA AccessIs ==
    ASSUME CoreInv, NEW p \in {"current", "past"}, Access(p)
    PROVE  \E ok \in BOOLEAN :
             /\ pc \in {"arm", "work"} /\ pc' \in {"armed", "work"}
             /\ UNCHANGED Rest /\ UNCHANGED save
             /\ ~mem.loaded[p]
             /\ mem' \in Mems /\ mem'.flow = mem.flow /\ mem'.status = mem.status
             /\ mem'.ref = mem.ref
             /\ mem'.val = [mem.val EXCEPT ![p] = IF ok THEN cold[mem.flow][p] ELSE Blank]
             /\ mem'.loaded = [mem.loaded EXCEPT ![p] = ok]
             /\ ok => cold[mem.flow][p] # NoBody
<1>0. mem \in Mems /\ BodiesTyped /\ p \in Parts
  BY TypeOKIs DEF CoreInv, WorkTyped, Parts
<1>1. /\ pc \in {"arm", "work"} /\ pc' \in {"armed", "work"} /\ ~mem.loaded[p]
      /\ UNCHANGED Rest /\ UNCHANGED save
  BY DEF Access, Rest, files
<1>2. mem.flow \in Flows
  BY <1>1 DEF CoreInv, WorkInv, Running
<1>3. PICK ok \in Reads(mem.flow, p) : mem' = Hydrated(mem, p, ok)
  BY DEF Access
<1>4. ok \in BOOLEAN /\ (ok => cold[mem.flow][p] # NoBody)
  BY Reading
<1>5. /\ mem' \in Mems /\ mem'.flow = mem.flow /\ mem'.status = mem.status
      /\ mem'.ref = mem.ref
      /\ mem'.val = [mem.val EXCEPT ![p] = IF ok THEN cold[mem.flow][p] ELSE Blank]
      /\ mem'.loaded = [mem.loaded EXCEPT ![p] = ok]
  BY ONLY <1>0, <1>2, <1>3, <1>4, HydratedIs
<1> QED
  BY <1>1, <1>4, <1>5

-----------------------------------------------------------------------------
(* The invariant that holds whichever troubles there are.                  *)

\* Only what is in memory is written.
LEMMA SaveOfIs ==
    ASSUME HeadersTyped, NEW m, m.flow \in Flows, NEW seen, Seen(seen),
           NEW next \in {"arm", "work", "reclaim"}, SaveOf(m, seen, next)
    PROVE  /\ save' \in Saves /\ save'.next = next /\ save'.displaced # m.flow
           /\ save'.todo = Dirty(m, seen)
           /\ save'.todo \subseteq {p \in Parts : m.loaded[p]}
           /\ save'.displaced = IF seen.flow = m.flow THEN NoFlow ELSE seen.flow
<1>1. seen.flow \in Flows \cup {NoFlow}
  BY NoHeaderIs DEF Seen, HeadersTyped, Headers
<1>2. Dirty(m, seen) \subseteq {p \in Parts : m.loaded[p]}
  BY DEF Dirty
<1>3. [todo |-> Dirty(m, seen), displaced |-> IF seen.flow = m.flow THEN NoFlow ELSE seen.flow,
       next |-> next] \in Saves
  BY <1>1, <1>2 DEF Saves
<1> QED
  BY <1>1, <1>2, <1>3, FilesAssumption DEF SaveOf

\* A retirement that cannot archive ends, or goes on knowing it.
LEMMA FailsIs ==
    ASSUME ret \in Rets, ArchiveFails
    PROVE  /\ ret' \in Rets /\ UNCHANGED <<engine, snap, cold>>
           /\ \/ pc' = "idle" /\ ret' = NoRet
              \/ pc' = "unsnap" /\ ret'.flow = ret.flow /\ ~ret'.landed
<1>1. CASE ret.by = "salvage"
  BY <1>1, BodyFacts DEF ArchiveFails, NoRet, Rets
<1>2. CASE ret.by # "salvage"
  BY <1>2, BodyFacts DEF ArchiveFails, Rets
<1> QED
  BY <1>1, <1>2

\* Bodies that were copied.
LEMMA CopiedIs ==
    ASSUME CoreInv, Copy
    PROVE  /\ pc = "copy" /\ UNCHANGED <<engine, snap, cold, archive, mem>>
           /\ \/ /\ pc' = "publish" /\ ret' \in Rets /\ ret'.flow = ret.flow
                 /\ ret'.landed = ret.landed /\ ret'.copy = cold[ret.flow]
                 /\ ret'.alive <=> snap[ret.flow] # NoHeader
              \/ ArchiveFails
<1>0. ret \in Rets /\ BodiesTyped
  BY TypeOKIs DEF CoreInv, WorkTyped
<1>1. PICK ok \in Outcomes("disk") :
        IF ok THEN /\ ret' = [ret EXCEPT !.copy = cold[ret.flow],
                                         !.alive = snap[ret.flow] # NoHeader]
                   /\ pc' = "publish"
                   /\ UNCHANGED <<engine, snap, cold>>
        ELSE ArchiveFails
  BY DEF Copy
<1>2. pc = "copy" /\ UNCHANGED <<archive, mem>> /\ ret.flow \in Flows
  BY DEF Copy, CoreInv, WorkInv, Retiring
<1>3. CASE ArchiveFails
  BY <1>2, <1>3 DEF ArchiveFails
<1>4. CASE ret' = [ret EXCEPT !.copy = cold[ret.flow], !.alive = snap[ret.flow] # NoHeader]
           /\ pc' = "publish" /\ UNCHANGED <<engine, snap, cold>>
  <2>1. cold[ret.flow] \in [Parts -> Body] /\ (snap[ret.flow] # NoHeader) \in BOOLEAN
    BY <1>0, <1>2 DEF BodiesTyped
  <2> QED
    BY <1>0, <1>2, <1>4, <2>1 DEF Rets
<1> QED
  BY <1>1, <1>3, <1>4

\* Whoever is at work keeps the types.
LEMMA NextWorkTyped ==
    ASSUME CoreInv, Next
    PROVE  WorkTyped'
<1>0. HeadersTyped /\ BodiesTyped /\ WorkTyped /\ GhostsTyped /\ WorkInv
  BY TypeOKIs DEF CoreInv
<1> USE <1>0, BodyFacts, FilesAssumption DEF HeadersTyped, WorkTyped, Mems, Saves, Rets, Headers,
        BodiesTyped, WorkInv, Running, Saving, Retiring, Places
<1>1. ASSUME NEW p \in Parts, WriteBody(p)
     PROVE  WorkTyped'
  BY <1>1 DEF WriteBody
<1>2. ASSUME WriteHeader
     PROVE  WorkTyped'
  BY <1>2 DEF WriteHeader
<1>3. ASSUME PruneDisplaced
     PROVE  WorkTyped'
  BY <1>3 DEF PruneDisplaced, Prune
<1>4. ASSUME WriteSnapshot
     PROVE  WorkTyped'
  BY <1>4 DEF WriteSnapshot, NoSave
<1>5. ASSUME ClearSnapshot
     PROVE  WorkTyped'
  BY <1>5 DEF ClearSnapshot, Unlink
<1>6. ASSUME PruneOwn
     PROVE  WorkTyped'
  BY <1>6 DEF PruneOwn, Prune, NoSave
<1>7. ASSUME NEW f \in Flows, Create(f)
     PROVE  WorkTyped'
  <2>1. /\ pc' = "bodies" /\ UNCHANGED ret
        /\ mem' \in Mems /\ mem'.flow = f
        /\ \E seen : Seen(seen) /\ SaveOf(mem', seen, "work")
    BY ONLY <1>7, CoreInv, CreateIs DEF Rest
  <2> QED
    BY ONLY <2>1, <1>0, f \in Flows, SaveOfIs DEF WorkTyped, Places
<1>8. ASSUME NEW f \in Flows, Resume(f)
     PROVE  WorkTyped'
  <2>1. PICK seen :
          /\ Seen(seen) /\ UNCHANGED ret /\ mem' \in Mems /\ mem'.flow = f
          /\ \/ seen.flow = f /\ pc' = "arm" /\ UNCHANGED save
             \/ seen.flow # f /\ pc' = "bodies" /\ SaveOf(mem', seen, "arm")
    BY ONLY <1>8, CoreInv, ResumeIs DEF Rest
  <2> QED
    BY ONLY <2>1, <1>0, f \in Flows, SaveOfIs DEF WorkTyped, Places
<1>9. ASSUME Access("current")
     PROVE  WorkTyped'
  <2>1. mem' \in Mems /\ pc' \in {"armed", "work"} /\ UNCHANGED <<save, ret>>
    BY ONLY <1>9, CoreInv, AccessIs DEF Rest
  <2> QED
    BY ONLY <2>1, <1>0 DEF WorkTyped, Places
<1>10. ASSUME Access("past")
     PROVE  WorkTyped'
  <2>1. mem' \in Mems /\ pc' \in {"armed", "work"} /\ UNCHANGED <<save, ret>>
    BY ONLY <1>10, CoreInv, AccessIs DEF Rest
  <2> QED
    BY ONLY <2>1, <1>0 DEF WorkTyped, Places
<1>11. ASSUME Rearm
     PROVE  WorkTyped'
  <2>1. pc = "armed"
    BY <1>11 DEF Rearm
  <2>2. /\ pc' = "bodies" /\ UNCHANGED ret /\ mem' \in Mems /\ mem'.flow = mem.flow
    BY ONLY <1>11, <2>1, CoreInv, Produces DEF Rest
  <2>3. PICK seen, next :
          next \in {"work", "reclaim"} /\ Seen(seen) /\ SaveOf(mem', seen, next)
    BY ONLY <1>11, <2>1, CoreInv, Produces
  <2>4. mem'.flow \in Flows
    BY ONLY <2>1, <2>2, <1>0 DEF WorkInv, Running
  <2>5. save' \in Saves
    BY ONLY <2>3, <2>4, <1>0, SaveOfIs
  <2> QED
    BY ONLY <2>2, <2>5, <1>0 DEF WorkTyped, Places
<1>12. ASSUME LeaveStep
     PROVE  WorkTyped'
  BY <1>12 DEF LeaveStep
<1>13. ASSUME Work("open")
     PROVE  WorkTyped'
  <2>1. pc = "work"
    BY <1>13 DEF Work
  <2>2. /\ pc' = "bodies" /\ UNCHANGED ret /\ mem' \in Mems /\ mem'.flow = mem.flow
    BY ONLY <1>13, <2>1, CoreInv, Produces DEF Rest
  <2>3. PICK seen, next :
          next \in {"work", "reclaim"} /\ Seen(seen) /\ SaveOf(mem', seen, next)
    BY ONLY <1>13, <2>1, CoreInv, Produces
  <2>4. mem'.flow \in Flows
    BY ONLY <2>1, <2>2, <1>0 DEF WorkInv, Running
  <2>5. save' \in Saves
    BY ONLY <2>3, <2>4, <1>0, SaveOfIs
  <2> QED
    BY ONLY <2>2, <2>5, <1>0 DEF WorkTyped, Places
<1>14. ASSUME Work("completed")
     PROVE  WorkTyped'
  <2>1. pc = "work"
    BY <1>14 DEF Work
  <2>2. /\ pc' = "bodies" /\ UNCHANGED ret /\ mem' \in Mems /\ mem'.flow = mem.flow
    BY ONLY <1>14, <2>1, CoreInv, Produces DEF Rest
  <2>3. PICK seen, next :
          next \in {"work", "reclaim"} /\ Seen(seen) /\ SaveOf(mem', seen, next)
    BY ONLY <1>14, <2>1, CoreInv, Produces
  <2>4. mem'.flow \in Flows
    BY ONLY <2>1, <2>2, <1>0 DEF WorkInv, Running
  <2>5. save' \in Saves
    BY ONLY <2>3, <2>4, <1>0, SaveOfIs
  <2> QED
    BY ONLY <2>2, <2>5, <1>0 DEF WorkTyped, Places
<1>15. ASSUME Reclaim
     PROVE  WorkTyped'
  BY <1>15 DEF Reclaim, NoMem
<1>16. ASSUME Exit
     PROVE  WorkTyped'
  BY <1>16 DEF Exit, NoMem
<1>17. ASSUME Salvage
     PROVE  WorkTyped'
  BY <1>17 DEF Salvage, NoRet
<1>18. ASSUME NEW f \in Flows, EndSession(f)
     PROVE  WorkTyped'
  BY <1>18 DEF EndSession, NoRet
<1>19. ASSUME Copy
     PROVE  WorkTyped'
  <2>1. mem' = mem /\ save' = save /\ (ArchiveFails \/ (pc' = "publish" /\ ret' \in Rets))
    BY ONLY <1>19, CoreInv, CopiedIs DEF Copy
  <2> QED
    BY ONLY <2>1, <1>0, FailsIs DEF WorkTyped, Places
<1>20. ASSUME Publish
     PROVE  WorkTyped'
  <2>1. mem' = mem /\ save' = save
        /\ (ArchiveFails \/ (pc' \in {"unlive", "rmlive"} /\ ret' = ret))
    BY ONLY <1>20 DEF Publish
  <2> QED
    BY ONLY <2>1, <1>0, FailsIs DEF WorkTyped, Places
<1>21. ASSUME Unlive
     PROVE  WorkTyped'
  <2>1. mem' = mem /\ save' = save /\ (ArchiveFails \/ (pc' = "rmlive" /\ ret' = ret))
    BY ONLY <1>21 DEF Unlive
  <2> QED
    BY ONLY <2>1, <1>0, FailsIs DEF WorkTyped, Places
<1>22. ASSUME RemoveLive
     PROVE  WorkTyped'
  BY <1>22 DEF RemoveLive
<1>23. ASSUME RetireSnapshot
     PROVE  WorkTyped'
  BY <1>23 DEF RetireSnapshot, Unlink
<1>24. ASSUME PruneRetired
     PROVE  WorkTyped'
  BY <1>24 DEF PruneRetired, Prune
<1>25. ASSUME Discard
     PROVE  WorkTyped'
  BY <1>25 DEF Discard, NoRet
<1>26. ASSUME Crash
     PROVE  WorkTyped'
  BY <1>26 DEF Crash, NoMem, NoSave, NoRet
<1> QED
  BY <1>1, <1>2, <1>3, <1>4, <1>5, <1>6, <1>7, <1>8, <1>9, <1>10, <1>11, <1>12,
    <1>13, <1>14, <1>15, <1>16, <1>17, <1>18, <1>19, <1>20, <1>21, <1>22,
    <1>23, <1>24, <1>25, <1>26
     DEF Next, SaveStep, RunStep, RetireStep

\* Every step keeps who is at work on what.
LEMMA NextWorkInv ==
    ASSUME CoreInv, Next
    PROVE  WorkInv'
<1>0. HeadersTyped /\ BodiesTyped /\ WorkTyped /\ GhostsTyped /\ WorkInv
  BY TypeOKIs DEF CoreInv
<1> USE <1>0, FilesAssumption DEF WorkTyped, WorkInv, Running, Saving, Retiring
<1>1. ASSUME NEW p \in Parts, WriteBody(p)
     PROVE  WorkInv'
  BY <1>1 DEF WriteBody, Saves
<1>2. ASSUME WriteHeader
     PROVE  WorkInv'
  BY <1>2 DEF WriteHeader, Header
<1>3. ASSUME PruneDisplaced
     PROVE  WorkInv'
  BY <1>3 DEF PruneDisplaced, Prune
<1>4. ASSUME WriteSnapshot
     PROVE  WorkInv'
  BY <1>4 DEF WriteSnapshot, NoSave, Saves
<1>5. ASSUME ClearSnapshot
     PROVE  WorkInv'
  BY <1>5 DEF ClearSnapshot, Unlink
<1>6. ASSUME PruneOwn
     PROVE  WorkInv'
  BY <1>6 DEF PruneOwn, Prune, NoSave, Saves
<1>7. ASSUME NEW f \in Flows, Create(f)
     PROVE  WorkInv'
  <2>1. /\ pc' = "bodies" /\ mem' \in Mems /\ mem'.flow = f /\ mem'.status = "open"
        /\ \A p \in Parts : mem'.val[p] = 1
        /\ \E seen : Seen(seen) /\ SaveOf(mem', seen, "work")
    BY ONLY <1>7, CoreInv, CreateIs
  <2>2. save'.next = "work" /\ save'.displaced # mem'.flow
        /\ save'.todo \subseteq {p \in Parts : mem'.loaded[p]}
    BY ONLY <2>1, <1>0, f \in Flows, SaveOfIs
  <2> QED
    BY ONLY <2>1, <2>2, f \in Flows, BodyFacts DEF WorkInv, Running, Saving, Retiring
<1>8. ASSUME NEW f \in Flows, Resume(f)
     PROVE  WorkInv'
  <2>1. PICK seen :
          /\ Seen(seen) /\ mem' \in Mems /\ mem'.flow = f /\ mem'.status = "open"
          /\ \A p \in Parts : mem'.val[p] # NoBody
          /\ \/ pc' = "arm" /\ UNCHANGED save
             \/ pc' = "bodies" /\ SaveOf(mem', seen, "arm")
    BY ONLY <1>8, CoreInv, ResumeIs, BodyFacts
  <2>2. pc' = "bodies" => /\ save'.next = "arm" /\ save'.displaced # mem'.flow
                          /\ save'.todo \subseteq {p \in Parts : mem'.loaded[p]}
    BY ONLY <2>1, <1>0, f \in Flows, SaveOfIs
  <2> QED
    BY ONLY <2>1, <2>2, f \in Flows DEF WorkInv, Running, Saving, Retiring
<1>9. ASSUME Access("current")
     PROVE  WorkInv'
  <2>1. PICK ok \in BOOLEAN :
          /\ pc \in {"arm", "work"} /\ pc' \in {"armed", "work"}
          /\ mem'.flow = mem.flow /\ mem'.status = mem.status
          /\ mem'.val = [mem.val EXCEPT !["current"] = IF ok THEN cold[mem.flow]["current"] ELSE Blank]
          /\ ok => cold[mem.flow]["current"] # NoBody
    BY ONLY <1>9, CoreInv, AccessIs
  <2>2. \A p \in Parts : mem'.val[p] # NoBody
    BY ONLY <2>1, <1>0, BodyFacts DEF WorkInv, Running, WorkTyped, Mems
  <2> QED
    BY ONLY <2>1, <2>2, <1>0 DEF WorkInv, Running, Saving, Retiring
<1>10. ASSUME Access("past")
     PROVE  WorkInv'
  <2>1. PICK ok \in BOOLEAN :
          /\ pc \in {"arm", "work"} /\ pc' \in {"armed", "work"}
          /\ mem'.flow = mem.flow /\ mem'.status = mem.status
          /\ mem'.val = [mem.val EXCEPT !["past"] = IF ok THEN cold[mem.flow]["past"] ELSE Blank]
          /\ ok => cold[mem.flow]["past"] # NoBody
    BY ONLY <1>10, CoreInv, AccessIs
  <2>2. \A p \in Parts : mem'.val[p] # NoBody
    BY ONLY <2>1, <1>0, BodyFacts DEF WorkInv, Running, WorkTyped, Mems
  <2> QED
    BY ONLY <2>1, <2>2, <1>0 DEF WorkInv, Running, Saving, Retiring
<1>11. ASSUME Rearm
     PROVE  WorkInv'
  <2>1. pc = "armed"
    BY <1>11 DEF Rearm
  <2>2. /\ pc' = "bodies" /\ mem' \in Mems /\ mem'.flow = mem.flow
        /\ mem'.loaded = [mem.loaded EXCEPT !["current"] = TRUE]
        /\ mem'.val["past"] = mem.val["past"]
        /\ mem'.val["current"] \in Real \cup {mem.val["current"]}
        /\ mem'.val["context"] \in Real \cup {mem.val["context"]}
    BY ONLY <1>11, <2>1, CoreInv, Produces
  <2>3. PICK seen, next : /\ Seen(seen) /\ SaveOf(mem', seen, next)
                          /\ next \in {"work", "reclaim"}
                          /\ next = "reclaim" <=> mem'.status = "completed"
    BY ONLY <1>11, <2>1, CoreInv, Produces
  <2>4. mem'.flow \in Flows /\ \A p \in Parts : mem.val[p] # NoBody
    BY <2>1, <2>2
  <2>5. \A p \in Parts : mem'.val[p] # NoBody
    BY ONLY <2>2, <2>4, BodyFacts DEF Parts
  <2>6. /\ save'.next \in {"work", "reclaim"} /\ save'.displaced # mem'.flow
        /\ save'.next = "reclaim" <=> mem'.status = "completed"
        /\ save'.todo \subseteq {p \in Parts : mem'.loaded[p]}
    BY ONLY <2>4, <2>3, <1>0, SaveOfIs
  <2> QED
    BY ONLY <2>2, <2>4, <2>5, <2>6 DEF WorkInv, Running, Saving, Retiring
<1>12. ASSUME LeaveStep
     PROVE  WorkInv'
  BY <1>12 DEF LeaveStep
<1>13. ASSUME Work("open")
     PROVE  WorkInv'
  <2>1. pc = "work"
    BY <1>13 DEF Work
  <2>2. /\ pc' = "bodies" /\ mem' \in Mems /\ mem'.flow = mem.flow
        /\ mem'.loaded = [mem.loaded EXCEPT !["current"] = TRUE]
        /\ mem'.val["past"] = mem.val["past"]
        /\ mem'.val["current"] \in Real \cup {mem.val["current"]}
        /\ mem'.val["context"] \in Real \cup {mem.val["context"]}
    BY ONLY <1>13, <2>1, CoreInv, Produces
  <2>3. PICK seen, next : /\ Seen(seen) /\ SaveOf(mem', seen, next)
                          /\ next \in {"work", "reclaim"}
                          /\ next = "reclaim" <=> mem'.status = "completed"
    BY ONLY <1>13, <2>1, CoreInv, Produces
  <2>4. mem'.flow \in Flows /\ \A p \in Parts : mem.val[p] # NoBody
    BY <2>1, <2>2
  <2>5. \A p \in Parts : mem'.val[p] # NoBody
    BY ONLY <2>2, <2>4, BodyFacts DEF Parts
  <2>6. /\ save'.next \in {"work", "reclaim"} /\ save'.displaced # mem'.flow
        /\ save'.next = "reclaim" <=> mem'.status = "completed"
        /\ save'.todo \subseteq {p \in Parts : mem'.loaded[p]}
    BY ONLY <2>4, <2>3, <1>0, SaveOfIs
  <2> QED
    BY ONLY <2>2, <2>4, <2>5, <2>6 DEF WorkInv, Running, Saving, Retiring
<1>14. ASSUME Work("completed")
     PROVE  WorkInv'
  <2>1. pc = "work"
    BY <1>14 DEF Work
  <2>2. /\ pc' = "bodies" /\ mem' \in Mems /\ mem'.flow = mem.flow
        /\ mem'.loaded = [mem.loaded EXCEPT !["current"] = TRUE]
        /\ mem'.val["past"] = mem.val["past"]
        /\ mem'.val["current"] \in Real \cup {mem.val["current"]}
        /\ mem'.val["context"] \in Real \cup {mem.val["context"]}
    BY ONLY <1>14, <2>1, CoreInv, Produces
  <2>3. PICK seen, next : /\ Seen(seen) /\ SaveOf(mem', seen, next)
                          /\ next \in {"work", "reclaim"}
                          /\ next = "reclaim" <=> mem'.status = "completed"
    BY ONLY <1>14, <2>1, CoreInv, Produces
  <2>4. mem'.flow \in Flows /\ \A p \in Parts : mem.val[p] # NoBody
    BY <2>1, <2>2
  <2>5. \A p \in Parts : mem'.val[p] # NoBody
    BY ONLY <2>2, <2>4, BodyFacts DEF Parts
  <2>6. /\ save'.next \in {"work", "reclaim"} /\ save'.displaced # mem'.flow
        /\ save'.next = "reclaim" <=> mem'.status = "completed"
        /\ save'.todo \subseteq {p \in Parts : mem'.loaded[p]}
    BY ONLY <2>4, <2>3, <1>0, SaveOfIs
  <2> QED
    BY ONLY <2>2, <2>4, <2>5, <2>6 DEF WorkInv, Running, Saving, Retiring
<1>15. ASSUME Reclaim
     PROVE  WorkInv'
  BY <1>15 DEF Reclaim, NoMem
<1>16. ASSUME Exit
     PROVE  WorkInv'
  BY <1>16 DEF Exit, NoMem
<1>17. ASSUME Salvage
     PROVE  WorkInv'
  BY <1>17 DEF Salvage, NoRet, HeadersTyped, Headers
<1>18. ASSUME NEW f \in Flows, EndSession(f)
     PROVE  WorkInv'
  BY <1>18 DEF EndSession, NoRet
<1>19. ASSUME Copy
     PROVE  WorkInv'
  <2>1. /\ mem' = mem /\ pc = "copy"
        /\ ArchiveFails \/ (pc' = "publish" /\ ret'.flow = ret.flow /\ ret'.landed = ret.landed)
    BY ONLY <1>19, CoreInv, CopiedIs
  <2> QED
    BY <2>1, FailsIs
<1>20. ASSUME Publish
     PROVE  WorkInv'
  <2>1. /\ mem' = mem /\ pc = "publish"
        /\ ArchiveFails \/ (pc' \in {"unlive", "rmlive"} /\ ret' = ret)
    BY ONLY <1>20 DEF Publish
  <2> QED
    BY <2>1, FailsIs
<1>21. ASSUME Unlive
     PROVE  WorkInv'
  <2>1. /\ mem' = mem /\ pc = "unlive"
        /\ ArchiveFails \/ (pc' = "rmlive" /\ ret' = ret)
    BY ONLY <1>21 DEF Unlive
  <2> QED
    BY <2>1, FailsIs
<1>22. ASSUME RemoveLive
     PROVE  WorkInv'
  BY <1>22 DEF RemoveLive
<1>23. ASSUME RetireSnapshot
     PROVE  WorkInv'
  BY <1>23 DEF RetireSnapshot, Unlink
<1>24. ASSUME PruneRetired
     PROVE  WorkInv'
  BY <1>24 DEF PruneRetired, Prune
<1>25. ASSUME Discard
     PROVE  WorkInv'
  BY <1>25 DEF Discard, NoRet
<1>26. ASSUME Crash
     PROVE  WorkInv'
  BY <1>26 DEF Crash, NoMem, NoSave, NoRet
<1> QED
  BY <1>1, <1>2, <1>3, <1>4, <1>5, <1>6, <1>7, <1>8, <1>9, <1>10, <1>11, <1>12,
    <1>13, <1>14, <1>15, <1>16, <1>17, <1>18, <1>19, <1>20, <1>21, <1>22,
    <1>23, <1>24, <1>25, <1>26
     DEF Next, SaveStep, RunStep, RetireStep

\* Every step keeps the types.
LEMMA NextTypeOK == ASSUME CoreInv, Next PROVE TypeOK'
<1>1. HeadersTyped' /\ BodiesTyped' /\ WorkTyped' /\ GhostsTyped'
  BY NextHeadersTyped, NextBodiesTyped, NextWorkTyped, NextGhostsTyped
<1> QED
  BY <1>1 DEF TypeOK, HeadersTyped, BodiesTyped, WorkTyped, GhostsTyped, Body, Mems, Saves, Rets

\* Every step keeps what was not read as it is.
LEMMA NextWholeInv ==
    ASSUME CoreInv, Next
    PROVE  WholeInv'
<1>0. HeadersTyped /\ BodiesTyped /\ WorkTyped /\ GhostsTyped /\ WorkInv
  BY TypeOKIs DEF CoreInv
<1> WholeInv
  BY DEF CoreInv
<1>1. ASSUME \/ WriteHeader
             \/ WriteSnapshot
             \/ ClearSnapshot
             \/ LeaveStep
             \/ Salvage
             \/ \E f \in Flows : EndSession(f)
             \/ Copy
     PROVE  UNCHANGED <<cold, mem>>
  BY ONLY <1>1 DEF WriteHeader, WriteSnapshot, ClearSnapshot, Unlink,
    LeaveStep, Salvage, EndSession, Copy, ArchiveFails, files
<1>2. ASSUME \/ Publish
             \/ Unlive
             \/ RetireSnapshot
             \/ Discard
     PROVE  UNCHANGED <<cold, mem>>
  BY ONLY <1>2 DEF Publish, ArchiveFails, Unlive, RetireSnapshot, Unlink,
    Discard, files
<1>3. CASE UNCHANGED <<cold, mem>>
  BY <1>3 DEF CoreInv, WholeInv, UnreadStaysWhole
<1> USE <1>0 DEF WholeInv, UnreadStaysWhole
<1>4. ASSUME NEW p \in Parts, WriteBody(p)
     PROVE  WholeInv'
  <2>1. p \in save.todo /\ pc = "bodies" /\ mem' = mem
        /\ cold' = [cold EXCEPT ![mem.flow][p] = mem.val[p]]
    BY <1>4 DEF WriteBody
  <2>2. mem.loaded[p] /\ mem.flow \in Flows
    BY <2>1, <1>0 DEF WorkInv, Saving, Running
  <2>3. \A g \in Flows, q \in Parts : cold'[g][q] = IF g = mem.flow /\ q = p THEN mem.val[p]
                                                ELSE cold[g][q]
    BY <2>1, <2>2, <1>0 DEF BodiesTyped
  <2> QED
    BY <2>1, <2>2, <2>3 DEF Parts
<1>5. ASSUME PruneDisplaced
     PROVE  WholeInv'
  <2>1. UNCHANGED mem /\ \E f \in Flows : cold' \in {cold, [cold EXCEPT ![f] = NoBodies]}
    BY <1>5, <1>0 DEF PruneDisplaced, Prune, WorkInv, WorkTyped, Saves, Mems, Running, Saving, Retiring
  <2> QED
    BY <2>1, <1>0, BodyFacts DEF BodiesTyped, Parts
<1>6. ASSUME PruneOwn
     PROVE  WholeInv'
  <2>1. UNCHANGED mem /\ \E f \in Flows : cold' \in {cold, [cold EXCEPT ![f] = NoBodies]}
    BY <1>6, <1>0 DEF PruneOwn, Prune, WorkInv, WorkTyped, Saves, Mems, Running, Saving, Retiring
  <2> QED
    BY <2>1, <1>0, BodyFacts DEF BodiesTyped, Parts
<1>7. ASSUME NEW f \in Flows, Create(f)
     PROVE  WholeInv'
  <2>1. UNCHANGED cold /\ \A p \in Parts : mem'.val[p] = 1
    BY ONLY <1>7, CoreInv, CreateIs DEF Rest
  <2> QED
    BY <2>1, BodyFacts DEF Parts
<1>8. ASSUME NEW f \in Flows, Resume(f)
     PROVE  WholeInv'
  <2>1. UNCHANGED cold /\ \A p \in Parts :
          mem'.loaded[p] => p = "context" /\ (cold[f][p] # Blank => mem'.val[p] # Blank)
    BY ONLY <1>8, CoreInv, ResumeIs DEF Rest
  <2>2. ~mem'.loaded["past"]
    BY ONLY <1>8, CoreInv, ResumeIs DEF Parts
  <2> QED
    BY <2>1, <2>2 DEF Parts
<1>9. ASSUME Access("current")
     PROVE  WholeInv'
  <2>1. PICK ok \in BOOLEAN :
          /\ UNCHANGED cold /\ mem.flow \in Flows
          /\ mem'.val = [mem.val EXCEPT !["current"] = IF ok THEN cold[mem.flow]["current"] ELSE Blank]
          /\ mem'.loaded = [mem.loaded EXCEPT !["current"] = ok]
    BY <1>9, CoreInv, AccessIs, <1>0 DEF Rest, WorkInv, Running
  <2> QED
    BY <2>1, <1>0 DEF Parts, WorkTyped, Mems
<1>10. ASSUME Access("past")
     PROVE  WholeInv'
  <2>1. PICK ok \in BOOLEAN :
          /\ UNCHANGED cold /\ mem.flow \in Flows
          /\ mem'.val = [mem.val EXCEPT !["past"] = IF ok THEN cold[mem.flow]["past"] ELSE Blank]
          /\ mem'.loaded = [mem.loaded EXCEPT !["past"] = ok]
    BY <1>10, CoreInv, AccessIs, <1>0 DEF Rest, WorkInv, Running
  <2> QED
    BY <2>1, <1>0 DEF Parts, WorkTyped, Mems
<1>11. ASSUME Rearm
     PROVE  WholeInv'
  <2>1. UNCHANGED cold /\ mem' = [mem EXCEPT !.loaded["current"] = TRUE]
    BY <1>11, SaveBegins DEF Rearm, KeepRest, files
  <2> QED
    BY <2>1, <1>0 DEF WorkTyped, Mems, Parts
<1>12. ASSUME Work("open")
     PROVE  WholeInv'
  <2>1. pc = "work"
    BY <1>12 DEF Work
  <2>2. /\ UNCHANGED cold
        /\ mem'.loaded = [mem.loaded EXCEPT !["current"] = TRUE]
        /\ mem'.val["past"] = mem.val["past"]
        /\ mem'.val["context"] \in Real \cup {mem.val["context"]}
    BY ONLY <1>12, <2>1, CoreInv, Produces DEF Rest
  <2> QED
    BY <2>2, <1>0, BodyFacts DEF WorkTyped, Mems, Parts
<1>13. ASSUME Work("completed")
     PROVE  WholeInv'
  <2>1. pc = "work"
    BY <1>13 DEF Work
  <2>2. /\ UNCHANGED cold
        /\ mem'.loaded = [mem.loaded EXCEPT !["current"] = TRUE]
        /\ mem'.val["past"] = mem.val["past"]
        /\ mem'.val["context"] \in Real \cup {mem.val["context"]}
    BY ONLY <1>13, <2>1, CoreInv, Produces DEF Rest
  <2> QED
    BY <2>2, <1>0, BodyFacts DEF WorkTyped, Mems, Parts
<1>14. ASSUME Reclaim
     PROVE  WholeInv'
  BY <1>14 DEF Reclaim, NoMem, Parts, files
<1>15. ASSUME Exit
     PROVE  WholeInv'
  BY <1>15 DEF Exit, NoMem, Parts, files
<1>16. ASSUME RemoveLive
     PROVE  WholeInv'
  <2>1. UNCHANGED mem /\ cold' \in {cold, [cold EXCEPT ![ret.flow] = NoBodies]}
    BY <1>16 DEF RemoveLive
  <2> QED
    BY <2>1, <1>0, BodyFacts DEF BodiesTyped, Parts
<1>17. ASSUME PruneRetired
     PROVE  WholeInv'
  <2>1. UNCHANGED mem /\ \E f \in Flows : cold' \in {cold, [cold EXCEPT ![f] = NoBodies]}
    BY <1>17, <1>0 DEF PruneRetired, Prune, WorkInv, WorkTyped, Saves, Mems, Running, Saving, Retiring
  <2> QED
    BY <2>1, <1>0, BodyFacts DEF BodiesTyped, Parts
<1>18. ASSUME Crash
     PROVE  WholeInv'
  BY <1>18 DEF Crash, NoMem, Parts, files
<1> QED
  BY <1>1, <1>2, <1>3, <1>4, <1>5, <1>6, <1>7, <1>8, <1>9, <1>10, <1>11, <1>12,
    <1>13, <1>14, <1>15, <1>16, <1>17, <1>18
     DEF Next, SaveStep, RunStep, RetireStep

\* It holds initially.
LEMMA InitCoreInv == Init => CoreInv
<1> SUFFICES ASSUME Init PROVE CoreInv
  OBVIOUS
<1>1. HeadersTyped /\ BodiesTyped /\ WorkTyped /\ GhostsTyped
  BY BodyFacts, NoHeaderIs, FilesAssumption
     DEF Init, HeadersTyped, BodiesTyped, WorkTyped, GhostsTyped, Places, Mems, Saves,
         Rets, NoMem, NoSave, NoRet
<1>2. WorkInv
  BY DEF Init, WorkInv, NoMem, Running, Saving, Retiring
<1>3. WholeInv
  BY BodyFacts DEF Init, WholeInv, UnreadStaysWhole, NoMem, Parts
<1> QED
  BY <1>1, <1>2, <1>3, TypeOKIs DEF CoreInv

\* Whichever troubles there are, the one who works on the root works on its own
\* flow, and what it holds as loaded is whole.
THEOREM CoreInvariant == Spec => []CoreInv
<1>1. CoreInv /\ [Next]_vars => CoreInv'
  <2>1. CASE Next
    BY <2>1, NextTypeOK, NextWorkInv, NextWholeInv DEF CoreInv
  <2>2. CASE UNCHANGED vars
    BY <2>2 DEF vars, files, CoreInv, TypeOK, WorkInv, WholeInv, UnreadStaysWhole
  <2> QED
    BY <2>1, <2>2
<1> QED
  BY <1>1, InitCoreInv, PTL DEF Spec

\* Type correctness for every set of flows, contents and troubles.
THEOREM TypeCorrect == Spec => []TypeOK
<1>1. CoreInv => TypeOK
  BY DEF CoreInv
<1> QED
  BY <1>1, CoreInvariant, PTL

\* A completed step's body, or the context, that could not be read is never
\* replaced by the empty one that memory holds for it, however often that happens.
THEOREM UnreadKept == Spec => []UnreadStaysWhole
<1>1. CoreInv => UnreadStaysWhole
  BY DEF CoreInv, WholeInv
<1> QED
  BY <1>1, CoreInvariant, PTL

-----------------------------------------------------------------------------
(* The invariant while engine.json can be read.                            *)

\* Where engine.json stands to the flow at work, and the headers to the life of
\* their flows.
HeaderInv ==
    /\ pc \in Running \ {"bodies"} => engine.flow = mem.flow
    /\ pc \in {"own", "reclaim"} => engine.status = mem.status
    /\ pc \in {"copy", "publish", "unlive"} => engine.flow = ret.flow
    /\ pc \in {"rmlive", "unsnap", "prune", "discard"} /\ ret.landed => engine.flow # ret.flow
    /\ pc \in {"publish", "unlive", "rmlive"} =>
         ret.copy = cold[ret.flow] /\ (ret.alive <=> snap[ret.flow] # NoHeader)
    /\ pc \in Retiring => life[ret.flow] # "none"
    /\ \A f \in Flows :
         /\ engine.flow = f => (engine.status = "open" <=> life[f] = "open")
         /\ snap[f] # NoHeader => snap[f].status = "open"
         /\ Referenced(f) => life[f] # "none"
         /\ mem.flow = f => \/ Referenced(f)
                            \/ life[f] = "none" /\ \A p \in Parts : mem.loaded[p]

\* Every reference resolves, those of the flow in memory included, and so does
\* everything the next header will refer to.
ResolveInv ==
    /\ \A f \in Flows :
         /\ engine.flow = f => Resolves(engine.ref, cold[f])
         /\ Resolves(snap[f].ref, cold[f])
         /\ mem.flow = f => Resolves(mem.ref, cold[f])
    /\ pc = "bodies" => \A p \in Parts :
         mem.loaded[p] => p \in save.todo \/ cold[mem.flow][p] # NoBody

\* The header is written, the snapshot has still to follow or to go.
Pending(f) == pc \in {"displaced", "snapshot"} /\ mem.flow = f

\* A snapshot is there exactly as long as the flow is open, but for the marks.
OpenInv ==
    \A f \in Flows : ~Pending(f) =>
        /\ life[f] = "open" /\ "unsnapped" \notin marks[f] => snap[f].flow = f
        /\ snap[f].flow = f /\ "kept" \notin marks[f] => life[f] = "open"

\* A flow whose baselines were reclaimed has ended for good.
DiscardInv ==
    \A f \in discarded :
        /\ life[f] # "none" /\ snap[f] = NoHeader /\ mem.flow # f
        /\ engine.flow = f => engine.status = "completed"

\* What the file of p holds is what ref says, if it says something.
Agrees(ref, f, p) == ref[p] # NoBody => cold[f][p] = ref[p]

\* The headers, the flow in memory and the last save agree with the bodies; while a
\* save writes, in the parts that it leaves alone, and in the others it has
\* written or found what memory holds.
StoredInv ==
    \A f \in Flows : "apart" \notin marks[f] =>
        /\ \A p \in Parts : ~(pc = "bodies" /\ mem.flow = f /\ mem.loaded[p]) =>
             /\ Referenced(f) => Agrees(saved[f], f, p)
             /\ engine.flow = f => Agrees(engine.ref, f, p)
             /\ ~Pending(f) => Agrees(snap[f].ref, f, p)
             /\ mem.flow = f /\ ~mem.loaded[p] => Agrees(mem.ref, f, p)
        /\ pc = "bodies" /\ mem.flow = f => \A p \in Parts :
             mem.loaded[p] /\ p \notin save.todo => cold[f][p] = mem.val[p]

\* The inductive invariant.
FilesInv == CoreInv /\ HeaderInv /\ ResolveInv /\ OpenInv /\ DiscardInv /\ StoredInv

\* Only bodies that nothing refers to are pruned.
LEMMA PruneIs ==
    ASSUME "header" \notin Troubles, NEW f, Prune(f)
    PROVE  \/ cold' = cold
           \/ cold' = [cold EXCEPT ![f] = NoBodies] /\ ~Referenced(f)
<1>1. PICK read \in Outcomes("header"), removed \in Outcomes("disk") :
        cold' = IF Orphan(f, SeenEngine(read)) /\ removed
                  THEN [cold EXCEPT ![f] = NoBodies] ELSE cold
  BY DEF Prune
<1>2. read
  BY Failing
<1> QED
  BY <1>1, <1>2 DEF Orphan, SeenEngine, Referenced

\* A snapshot is removed, or is still there and marked.
LEMMA UnlinkIs ==
    ASSUME CoreInv, NEW f \in Flows, NEW ended \in BOOLEAN, Unlink(f, ended)
    PROVE  \E gone \in BOOLEAN :
             /\ snap' = IF gone THEN [snap EXCEPT ![f] = NoHeader] ELSE snap
             /\ ~gone => snap[f] # NoHeader
             /\ \A g \in Flows \ {f} : marks'[g] = marks[g]
             /\ "apart" \in marks'[f] <=> "apart" \in marks[f] \/ (ended /\ ~gone)
             /\ "unsnapped" \in marks'[f] <=> "unsnapped" \in marks[f] \/ (~ended /\ gone)
             /\ "kept" \in marks'[f] <=> ~gone /\ ("kept" \in marks[f] \/ ended)
<1>0. HeadersTyped /\ GhostsTyped
  BY TypeOKIs DEF CoreInv
<1>1. PICK ok \in Outcomes("disk") :
        /\ snap' = IF ok THEN [snap EXCEPT ![f] = NoHeader] ELSE snap
        /\ marks' = [marks EXCEPT ![f] =
             (@ \ {m \in {"kept"} : ok \/ snap[f] = NoHeader})
               \cup {m \in {"kept", "apart"} : ended /\ ~(ok \/ snap[f] = NoHeader)}
               \cup {m \in {"unsnapped"} : ~ended /\ (ok \/ snap[f] = NoHeader)}]
  BY DEF Unlink
<1> DEFINE gone == ok \/ snap[f] = NoHeader
<1>2. gone \in BOOLEAN /\ ok \in BOOLEAN
  BY Failing
<1>3. snap' = IF gone THEN [snap EXCEPT ![f] = NoHeader] ELSE snap
  BY <1>0, <1>1, <1>2 DEF HeadersTyped
<1>4. /\ \A g \in Flows \ {f} : marks'[g] = marks[g]
      /\ marks'[f] = (marks[f] \ {m \in {"kept"} : gone})
                       \cup {m \in {"kept", "apart"} : ended /\ ~gone}
                       \cup {m \in {"unsnapped"} : ~ended /\ gone}
  BY <1>0, <1>1 DEF GhostsTyped
<1>5. ~gone => snap[f] # NoHeader
  OBVIOUS
<1> HIDE DEF gone
<1>6. /\ "apart" \in marks'[f] <=> "apart" \in marks[f] \/ (ended /\ ~gone)
      /\ "unsnapped" \in marks'[f] <=> "unsnapped" \in marks[f] \/ (~ended /\ gone)
      /\ "kept" \in marks'[f] <=> ~gone /\ ("kept" \in marks[f] \/ ended)
  BY ONLY <1>2, <1>4, ended \in BOOLEAN
<1> QED
  BY ONLY <1>2, <1>3, <1>4, <1>5, <1>6

\* A snapshot is written, or its absence is marked.
LEMMA SnapshotIs ==
    ASSUME CoreInv, WriteSnapshot
    PROVE  /\ pc = "snapshot" /\ mem.flow \in Flows /\ mem.status = "open"
           /\ engine.flow = mem.flow /\ engine.status = "open"
           /\ pc' \in {"arm", "work"}
           /\ UNCHANGED <<engine, cold, archive, mem, ret, life, saved, discarded>>
           /\ \A g \in Flows \ {mem.flow} : marks'[g] = marks[g]
           /\ \/ /\ snap' = [snap EXCEPT ![mem.flow] = engine]
                 /\ marks'[mem.flow] = marks[mem.flow] \ {"unsnapped"}
              \/ /\ snap' = snap
                 /\ marks'[mem.flow] = marks[mem.flow] \cup {"unsnapped", "apart"}
<1>0. GhostsTyped /\ WorkTyped
  BY TypeOKIs DEF CoreInv
<1>1. /\ pc = "snapshot" /\ mem.status = "open" /\ pc' = save.next
      /\ UNCHANGED <<engine, cold, archive, mem, ret, life, saved, discarded>>
  BY DEF WriteSnapshot
<1>2. mem.flow \in Flows /\ engine.flow = mem.flow /\ engine.status = mem.status
      /\ save.next # "idle" /\ (save.next = "reclaim" <=> mem.status = "completed")
  BY <1>1 DEF CoreInv, WorkInv, Running, Saving
<1>3. pc' \in {"arm", "work"}
  BY <1>0, <1>1, <1>2 DEF WorkTyped, Saves
<1>4. \/ /\ snap' = [snap EXCEPT ![mem.flow] = engine]
         /\ marks' = [marks EXCEPT ![mem.flow] = @ \ {"unsnapped"}]
      \/ /\ snap' = snap
         /\ marks' = [marks EXCEPT ![mem.flow] = @ \cup {"unsnapped", "apart"}]
  BY DEF WriteSnapshot, Unmark
<1> QED
  BY <1>0, <1>1, <1>2, <1>3, <1>4 DEF GhostsTyped

\* Every step keeps headers, work and life together.
LEMMA NextHeaderInv ==
    ASSUME "header" \notin Troubles, FilesInv, Next
    PROVE  HeaderInv'
<1>r. "header" \notin Troubles
  OBVIOUS
<1>0. /\ HeadersTyped /\ BodiesTyped /\ WorkTyped /\ GhostsTyped
      /\ CoreInv /\ WorkInv /\ HeaderInv
  BY TypeOKIs DEF CoreInv, FilesInv
<1> USE <1>0, FilesAssumption, NoHeaderIs
        DEF HeadersTyped, WorkTyped, WorkInv, HeaderInv, Running, Saving, Retiring, Referenced
<1>1. ASSUME NEW p \in Parts, WriteBody(p)
     PROVE  HeaderInv'
  <2>1. pc = "bodies" /\ pc' = pc /\ UNCHANGED <<engine, snap, mem, ret, life>>
    BY <1>1 DEF WriteBody
  <2> QED
    BY <2>1
<1>2. ASSUME WriteHeader
     PROVE  HeaderInv'
  <2>1. /\ pc = "bodies" /\ pc' \in {"displaced", "snapshot"} /\ UNCHANGED <<snap, mem>>
        /\ engine'.flow = mem.flow /\ engine'.status = mem.status
        /\ life' = [life EXCEPT ![mem.flow] = IF mem.status = "open" THEN "open" ELSE "ended"]
    BY <1>2 DEF WriteHeader, Header
  <2>2. mem.flow \in Flows
    BY <2>1
  <2>3. \A g \in Flows : life'[g] = IF g # mem.flow THEN life[g]
                                   ELSE IF mem.status = "open" THEN "open" ELSE "ended"
    BY <2>1, <2>2 DEF GhostsTyped
  <2> QED
    BY <2>1, <2>2, <2>3
<1>3. ASSUME PruneDisplaced
     PROVE  HeaderInv'
  BY <1>3 DEF PruneDisplaced, Prune
<1>4. ASSUME WriteSnapshot
     PROVE  HeaderInv'
  <2>1. \/ snap' = snap \/ snap' = [snap EXCEPT ![mem.flow] = engine]
    BY <1>4, SnapshotIs
  <2> QED
    BY <1>4, <2>1, SnapshotIs
<1>5. ASSUME ClearSnapshot
     PROVE  HeaderInv'
  <2>1. /\ pc = "snapshot" /\ pc' = "own" /\ mem.flow \in Flows
        /\ UNCHANGED <<engine, mem, life>>
        /\ Unlink(mem.flow, TRUE)
    BY <1>5 DEF ClearSnapshot
  <2>2. snap' = snap \/ snap' = [snap EXCEPT ![mem.flow] = NoHeader]
    BY <2>1, UnlinkIs
  <2> QED
    BY <2>1, <2>2
<1>6. ASSUME PruneOwn
     PROVE  HeaderInv'
  BY <1>6 DEF PruneOwn, Prune, Saves
<1>7. ASSUME NEW f \in Flows, Create(f)
     PROVE  HeaderInv'
  <2>1. /\ pc = "idle" /\ life[f] = "none" /\ pc' = "bodies" /\ mem'.flow = f
        /\ \A p \in Parts : mem'.loaded[p] = TRUE
        /\ UNCHANGED <<engine, snap, life>>
    BY <1>7, CreateIs DEF Rest
  <2> QED
    BY <2>1
<1>8. ASSUME NEW f \in Flows, Resume(f)
     PROVE  HeaderInv'
  <2>1. /\ Found(f, engine).flow = f /\ pc' \in {"arm", "bodies"} /\ mem'.flow = f
        /\ pc' = "arm" => engine.flow = f
        /\ pc = "idle" /\ UNCHANGED <<engine, snap, life>>
    BY <1>8, ResumeIs DEF Rest, Seen
  <2>2. Referenced(f)
    BY <2>1 DEF Found
  <2> QED
    BY <2>1, <2>2
<1>9. ASSUME Access("current")
     PROVE  HeaderInv'
  <2>1. PICK p \in {"current", "past"} : Access(p)
    BY <1>9
  <2>2. /\ pc \in {"arm", "work"} /\ pc' \in {"armed", "work"}
        /\ UNCHANGED <<engine, snap, life>> /\ mem'.flow = mem.flow
    BY ONLY <1>0, <2>1, AccessIs DEF Rest
  <2> QED
    BY <2>2
<1>10. ASSUME Access("past")
     PROVE  HeaderInv'
  <2>1. PICK p \in {"current", "past"} : Access(p)
    BY <1>10
  <2>2. /\ pc \in {"arm", "work"} /\ pc' \in {"armed", "work"}
        /\ UNCHANGED <<engine, snap, life>> /\ mem'.flow = mem.flow
    BY ONLY <1>0, <2>1, AccessIs DEF Rest
  <2> QED
    BY <2>2
<1>11. ASSUME Rearm
     PROVE  HeaderInv'
  <2>1. pc = "armed"
    BY <1>11 DEF Rearm
  <2>2. /\ pc' = "bodies" /\ mem'.flow = mem.flow /\ UNCHANGED <<engine, snap, life>>
    BY <1>11, <2>1, Produces DEF Rest
  <2>3. engine.flow = mem.flow
    BY <2>1
  <2> QED
    BY <2>2, <2>3
<1>12. ASSUME LeaveStep
     PROVE  HeaderInv'
  BY <1>12 DEF LeaveStep, files
<1>13. ASSUME Work("open")
     PROVE  HeaderInv'
  <2>1. pc = "work"
    BY <1>13 DEF Work
  <2>2. /\ pc' = "bodies" /\ mem'.flow = mem.flow /\ UNCHANGED <<engine, snap, life>>
    BY <1>13, <2>1, Produces DEF Rest
  <2>3. engine.flow = mem.flow
    BY <2>1
  <2> QED
    BY <2>2, <2>3
<1>14. ASSUME Work("completed")
     PROVE  HeaderInv'
  <2>1. pc = "work"
    BY <1>14 DEF Work
  <2>2. /\ pc' = "bodies" /\ mem'.flow = mem.flow /\ UNCHANGED <<engine, snap, life>>
    BY <1>14, <2>1, Produces DEF Rest
  <2>3. engine.flow = mem.flow
    BY <2>1
  <2> QED
    BY <2>2, <2>3
<1>15. ASSUME Reclaim
     PROVE  HeaderInv'
  BY <1>15 DEF Reclaim, NoMem, files
<1>16. ASSUME Exit
     PROVE  HeaderInv'
  BY <1>16 DEF Exit, NoMem, files
<1>17. ASSUME Salvage
     PROVE  HeaderInv'
  <2>1. /\ pc = "idle" /\ pc' = "copy" /\ engine.flow # NoFlow
        /\ UNCHANGED <<engine, snap, mem, life, cold>>
        /\ ret'.flow = engine.flow /\ ret'.landed = TRUE
    BY ONLY <1>17 DEF Salvage, NoRet, files
  <2>2. engine.flow \in Flows
    BY <2>1 DEF Headers
  <2> QED
    BY <2>1, <2>2
<1>18. ASSUME NEW f \in Flows, EndSession(f)
     PROVE  HeaderInv'
  <2>1. /\ pc = "idle" /\ life[f] # "none"
        /\ UNCHANGED <<engine, snap, mem, life, cold>>
        /\ ret'.flow = f /\ ret'.landed = TRUE
    BY ONLY <1>18 DEF EndSession, NoRet, files
  <2>2. PICK ok \in Outcomes("header") :
          pc' = IF SeenEngine(ok).flow = f THEN "copy" ELSE "unsnap"
    BY ONLY <1>18 DEF EndSession
  <2>3. SeenEngine(ok) = engine
    BY ONLY <1>r, Failing DEF SeenEngine
  <2> QED
    BY <2>1, <2>2, <2>3
<1>19. ASSUME Copy
     PROVE  HeaderInv'
  <2>1. /\ pc = "copy" /\ UNCHANGED <<engine, snap, cold, mem, life>>
        /\ \/ /\ pc' = "publish" /\ ret'.flow = ret.flow /\ ret'.copy = cold[ret.flow]
              /\ ret'.alive <=> snap[ret.flow] # NoHeader
           \/ ArchiveFails
    BY <1>19, CopiedIs DEF Copy
  <2> QED
    BY <2>1, FailsIs
<1>20. ASSUME Publish
     PROVE  HeaderInv'
  <2>1. /\ pc = "publish" /\ UNCHANGED <<snap, cold, mem, life>>
        /\ \/ ArchiveFails
           \/ ret' = ret /\ \/ pc' = "unlive" /\ engine' = engine
                            \/ pc' = "rmlive" /\ engine' = NoHeader
    BY ONLY <1>20 DEF Publish, ArchiveFails
  <2> QED
    BY <2>1, FailsIs
<1>21. ASSUME Unlive
     PROVE  HeaderInv'
  <2>1. /\ pc = "unlive" /\ UNCHANGED <<snap, cold, mem, life>>
        /\ ArchiveFails \/ (pc' = "rmlive" /\ ret' = ret /\ engine' = NoHeader)
    BY ONLY <1>21 DEF Unlive, ArchiveFails
  <2> QED
    BY <2>1, FailsIs
<1>22. ASSUME RemoveLive
     PROVE  HeaderInv'
  <2>1. pc = "rmlive" /\ pc' = "unsnap" /\ UNCHANGED <<engine, snap, mem, ret, life>>
    BY ONLY <1>22 DEF RemoveLive
  <2> QED
    BY <2>1
<1>23. ASSUME RetireSnapshot
     PROVE  HeaderInv'
  <2>1. /\ pc = "unsnap" /\ pc' = "prune" /\ ret.flow \in Flows
        /\ UNCHANGED <<engine, mem, ret>>
        /\ life' = IF ret.landed THEN [life EXCEPT ![ret.flow] = "ended"] ELSE life
        /\ Unlink(ret.flow, ret.landed) /\ ret.landed \in BOOLEAN
    BY <1>23 DEF RetireSnapshot, Rets
  <2>2. snap' = snap \/ snap' = [snap EXCEPT ![ret.flow] = NoHeader]
    BY <2>1, UnlinkIs
  <2> QED
    BY <2>1, <2>2 DEF GhostsTyped
<1>24. ASSUME PruneRetired
     PROVE  HeaderInv'
  BY <1>24 DEF PruneRetired, Prune
<1>25. ASSUME Discard
     PROVE  HeaderInv'
  BY <1>25 DEF Discard, NoRet, files
<1>26. ASSUME Crash
     PROVE  HeaderInv'
  BY <1>26 DEF Crash, NoMem, NoRet, files
<1> QED
  BY <1>1, <1>2, <1>3, <1>4, <1>5, <1>6, <1>7, <1>8, <1>9, <1>10, <1>11, <1>12,
    <1>13, <1>14, <1>15, <1>16, <1>17, <1>18, <1>19, <1>20, <1>21, <1>22,
    <1>23, <1>24, <1>25, <1>26
     DEF Next, SaveStep, RunStep, RetireStep

\* What a save leaves alone has a file.
LEMMA SaveMisses ==
    ASSUME NEW m, NEW seen, NEW next, SaveOf(m, seen, next)
    PROVE  \A p \in Parts : m.loaded[p] => \/ p \in save'.todo
                                           \/ cold[m.flow][p] # NoBody
  BY DEF SaveOf, Dirty

\* Every step leaves each reference resolved.
LEMMA NextResolveInv ==
    ASSUME "header" \notin Troubles, FilesInv, Next
    PROVE  ResolveInv'
<1>r. "header" \notin Troubles
  OBVIOUS
<1>0. /\ HeadersTyped /\ BodiesTyped /\ WorkTyped /\ GhostsTyped
      /\ CoreInv /\ WorkInv /\ HeaderInv /\ ResolveInv
  BY TypeOKIs DEF CoreInv, FilesInv
<1> USE <1>r, <1>0, FilesAssumption, NoHeaderIs, BodyFacts
        DEF HeadersTyped, BodiesTyped, WorkTyped, WorkInv, ResolveInv, Resolves, Running,
            Saving, Retiring
<1>1. ASSUME NEW p \in Parts, WriteBody(p)
     PROVE  ResolveInv'
  <2>1. /\ pc = "bodies" /\ UNCHANGED <<engine, snap, mem>> /\ p \in save.todo
        /\ mem.flow \in Flows /\ mem.val[p] # NoBody
        /\ cold' = [cold EXCEPT ![mem.flow][p] = mem.val[p]]
        /\ save'.todo = save.todo \ {p}
    BY <1>1 DEF WriteBody, Saves
  <2>2. \A g \in Flows, q \in Parts :
          cold'[g][q] = IF g = mem.flow /\ q = p THEN mem.val[p] ELSE cold[g][q]
    BY <2>1
  <2> QED
    BY <2>1, <2>2
<1>2. ASSUME WriteHeader
     PROVE  ResolveInv'
  <2>1. /\ pc = "bodies" /\ pc' # "bodies" /\ UNCHANGED <<snap, cold, mem>>
        /\ save.todo = {} /\ engine' = Header(mem) /\ mem.flow \in Flows
    BY <1>2 DEF WriteHeader
  <2>2. Resolves(engine'.ref, cold[mem.flow]) /\ engine'.flow = mem.flow
    BY <2>1 DEF Header
  <2> QED
    BY <2>1, <2>2
<1>3. ASSUME PruneDisplaced
     PROVE  ResolveInv'
  <2>1. pc' # "bodies" /\ UNCHANGED <<engine, snap, mem>> /\ Prune(save.displaced) /\ mem.flow # save.displaced
    BY <1>3 DEF PruneDisplaced, Saves
  <2>2. cold' = cold \/ (cold' = [cold EXCEPT ![save.displaced] = NoBodies] /\ ~Referenced(save.displaced))
    BY <2>1, PruneIs
  <2>3. ~Referenced(save.displaced) => engine.flow # save.displaced /\ snap[save.displaced].flow # save.displaced
    BY DEF Referenced
  <2> HIDE DEF Referenced
  <2> QED
    BY <2>1, <2>2, <2>3
<1>4. ASSUME WriteSnapshot
     PROVE  ResolveInv'
  <2>1. /\ pc' # "bodies" /\ UNCHANGED <<engine, cold, mem>> /\ mem.flow \in Flows
        /\ engine.flow = mem.flow
        /\ snap' = snap \/ snap' = [snap EXCEPT ![mem.flow] = engine]
    BY <1>4, SnapshotIs
  <2> QED
    BY <2>1
<1>5. ASSUME ClearSnapshot
     PROVE  ResolveInv'
  <2>1. /\ pc' # "bodies" /\ UNCHANGED <<engine, cold, mem>> /\ mem.flow \in Flows
        /\ Unlink(mem.flow, TRUE)
    BY <1>5 DEF ClearSnapshot
  <2>2. snap' = snap \/ snap' = [snap EXCEPT ![mem.flow] = NoHeader]
    BY <2>1, UnlinkIs
  <2> QED
    BY <2>1, <2>2
<1>6. ASSUME PruneOwn
     PROVE  ResolveInv'
  <2>1. pc' # "bodies" /\ UNCHANGED <<engine, snap, mem>> /\ Prune(mem.flow)
        /\ engine.flow = mem.flow
    BY <1>6 DEF PruneOwn, Saves, HeaderInv
  <2>2. cold' = cold
    BY <2>1, PruneIs DEF Referenced
  <2> QED
    BY <2>1, <2>2
<1>7. ASSUME NEW f \in Flows, Create(f)
     PROVE  ResolveInv'
  <2>1. /\ mem'.flow = f /\ mem'.ref = NoBodies /\ UNCHANGED <<engine, snap, cold>>
    BY <1>7, CreateIs DEF Rest
  <2>2. PICK seen : SaveOf(mem', seen, "work")
    BY <1>7, CreateIs
  <2> QED
    BY <2>1, <2>2, SaveMisses
<1>8. ASSUME NEW f \in Flows, Resume(f)
     PROVE  ResolveInv'
  <2>1. PICK seen : /\ Seen(seen) /\ Found(f, seen).flow = f /\ mem'.flow = f
                    /\ mem'.ref = Found(f, seen).ref /\ UNCHANGED Rest
                    /\ pc' = "arm" \/ SaveOf(mem', seen, "arm")
    BY <1>8, ResumeIs
  <2>2. seen = engine
    BY <2>1 DEF Seen
  <2>3. Resolves(mem'.ref, cold[f])
    BY <2>1, <2>2 DEF Found
  <2>4. UNCHANGED <<engine, snap, cold>>
    BY <2>1 DEF Rest
  <2> QED
    BY <2>1, <2>3, <2>4, SaveMisses
<1>9. ASSUME Access("current")
     PROVE  ResolveInv'
  <2>1. PICK p \in {"current", "past"} : Access(p)
    BY <1>9
  <2>2. /\ pc' \in {"armed", "work"} /\ UNCHANGED <<engine, snap, cold>>
        /\ mem'.flow = mem.flow /\ mem'.ref = mem.ref
    BY ONLY <1>0, <2>1, AccessIs DEF Rest
  <2> QED
    BY <2>2
<1>10. ASSUME Access("past")
     PROVE  ResolveInv'
  <2>1. PICK p \in {"current", "past"} : Access(p)
    BY <1>10
  <2>2. /\ pc' \in {"armed", "work"} /\ UNCHANGED <<engine, snap, cold>>
        /\ mem'.flow = mem.flow /\ mem'.ref = mem.ref
    BY ONLY <1>0, <2>1, AccessIs DEF Rest
  <2> QED
    BY <2>2
<1>11. ASSUME Rearm
     PROVE  ResolveInv'
  <2>1. pc = "armed"
    BY <1>11 DEF Rearm
  <2>2. /\ pc' = "bodies" /\ mem'.flow = mem.flow /\ mem'.ref = mem.ref
        /\ UNCHANGED <<engine, snap, cold>>
    BY <1>11, <2>1, Produces DEF Rest
  <2>3. PICK seen, next : SaveOf(mem', seen, next)
    BY <1>11, <2>1, Produces
  <2> QED
    BY <2>2, <2>3, SaveMisses
<1>12. ASSUME LeaveStep
     PROVE  ResolveInv'
  <2>1. pc' # "bodies" /\ UNCHANGED <<engine, snap, cold, mem>>
    BY ONLY <1>12 DEF LeaveStep, files
  <2> QED
    BY <2>1
<1>13. ASSUME Work("open")
     PROVE  ResolveInv'
  <2>1. pc = "work"
    BY <1>13 DEF Work
  <2>2. /\ pc' = "bodies" /\ mem'.flow = mem.flow /\ mem'.ref = mem.ref
        /\ UNCHANGED <<engine, snap, cold>>
    BY <1>13, <2>1, Produces DEF Rest
  <2>3. PICK seen, next : SaveOf(mem', seen, next)
    BY <1>13, <2>1, Produces
  <2> QED
    BY <2>2, <2>3, SaveMisses
<1>14. ASSUME Work("completed")
     PROVE  ResolveInv'
  <2>1. pc = "work"
    BY <1>14 DEF Work
  <2>2. /\ pc' = "bodies" /\ mem'.flow = mem.flow /\ mem'.ref = mem.ref
        /\ UNCHANGED <<engine, snap, cold>>
    BY <1>14, <2>1, Produces DEF Rest
  <2>3. PICK seen, next : SaveOf(mem', seen, next)
    BY <1>14, <2>1, Produces
  <2> QED
    BY <2>2, <2>3, SaveMisses
<1>15. ASSUME Reclaim
     PROVE  ResolveInv'
  <2>1. pc' # "bodies" /\ mem' = NoMem /\ UNCHANGED <<engine, snap, cold>>
    BY ONLY <1>15 DEF Reclaim, files
  <2> QED
    BY <2>1 DEF NoMem
<1>16. ASSUME Exit
     PROVE  ResolveInv'
  <2>1. pc' # "bodies" /\ mem' = NoMem /\ UNCHANGED <<engine, snap, cold>>
    BY ONLY <1>16 DEF Exit, files
  <2> QED
    BY <2>1 DEF NoMem
<1>17. ASSUME Salvage
     PROVE  ResolveInv'
  <2>1. pc' # "bodies" /\ UNCHANGED <<engine, snap, cold, mem>>
    BY ONLY <1>17 DEF Salvage, files
  <2> QED
    BY <2>1
<1>18. ASSUME NEW f \in Flows, EndSession(f)
     PROVE  ResolveInv'
  <2>1. pc' # "bodies" /\ UNCHANGED <<engine, snap, cold, mem>>
    BY ONLY <1>18 DEF EndSession, files
  <2> QED
    BY <2>1
<1>19. ASSUME Copy
     PROVE  ResolveInv'
  <2>1. pc' # "bodies" /\ UNCHANGED <<engine, snap, cold, mem>>
    BY ONLY <1>19 DEF Copy, ArchiveFails
  <2> QED
    BY <2>1
<1>20. ASSUME Publish
     PROVE  ResolveInv'
  <2>1. /\ pc' # "bodies" /\ UNCHANGED <<snap, cold, mem>>
        /\ engine' \in {engine, NoHeader}
    BY ONLY <1>20 DEF Publish, ArchiveFails
  <2> QED
    BY <2>1
<1>21. ASSUME Unlive
     PROVE  ResolveInv'
  <2>1. /\ pc' # "bodies" /\ UNCHANGED <<snap, cold, mem>>
        /\ engine' \in {engine, NoHeader}
    BY ONLY <1>21 DEF Unlive, ArchiveFails
  <2> QED
    BY <2>1
<1>22. ASSUME RemoveLive
     PROVE  ResolveInv'
  <2>1. /\ pc' # "bodies" /\ UNCHANGED <<engine, snap, mem>> /\ mem.flow \notin Flows
        /\ \/ cold' = cold
           \/ cold' = [cold EXCEPT ![ret.flow] = NoBodies] /\ ~ret.alive
        /\ engine.flow # ret.flow /\ (ret.alive <=> snap[ret.flow] # NoHeader)
    BY <1>22 DEF RemoveLive, HeaderInv
  <2> QED
    BY <2>1
<1>23. ASSUME RetireSnapshot
     PROVE  ResolveInv'
  <2>1. /\ pc' # "bodies" /\ UNCHANGED <<engine, cold, mem>> /\ ret.flow \in Flows
        /\ Unlink(ret.flow, ret.landed) /\ ret.landed \in BOOLEAN
    BY <1>23 DEF RetireSnapshot, Rets
  <2>2. snap' = snap \/ snap' = [snap EXCEPT ![ret.flow] = NoHeader]
    BY <2>1, UnlinkIs
  <2> QED
    BY <2>1, <2>2
<1>24. ASSUME PruneRetired
     PROVE  ResolveInv'
  <2>1. pc' # "bodies" /\ UNCHANGED <<engine, snap, mem>> /\ Prune(ret.flow) /\ mem.flow \notin Flows
    BY <1>24 DEF PruneRetired, Saves
  <2>2. cold' = cold \/ (cold' = [cold EXCEPT ![ret.flow] = NoBodies] /\ ~Referenced(ret.flow))
    BY <2>1, PruneIs
  <2>3. ~Referenced(ret.flow) => engine.flow # ret.flow /\ snap[ret.flow].flow # ret.flow
    BY DEF Referenced
  <2> HIDE DEF Referenced
  <2> QED
    BY <2>1, <2>2, <2>3
<1>25. ASSUME Discard
     PROVE  ResolveInv'
  <2>1. pc' # "bodies" /\ UNCHANGED <<engine, snap, cold, mem>>
    BY ONLY <1>25 DEF Discard, files
  <2> QED
    BY <2>1
<1>26. ASSUME Crash
     PROVE  ResolveInv'
  <2>1. pc' # "bodies" /\ mem' = NoMem /\ UNCHANGED <<engine, snap, cold>>
    BY ONLY <1>26 DEF Crash, files
  <2> QED
    BY <2>1 DEF NoMem
<1> QED
  BY <1>1, <1>2, <1>3, <1>4, <1>5, <1>6, <1>7, <1>8, <1>9, <1>10, <1>11, <1>12,
    <1>13, <1>14, <1>15, <1>16, <1>17, <1>18, <1>19, <1>20, <1>21, <1>22,
    <1>23, <1>24, <1>25, <1>26
     DEF Next, SaveStep, RunStep, RetireStep

\* Every step leaves open flows with their snapshot, and others without.
LEMMA NextOpenInv ==
    ASSUME "header" \notin Troubles, FilesInv, Next
    PROVE  OpenInv'
<1>r. "header" \notin Troubles
  OBVIOUS
<1>0. /\ HeadersTyped /\ BodiesTyped /\ WorkTyped /\ GhostsTyped
      /\ CoreInv /\ WorkInv /\ HeaderInv /\ OpenInv
  BY TypeOKIs DEF CoreInv, FilesInv
<1>1. ASSUME \/ \E p \in Parts : WriteBody(p)
     PROVE  UNCHANGED <<snap, marks, life, mem, pc>>
  BY ONLY <1>1 DEF WriteBody, files
<1>2. CASE UNCHANGED <<snap, marks, life, mem, pc>>
  BY <1>2, <1>0 DEF OpenInv, Pending
<1> USE <1>r, <1>0, FilesAssumption, NoHeaderIs
        DEF HeadersTyped, WorkTyped, GhostsTyped, WorkInv, OpenInv, Pending, Running, Saving,
            Retiring
<1>3. ASSUME WriteHeader
     PROVE  OpenInv'
  <2>1. /\ pc = "bodies" /\ pc' \in {"displaced", "snapshot"} /\ mem.flow \in Flows
        /\ UNCHANGED <<snap, mem, marks>>
        /\ \A g \in Flows \ {mem.flow} : life'[g] = life[g]
    BY <1>3 DEF WriteHeader
  <2> QED
    BY <2>1
<1>4. ASSUME PruneDisplaced
     PROVE  OpenInv'
  <2>1. pc = "displaced" /\ pc' = "snapshot" /\ UNCHANGED <<snap, mem, marks, life>>
    BY ONLY <1>4 DEF PruneDisplaced
  <2> QED
    BY <2>1
<1>5. ASSUME WriteSnapshot
     PROVE  OpenInv'
  <2>1. life[mem.flow] = "open"
    BY <1>5, SnapshotIs DEF HeaderInv
  <2>2. /\ pc' \notin {"displaced", "snapshot"} /\ UNCHANGED <<mem, life>>
        /\ mem.flow \in Flows /\ engine.flow = mem.flow
    BY <1>5, SnapshotIs
  <2>3. \A g \in Flows \ {mem.flow} : marks'[g] = marks[g] /\ snap'[g] = snap[g]
    BY <1>5, <2>2, SnapshotIs
  <2>4. "unsnapped" \notin marks'[mem.flow] => snap'[mem.flow] = engine
    BY <1>5, <2>2, SnapshotIs
  <2> QED
    BY <2>1, <2>2, <2>3, <2>4
<1>6. ASSUME ClearSnapshot
     PROVE  OpenInv'
  <2>1. /\ pc = "snapshot" /\ pc' = "own" /\ UNCHANGED <<mem, life>> /\ mem.flow \in Flows
        /\ Unlink(mem.flow, TRUE) /\ mem.status = "completed"
    BY <1>6 DEF ClearSnapshot
  <2>2. life[mem.flow] # "open"
    BY <2>1 DEF HeaderInv
  <2>3. PICK gone \in BOOLEAN :
          /\ snap' = IF gone THEN [snap EXCEPT ![mem.flow] = NoHeader] ELSE snap
          /\ \A g \in Flows \ {mem.flow} : marks'[g] = marks[g]
          /\ gone \/ "kept" \in marks'[mem.flow]
    BY ONLY <1>0, <2>1, UnlinkIs
  <2>4. snap'[mem.flow] = NoHeader \/ "kept" \in marks'[mem.flow]
    BY <2>1, <2>3
  <2> QED
    BY <2>1, <2>2, <2>3, <2>4
<1>7. ASSUME PruneOwn
     PROVE  OpenInv'
  <2>1. pc \notin {"displaced", "snapshot"} /\ UNCHANGED <<snap, marks, life>>
    BY ONLY <1>7 DEF PruneOwn
  <2> QED
    BY <2>1
<1>8. ASSUME NEW f \in Flows, Create(f)
     PROVE  OpenInv'
  <2>1. pc = "idle" /\ UNCHANGED <<snap, marks, life>>
    BY <1>8, CreateIs DEF Rest
  <2> QED
    BY <2>1
<1>9. ASSUME NEW f \in Flows, Resume(f)
     PROVE  OpenInv'
  <2>1. pc = "idle" /\ UNCHANGED <<snap, marks, life>>
    BY <1>9, ResumeIs DEF Rest
  <2> QED
    BY <2>1
<1>10. ASSUME Access("current")
     PROVE  OpenInv'
  <2>1. PICK p \in {"current", "past"} : Access(p)
    BY <1>10
  <2>2. pc \in {"arm", "work"} /\ UNCHANGED <<snap, marks, life>>
    BY ONLY <1>0, <2>1, AccessIs DEF Rest
  <2> QED
    BY <2>2
<1>11. ASSUME Access("past")
     PROVE  OpenInv'
  <2>1. PICK p \in {"current", "past"} : Access(p)
    BY <1>11
  <2>2. pc \in {"arm", "work"} /\ UNCHANGED <<snap, marks, life>>
    BY ONLY <1>0, <2>1, AccessIs DEF Rest
  <2> QED
    BY <2>2
<1>12. ASSUME Rearm
     PROVE  OpenInv'
  <2>1. pc \notin {"displaced", "snapshot"} /\ UNCHANGED <<snap, marks, life>>
    BY ONLY <1>12 DEF Rearm, KeepRest, files
  <2> QED
    BY <2>1
<1>13. ASSUME LeaveStep
     PROVE  OpenInv'
  <2>1. pc \notin {"displaced", "snapshot"} /\ UNCHANGED <<snap, marks, life>>
    BY ONLY <1>13 DEF LeaveStep, files
  <2> QED
    BY <2>1
<1>14. ASSUME Work("open")
     PROVE  OpenInv'
  <2>1. pc \notin {"displaced", "snapshot"} /\ UNCHANGED <<snap, marks, life>>
    BY ONLY <1>14 DEF Work, KeepRest, files
  <2> QED
    BY <2>1
<1>15. ASSUME Work("completed")
     PROVE  OpenInv'
  <2>1. pc \notin {"displaced", "snapshot"} /\ UNCHANGED <<snap, marks, life>>
    BY ONLY <1>15 DEF Work, KeepRest, files
  <2> QED
    BY <2>1
<1>16. ASSUME Reclaim
     PROVE  OpenInv'
  <2>1. pc \notin {"displaced", "snapshot"} /\ UNCHANGED <<snap, marks, life>>
    BY ONLY <1>16 DEF Reclaim, files
  <2> QED
    BY <2>1
<1>17. ASSUME Exit
     PROVE  OpenInv'
  <2>1. pc \notin {"displaced", "snapshot"} /\ UNCHANGED <<snap, marks, life>>
    BY ONLY <1>17 DEF Exit, files
  <2> QED
    BY <2>1
<1>18. ASSUME Salvage
     PROVE  OpenInv'
  <2>1. pc \notin {"displaced", "snapshot"} /\ UNCHANGED <<snap, marks, life>>
    BY ONLY <1>18 DEF Salvage, files
  <2> QED
    BY <2>1
<1>19. ASSUME NEW f \in Flows, EndSession(f)
     PROVE  OpenInv'
  <2>1. pc \notin {"displaced", "snapshot"} /\ UNCHANGED <<snap, marks, life>>
    BY ONLY <1>19 DEF EndSession, files
  <2> QED
    BY <2>1
<1>20. ASSUME Copy
     PROVE  OpenInv'
  <2>1. pc \notin {"displaced", "snapshot"} /\ UNCHANGED <<snap, marks, life>>
    BY ONLY <1>20 DEF Copy, ArchiveFails
  <2> QED
    BY <2>1
<1>21. ASSUME Publish
     PROVE  OpenInv'
  <2>1. pc \notin {"displaced", "snapshot"} /\ UNCHANGED <<snap, marks, life>>
    BY ONLY <1>21 DEF Publish, ArchiveFails
  <2> QED
    BY <2>1
<1>22. ASSUME Unlive
     PROVE  OpenInv'
  <2>1. pc \notin {"displaced", "snapshot"} /\ UNCHANGED <<snap, marks, life>>
    BY ONLY <1>22 DEF Unlive, ArchiveFails
  <2> QED
    BY <2>1
<1>23. ASSUME RemoveLive
     PROVE  OpenInv'
  <2>1. pc \notin {"displaced", "snapshot"} /\ UNCHANGED <<snap, marks, life>>
    BY ONLY <1>23 DEF RemoveLive
  <2> QED
    BY <2>1
<1>24. ASSUME RetireSnapshot
     PROVE  OpenInv'
  <2>1. /\ pc = "unsnap" /\ pc' = "prune" /\ ret.flow \in Flows /\ ret.landed \in BOOLEAN
        /\ life' = IF ret.landed THEN [life EXCEPT ![ret.flow] = "ended"] ELSE life
        /\ Unlink(ret.flow, ret.landed)
    BY <1>24 DEF RetireSnapshot, Rets
  <2>2. /\ \A g \in Flows \ {ret.flow} : life'[g] = life[g]
        /\ life'[ret.flow] = IF ret.landed THEN "ended" ELSE life[ret.flow]
    BY <2>1
  <2> QED
    BY <2>1, <2>2, UnlinkIs
<1>25. ASSUME PruneRetired
     PROVE  OpenInv'
  <2>1. pc \notin {"displaced", "snapshot"} /\ UNCHANGED <<snap, marks, life>>
    BY ONLY <1>25 DEF PruneRetired
  <2> QED
    BY <2>1
<1>26. ASSUME Discard
     PROVE  OpenInv'
  <2>1. pc \notin {"displaced", "snapshot"} /\ UNCHANGED <<snap, marks, life>>
    BY ONLY <1>26 DEF Discard, files
  <2> QED
    BY <2>1
<1>27. ASSUME Crash
     PROVE  OpenInv'
  <2> SUFFICES ASSUME NEW f \in Flows
               PROVE  /\ life[f] = "open" /\ "unsnapped" \notin CrashMarks(f)
                           => snap[f].flow = f
                      /\ snap[f].flow = f /\ "kept" \notin CrashMarks(f)
                           => life[f] = "open"
    BY <1>27 DEF Crash, files
  <2>1. CASE ~Pending(f)
    BY <2>1 DEF CrashMarks
  <2>2. CASE Pending(f)
    <3>1. engine.flow = f /\ engine.status = mem.status
      BY <2>2
    <3>2. mem.status = "open" <=> life[f] = "open"
      BY <3>1 DEF HeaderInv
    <3>3. mem.status \in {"open", "completed"}
      BY DEF Mems
    <3> QED
      BY <2>2, <3>2, <3>3 DEF CrashMarks
  <2> QED
    BY <2>1, <2>2
<1> QED
  BY <1>1, <1>2, <1>3, <1>4, <1>5, <1>6, <1>7, <1>8, <1>9, <1>10, <1>11, <1>12,
    <1>13, <1>14, <1>15, <1>16, <1>17, <1>18, <1>19, <1>20, <1>21, <1>22,
    <1>23, <1>24, <1>25, <1>26, <1>27
     DEF Next, SaveStep, RunStep, RetireStep

\* Every step keeps reclaimed flows ended.
LEMMA NextDiscardInv ==
    ASSUME "header" \notin Troubles, FilesInv, Next
    PROVE  DiscardInv'
<1>r. "header" \notin Troubles
  OBVIOUS
<1>0. /\ HeadersTyped /\ BodiesTyped /\ WorkTyped /\ GhostsTyped
      /\ CoreInv /\ WorkInv /\ HeaderInv /\ DiscardInv
  BY TypeOKIs DEF CoreInv, FilesInv
<1>1. ASSUME \/ \E p \in Parts : WriteBody(p)
             \/ PruneDisplaced
             \/ PruneOwn
             \/ LeaveStep
             \/ Salvage
             \/ \E f \in Flows : EndSession(f)
             \/ Copy
     PROVE  UNCHANGED <<discarded, snap, life, mem, engine>>
  BY ONLY <1>1 DEF WriteBody, PruneDisplaced, Prune, PruneOwn, LeaveStep,
    Salvage, EndSession, Copy, ArchiveFails, files
<1>2. ASSUME \/ RemoveLive
             \/ PruneRetired
     PROVE  UNCHANGED <<discarded, snap, life, mem, engine>>
  BY ONLY <1>2 DEF RemoveLive, PruneRetired, Prune, files
<1>3. CASE UNCHANGED <<discarded, snap, life, mem, engine>>
  BY <1>3, <1>0 DEF DiscardInv
<1> USE <1>r, <1>0, FilesAssumption, NoHeaderIs
        DEF HeadersTyped, WorkTyped, GhostsTyped, WorkInv, DiscardInv, Running, Saving,
            Retiring
<1>4. ASSUME WriteHeader
     PROVE  DiscardInv'
  <2>1. /\ UNCHANGED <<discarded, snap, mem>> /\ mem.flow \in Flows
        /\ engine'.flow = mem.flow
        /\ life' = [life EXCEPT ![mem.flow] = IF mem.status = "open" THEN "open" ELSE "ended"]
    BY <1>4 DEF WriteHeader, Header
  <2> QED
    BY <2>1
<1>5. ASSUME WriteSnapshot
     PROVE  DiscardInv'
  <2>1. /\ UNCHANGED <<discarded, life, engine, mem>> /\ mem.flow \in Flows
        /\ snap' = snap \/ snap' = [snap EXCEPT ![mem.flow] = engine]
    BY <1>5, SnapshotIs
  <2> QED
    BY <2>1
<1>6. ASSUME ClearSnapshot
     PROVE  DiscardInv'
  <2>1. /\ UNCHANGED <<discarded, life, engine, mem>> /\ mem.flow \in Flows
        /\ Unlink(mem.flow, TRUE)
    BY <1>6 DEF ClearSnapshot
  <2>2. snap' = snap \/ snap' = [snap EXCEPT ![mem.flow] = NoHeader]
    BY <2>1, UnlinkIs
  <2> QED
    BY <2>1, <2>2
<1>7. ASSUME NEW f \in Flows, Create(f)
     PROVE  DiscardInv'
  <2>1. life[f] = "none" /\ mem'.flow = f /\ UNCHANGED <<discarded, snap, life, engine>>
    BY <1>7, CreateIs DEF Rest
  <2> QED
    BY <2>1
<1>8. ASSUME NEW f \in Flows, Resume(f)
     PROVE  DiscardInv'
  <2>1. PICK seen : /\ Seen(seen) /\ Found(f, seen).flow = f /\ mem'.flow = f
                    /\ Found(f, seen).status = "open" /\ UNCHANGED Rest
    BY <1>8, ResumeIs
  <2>2. seen = engine
    BY <2>1 DEF Seen
  <2>3. UNCHANGED <<discarded, snap, life, engine>>
    BY <2>1 DEF Rest
  <2>4. f \notin discarded
    BY <2>1, <2>2 DEF Found
  <2> QED
    BY <2>1, <2>3, <2>4
<1>9. ASSUME Access("current")
     PROVE  DiscardInv'
  <2>1. PICK p \in {"current", "past"} : Access(p)
    BY <1>9
  <2>2. mem'.flow = mem.flow /\ UNCHANGED <<discarded, snap, life, engine>>
    BY ONLY <1>0, <2>1, AccessIs DEF Rest
  <2> QED
    BY <2>2
<1>10. ASSUME Access("past")
     PROVE  DiscardInv'
  <2>1. PICK p \in {"current", "past"} : Access(p)
    BY <1>10
  <2>2. mem'.flow = mem.flow /\ UNCHANGED <<discarded, snap, life, engine>>
    BY ONLY <1>0, <2>1, AccessIs DEF Rest
  <2> QED
    BY <2>2
<1>11. ASSUME Rearm
     PROVE  DiscardInv'
  <2>1. pc = "armed" /\ mem'.flow = mem.flow /\ UNCHANGED <<discarded, snap, life, engine>>
    BY <1>11, Produces DEF Rearm, Rest
  <2> QED
    BY <2>1
<1>12. ASSUME Work("open")
     PROVE  DiscardInv'
  <2>1. pc = "work" /\ mem'.flow = mem.flow /\ UNCHANGED <<discarded, snap, life, engine>>
    BY <1>12, Produces DEF Work, Rest
  <2> QED
    BY <2>1
<1>13. ASSUME Work("completed")
     PROVE  DiscardInv'
  <2>1. pc = "work" /\ mem'.flow = mem.flow /\ UNCHANGED <<discarded, snap, life, engine>>
    BY <1>13, Produces DEF Work, Rest
  <2> QED
    BY <2>1
<1>14. ASSUME Reclaim
     PROVE  DiscardInv'
  <2>1. /\ pc = "reclaim" /\ mem' = NoMem /\ UNCHANGED <<snap, life, engine>>
        /\ discarded' = IF snap[mem.flow] = NoHeader THEN discarded \cup {mem.flow}
                        ELSE discarded
    BY ONLY <1>14 DEF Reclaim, files
  <2>2. /\ mem.flow \in Flows /\ engine.flow = mem.flow /\ engine.status = "completed"
        /\ life[mem.flow] # "none"
    BY <2>1 DEF HeaderInv, Referenced
  <2> QED
    BY <2>1, <2>2 DEF NoMem
<1>15. ASSUME Exit
     PROVE  DiscardInv'
  <2>1. mem' = NoMem /\ UNCHANGED <<discarded, snap, life, engine>>
    BY ONLY <1>15 DEF Exit, files
  <2> QED
    BY <2>1 DEF NoMem
<1>16. ASSUME Publish
     PROVE  DiscardInv'
  <2>1. UNCHANGED <<discarded, snap, life, mem>> /\ engine' \in {engine, NoHeader}
    BY ONLY <1>16 DEF Publish, ArchiveFails
  <2> QED
    BY <2>1
<1>17. ASSUME Unlive
     PROVE  DiscardInv'
  <2>1. UNCHANGED <<discarded, snap, life, mem>> /\ engine' \in {engine, NoHeader}
    BY ONLY <1>17 DEF Unlive, ArchiveFails
  <2> QED
    BY <2>1
<1>18. ASSUME RetireSnapshot
     PROVE  DiscardInv'
  <2>1. /\ UNCHANGED <<discarded, engine, mem>> /\ ret.flow \in Flows
        /\ life' = IF ret.landed THEN [life EXCEPT ![ret.flow] = "ended"] ELSE life
        /\ Unlink(ret.flow, ret.landed) /\ ret.landed \in BOOLEAN
    BY <1>18 DEF RetireSnapshot, Rets
  <2>2. snap' = snap \/ snap' = [snap EXCEPT ![ret.flow] = NoHeader]
    BY <2>1, UnlinkIs
  <2> QED
    BY <2>1, <2>2
<1>19. ASSUME Discard
     PROVE  DiscardInv'
  <2>1. /\ pc = "discard" /\ UNCHANGED <<snap, life, engine, mem>>
        /\ discarded' = IF snap[ret.flow] = NoHeader /\ ret.landed
                          THEN discarded \cup {ret.flow} ELSE discarded
    BY ONLY <1>19 DEF Discard, files
  <2>2. /\ ret.flow \in Flows /\ mem.flow = NoFlow /\ life[ret.flow] # "none"
        /\ ret.landed => engine.flow # ret.flow
    BY <2>1 DEF HeaderInv
  <2> QED
    BY <2>1, <2>2
<1>20. ASSUME Crash
     PROVE  DiscardInv'
  <2>1. mem' = NoMem /\ UNCHANGED <<discarded, snap, life, engine>>
    BY ONLY <1>20 DEF Crash, files
  <2> QED
    BY <2>1 DEF NoMem
<1> QED
  BY <1>1, <1>2, <1>3, <1>4, <1>5, <1>6, <1>7, <1>8, <1>9, <1>10, <1>11, <1>12,
    <1>13, <1>14, <1>15, <1>16, <1>17, <1>18, <1>19, <1>20
     DEF Next, SaveStep, RunStep, RetireStep

\* What a save leaves alone holds what memory holds: the hash that it goes by is
\* the one that the flow's own header in engine.json records.
LEMMA SaveKeeps ==
    ASSUME StoredInv, pc # "bodies", NEW m, NEW next, SaveOf(m, engine, next),
           m.flow \in Flows, \A p \in Parts : m.val[p] # NoBody,
           "apart" \notin marks[m.flow]
    PROVE  \A p \in Parts : m.loaded[p] /\ p \notin save'.todo
                              => cold[m.flow][p] = m.val[p]
<1> SUFFICES ASSUME NEW p \in Parts, m.loaded[p], p \notin save'.todo
             PROVE  cold[m.flow][p] = m.val[p]
  OBVIOUS
<1>1. m.val[p] = (IF engine.flow = m.flow THEN engine.ref ELSE NoBodies)[p]
  BY DEF SaveOf, Dirty
<1>2. engine.flow = m.flow /\ m.val[p] = engine.ref[p]
  BY <1>1 DEF NoBodies
<1> QED
  BY <1>2 DEF StoredInv, Agrees

\* Every step keeps headers, memory and the last save in agreement with the bodies.
LEMMA NextStoredInv ==
    ASSUME "header" \notin Troubles, FilesInv, Next
    PROVE  StoredInv'
<1>r. "header" \notin Troubles
  OBVIOUS
<1>0. /\ HeadersTyped /\ BodiesTyped /\ WorkTyped /\ GhostsTyped
      /\ CoreInv /\ WorkInv /\ HeaderInv /\ StoredInv
  BY TypeOKIs DEF CoreInv, FilesInv
<1> USE <1>r, <1>0, FilesAssumption, NoHeaderIs, BodyFacts
        DEF HeadersTyped, BodiesTyped, WorkTyped, GhostsTyped, WorkInv, StoredInv, Pending,
            Agrees, Referenced, Running, Saving, Retiring
<1>1. ASSUME NEW p \in Parts, WriteBody(p)
     PROVE  StoredInv'
  <2>1. /\ pc = "bodies" /\ pc' = pc /\ UNCHANGED <<engine, snap, mem, saved, marks>>
        /\ p \in save.todo /\ mem.flow \in Flows /\ mem.loaded[p]
        /\ cold' = [cold EXCEPT ![mem.flow][p] = mem.val[p]]
        /\ save'.todo = save.todo \ {p}
    BY <1>1 DEF WriteBody, Saves
  <2>2. \A g \in Flows, q \in Parts :
          cold'[g][q] = IF g = mem.flow /\ q = p THEN mem.val[p] ELSE cold[g][q]
    BY <2>1
  <2> QED
    BY <2>1, <2>2
<1>2. ASSUME WriteHeader
     PROVE  StoredInv'
  <2>1. /\ pc = "bodies" /\ pc' \in {"displaced", "snapshot"}
        /\ UNCHANGED <<snap, cold, mem, marks>>
        /\ save.todo = {} /\ engine' = Header(mem) /\ mem.flow \in Flows
        /\ saved' = [saved EXCEPT ![mem.flow] =
                       [p \in Parts |-> IF mem.loaded[p] THEN mem.val[p] ELSE @[p]]]
    BY <1>2 DEF WriteHeader
  <2>2. /\ engine'.flow = mem.flow
        /\ \A p \in Parts : engine'.ref[p] = IF mem.loaded[p] THEN mem.val[p] ELSE mem.ref[p]
    BY ONLY <2>1 DEF Header
  <2>3. /\ \A g \in Flows \ {mem.flow} : saved'[g] = saved[g]
        /\ saved'[mem.flow] = [p \in Parts |-> IF mem.loaded[p] THEN mem.val[p]
                                                ELSE saved[mem.flow][p]]
    BY ONLY <1>0, <2>1 DEF GhostsTyped
  <2>4. \A p \in Parts : ~mem.loaded[p] => Referenced(mem.flow)
    BY <2>1 DEF HeaderInv
  <2>5. ASSUME "apart" \notin marks[mem.flow]
        PROVE  \A p \in Parts :
                 /\ mem.loaded[p] => cold[mem.flow][p] = mem.val[p]
                 /\ ~mem.loaded[p] => /\ Agrees(saved[mem.flow], mem.flow, p)
                                      /\ Agrees(mem.ref, mem.flow, p)
    <3> SUFFICES ASSUME NEW p \in Parts
                 PROVE  /\ mem.loaded[p] => cold[mem.flow][p] = mem.val[p]
                        /\ ~mem.loaded[p] => /\ Agrees(saved[mem.flow], mem.flow, p)
                                             /\ Agrees(mem.ref, mem.flow, p)
      OBVIOUS
    <3>1. CASE mem.loaded[p]
      BY ONLY StoredInv, <2>1, <2>5, <3>1, p \in Parts DEF StoredInv
    <3>2. CASE ~mem.loaded[p]
      BY ONLY StoredInv, <2>1, <2>4, <2>5, <3>2, p \in Parts DEF StoredInv
    <3> QED
      BY <3>1, <3>2
  <2>6. ASSUME "apart" \notin marks[mem.flow]
        PROVE  \A p \in Parts :
                 /\ saved'[mem.flow][p] # NoBody => cold[mem.flow][p] = saved'[mem.flow][p]
                 /\ engine'.ref[p] # NoBody => cold[mem.flow][p] = engine'.ref[p]
                 /\ ~mem.loaded[p] => (mem.ref[p] # NoBody => cold[mem.flow][p] = mem.ref[p])
    BY ONLY <2>2, <2>3, <2>5, <2>6 DEF Agrees
  <2>7. \A g \in Flows \ {mem.flow} : Referenced(g)' => Referenced(g)
    BY ONLY <2>1, <2>2 DEF Referenced
  <2>8. ASSUME NEW f \in Flows, "apart" \notin marks[f], NEW p \in Parts
        PROVE  /\ Referenced(f)' => (saved'[f][p] # NoBody => cold[f][p] = saved'[f][p])
               /\ engine'.flow = f => (engine'.ref[p] # NoBody => cold[f][p] = engine'.ref[p])
               /\ mem.flow # f => (snap[f].ref[p] # NoBody => cold[f][p] = snap[f].ref[p])
               /\ mem.flow = f /\ ~mem.loaded[p]
                    => (mem.ref[p] # NoBody => cold[f][p] = mem.ref[p])
    <3>1. CASE f = mem.flow
      BY ONLY <2>6, <2>8, <3>1
    <3>2. CASE f # mem.flow
      <4>1. engine'.flow # f /\ saved'[f] = saved[f] /\ (Referenced(f)' => Referenced(f))
        BY ONLY <2>2, <2>3, <2>7, <2>8, <3>2
      <4>2. /\ Referenced(f) => (saved[f][p] # NoBody => cold[f][p] = saved[f][p])
            /\ snap[f].ref[p] # NoBody => cold[f][p] = snap[f].ref[p]
        BY ONLY <1>0, <2>8, <3>2 DEF StoredInv, Agrees, Pending
      <4> QED
        BY ONLY <3>2, <4>1, <4>2
    <3> QED
      BY <3>1, <3>2
  <2> QED
    BY ONLY <2>1, <2>8 DEF StoredInv, Agrees, Pending
<1>3. ASSUME PruneDisplaced
     PROVE  StoredInv'
  <2>1. /\ pc # "bodies" /\ pc' # "bodies" /\ Pending(mem.flow)' = Pending(mem.flow)
        /\ UNCHANGED <<snap, saved, marks, engine, mem, save>> /\ Prune(save.displaced) /\ mem.flow # save.displaced
    BY <1>3 DEF PruneDisplaced
  <2>2. cold' = cold \/ (cold' = [cold EXCEPT ![save.displaced] = NoBodies] /\ ~Referenced(save.displaced))
    BY ONLY <1>r, <2>1, PruneIs
  <2>3. CASE cold' = cold
    BY <2>1, <2>3
  <2>4. CASE cold' = [cold EXCEPT ![save.displaced] = NoBodies] /\ ~Referenced(save.displaced)
    BY <2>1, <2>4
  <2> QED
    BY <2>2, <2>3, <2>4
<1>4. ASSUME WriteSnapshot
     PROVE  StoredInv'
  <2>1. /\ pc = "snapshot" /\ pc' \notin {"bodies", "displaced", "snapshot"}
        /\ UNCHANGED <<engine, cold, mem, saved>> /\ mem.flow \in Flows
        /\ engine.flow = mem.flow
        /\ \A g \in Flows \ {mem.flow} : marks'[g] = marks[g]
    BY <1>4, SnapshotIs
  <2>2. CASE /\ snap' = [snap EXCEPT ![mem.flow] = engine]
             /\ marks'[mem.flow] = marks[mem.flow] \ {"unsnapped"}
    BY <2>1, <2>2
  <2>3. CASE snap' = snap /\ "apart" \in marks'[mem.flow]
    BY <2>1, <2>3
  <2> QED
    BY <1>4, <2>2, <2>3, SnapshotIs
<1>5. ASSUME ClearSnapshot
     PROVE  StoredInv'
  <2>1. /\ pc = "snapshot" /\ pc' = "own" /\ UNCHANGED <<engine, cold, mem, saved>>
        /\ mem.flow \in Flows /\ Unlink(mem.flow, TRUE)
    BY <1>5 DEF ClearSnapshot
  <2>2. PICK gone \in BOOLEAN :
          /\ snap' = IF gone THEN [snap EXCEPT ![mem.flow] = NoHeader] ELSE snap
          /\ \A g \in Flows \ {mem.flow} : marks'[g] = marks[g]
          /\ "apart" \in marks'[mem.flow] <=> "apart" \in marks[mem.flow] \/ ~gone
    BY ONLY <1>0, <2>1, UnlinkIs
  <2> QED
    BY <2>1, <2>2
<1>6. ASSUME PruneOwn
     PROVE  StoredInv'
  <2>1. /\ pc = "own" /\ pc' # "bodies" /\ UNCHANGED <<engine, snap, mem, saved, marks>>
        /\ Prune(mem.flow) /\ engine.flow = mem.flow
        /\ pc' \notin {"displaced", "snapshot"}
    BY <1>6 DEF PruneOwn, Saves, HeaderInv
  <2>2. cold' = cold
    BY <2>1, PruneIs
  <2> QED
    BY <2>1, <2>2
<1>7. ASSUME NEW f \in Flows, Create(f)
     PROVE  StoredInv'
  <2>1. /\ pc = "idle" /\ pc' = "bodies" /\ mem' \in Mems /\ mem'.flow = f
        /\ UNCHANGED <<engine, snap, cold, saved, marks>>
        /\ \A p \in Parts : mem'.val[p] = 1 /\ mem'.loaded[p] = TRUE
    BY <1>7, CreateIs DEF Rest
  <2>2. PICK seen : Seen(seen) /\ SaveOf(mem', seen, "work")
    BY <1>7, CreateIs
  <2>3. \A p \in Parts : mem'.val[p] # NoBody
    BY <2>1 DEF NoBody
  <2>4. "apart" \in marks[f] \/ \A p \in Parts :
          mem'.loaded[p] /\ p \notin save'.todo => cold[f][p] = mem'.val[p]
    BY ONLY <1>r, <1>0, <2>1, <2>2, <2>3, SaveKeeps DEF Seen
  <2> QED
    BY <2>1, <2>4
<1>8. ASSUME NEW f \in Flows, Resume(f)
     PROVE  StoredInv'
  <2>1. PICK seen : /\ Seen(seen) /\ Found(f, seen).flow = f /\ mem'.flow = f /\ pc = "idle"
                    /\ mem' \in Mems /\ mem'.ref = Found(f, seen).ref /\ UNCHANGED Rest
                    /\ \A p \in Parts : mem'.val[p] # NoBody
                    /\ pc' = "arm" \/ (pc' = "bodies" /\ SaveOf(mem', seen, "arm"))
    BY <1>8, ResumeIs
  <2>2. seen = engine /\ UNCHANGED <<engine, snap, cold, saved, marks>>
    BY <2>1 DEF Seen, Rest
  <2>3. "apart" \in marks[f] \/ \A p \in Parts : Agrees(mem'.ref, f, p)
    BY <2>1, <2>2 DEF Found
  <2>4. CASE pc' = "arm"
    BY <2>1, <2>2, <2>3, <2>4
  <2>5. CASE pc' = "bodies" /\ SaveOf(mem', seen, "arm")
    <3>1. "apart" \in marks[f] \/ \A p \in Parts :
            mem'.loaded[p] /\ p \notin save'.todo => cold[f][p] = mem'.val[p]
      BY ONLY <1>0, <2>1, <2>2, <2>5, SaveKeeps
    <3> QED
      BY <2>1, <2>2, <2>3, <2>5, <3>1
  <2> QED
    BY <2>1, <2>4, <2>5
<1>9. ASSUME Access("current")
     PROVE  StoredInv'
  <2>1. PICK p \in {"current", "past"} : Access(p)
    BY <1>9
  <2>2. PICK ok \in BOOLEAN :
          /\ pc \in {"arm", "work"} /\ pc' \in {"armed", "work"} /\ UNCHANGED Rest
          /\ mem'.flow = mem.flow /\ mem'.ref = mem.ref /\ ~mem.loaded[p]
          /\ mem'.loaded = [mem.loaded EXCEPT ![p] = ok]
    BY ONLY <1>0, <2>1, AccessIs
  <2>3. mem.loaded \in [Parts -> BOOLEAN]
    BY DEF Mems
  <2>4. /\ UNCHANGED <<engine, snap, cold, saved, marks>>
        /\ \A q \in Parts : ~mem'.loaded[q] => ~mem.loaded[q]
    BY ONLY <2>2, <2>3 DEF Rest
  <2> QED
    BY <2>2, <2>4
<1>10. ASSUME Access("past")
     PROVE  StoredInv'
  <2>1. PICK p \in {"current", "past"} : Access(p)
    BY <1>10
  <2>2. PICK ok \in BOOLEAN :
          /\ pc \in {"arm", "work"} /\ pc' \in {"armed", "work"} /\ UNCHANGED Rest
          /\ mem'.flow = mem.flow /\ mem'.ref = mem.ref /\ ~mem.loaded[p]
          /\ mem'.loaded = [mem.loaded EXCEPT ![p] = ok]
    BY ONLY <1>0, <2>1, AccessIs
  <2>3. mem.loaded \in [Parts -> BOOLEAN]
    BY DEF Mems
  <2>4. /\ UNCHANGED <<engine, snap, cold, saved, marks>>
        /\ \A q \in Parts : ~mem'.loaded[q] => ~mem.loaded[q]
    BY ONLY <2>2, <2>3 DEF Rest
  <2> QED
    BY <2>2, <2>4
<1>11. ASSUME Rearm
     PROVE  StoredInv'
  <2>1. pc = "armed"
    BY <1>11 DEF Rearm
  <2>2. /\ pc' = "bodies" /\ mem' \in Mems /\ mem'.flow = mem.flow /\ mem'.ref = mem.ref
        /\ UNCHANGED <<engine, snap, cold, saved, marks>>
        /\ \A p \in Parts : ~mem'.loaded[p] => ~mem.loaded[p]
        /\ \A p \in Parts : mem'.val[p] # NoBody
    BY <1>11, <2>1, Produces DEF Rest, Mems, Parts
  <2>3. PICK seen, next : Seen(seen) /\ SaveOf(mem', seen, next)
    BY <1>11, <2>1, Produces
  <2>4. "apart" \in marks[mem.flow] \/ \A p \in Parts :
          mem'.loaded[p] /\ p \notin save'.todo => cold[mem.flow][p] = mem'.val[p]
    BY ONLY <1>r, <1>0, <2>1, <2>2, <2>3, SaveKeeps DEF Seen, WorkInv, Running
  <2> QED
    BY <2>1, <2>2, <2>4
<1>12. ASSUME LeaveStep
     PROVE  StoredInv'
  <2>1. /\ pc \notin {"bodies", "displaced", "snapshot"} /\ pc' # "bodies"
        /\ UNCHANGED <<snap, cold, saved, marks, engine, mem>>
    BY ONLY <1>12 DEF LeaveStep, files
  <2> QED
    BY <2>1
<1>13. ASSUME Work("open")
     PROVE  StoredInv'
  <2>1. pc = "work"
    BY <1>13 DEF Work
  <2>2. /\ pc' = "bodies" /\ mem' \in Mems /\ mem'.flow = mem.flow /\ mem'.ref = mem.ref
        /\ UNCHANGED <<engine, snap, cold, saved, marks>>
        /\ \A p \in Parts : ~mem'.loaded[p] => ~mem.loaded[p]
        /\ \A p \in Parts : mem'.val[p] # NoBody
    BY <1>13, <2>1, Produces DEF Rest, Mems, Parts
  <2>3. PICK seen, next : Seen(seen) /\ SaveOf(mem', seen, next)
    BY <1>13, <2>1, Produces
  <2>4. "apart" \in marks[mem.flow] \/ \A p \in Parts :
          mem'.loaded[p] /\ p \notin save'.todo => cold[mem.flow][p] = mem'.val[p]
    BY ONLY <1>r, <1>0, <2>1, <2>2, <2>3, SaveKeeps DEF Seen, WorkInv, Running
  <2> QED
    BY <2>1, <2>2, <2>4
<1>14. ASSUME Work("completed")
     PROVE  StoredInv'
  <2>1. pc = "work"
    BY <1>14 DEF Work
  <2>2. /\ pc' = "bodies" /\ mem' \in Mems /\ mem'.flow = mem.flow /\ mem'.ref = mem.ref
        /\ UNCHANGED <<engine, snap, cold, saved, marks>>
        /\ \A p \in Parts : ~mem'.loaded[p] => ~mem.loaded[p]
        /\ \A p \in Parts : mem'.val[p] # NoBody
    BY <1>14, <2>1, Produces DEF Rest, Mems, Parts
  <2>3. PICK seen, next : Seen(seen) /\ SaveOf(mem', seen, next)
    BY <1>14, <2>1, Produces
  <2>4. "apart" \in marks[mem.flow] \/ \A p \in Parts :
          mem'.loaded[p] /\ p \notin save'.todo => cold[mem.flow][p] = mem'.val[p]
    BY ONLY <1>r, <1>0, <2>1, <2>2, <2>3, SaveKeeps DEF Seen, WorkInv, Running
  <2> QED
    BY <2>1, <2>2, <2>4
<1>15. ASSUME Reclaim
     PROVE  StoredInv'
  <2>1. /\ pc \notin {"bodies", "displaced", "snapshot"} /\ pc' # "bodies"
        /\ mem' = NoMem /\ UNCHANGED <<snap, cold, saved, marks, engine>>
    BY ONLY <1>15 DEF Reclaim, files
  <2> QED
    BY <2>1 DEF NoMem
<1>16. ASSUME Exit
     PROVE  StoredInv'
  <2>1. /\ pc \notin {"bodies", "displaced", "snapshot"} /\ pc' # "bodies"
        /\ mem' = NoMem /\ UNCHANGED <<snap, cold, saved, marks, engine>>
    BY ONLY <1>16 DEF Exit, files
  <2> QED
    BY <2>1 DEF NoMem
<1>17. ASSUME Salvage
     PROVE  StoredInv'
  <2>1. /\ pc \notin {"bodies", "displaced", "snapshot"} /\ pc' # "bodies"
        /\ UNCHANGED <<snap, cold, saved, marks, engine, mem>>
    BY ONLY <1>17 DEF Salvage, files
  <2> QED
    BY <2>1
<1>18. ASSUME NEW f \in Flows, EndSession(f)
     PROVE  StoredInv'
  <2>1. /\ pc \notin {"bodies", "displaced", "snapshot"} /\ pc' # "bodies"
        /\ UNCHANGED <<snap, cold, saved, marks, engine, mem>>
    BY ONLY <1>18 DEF EndSession, files
  <2> QED
    BY <2>1
<1>19. ASSUME Copy
     PROVE  StoredInv'
  <2>1. /\ pc \notin {"bodies", "displaced", "snapshot"} /\ pc' # "bodies"
        /\ UNCHANGED <<snap, cold, saved, marks, engine, mem>>
    BY ONLY <1>19 DEF Copy, ArchiveFails
  <2> QED
    BY <2>1
<1>20. ASSUME Publish
     PROVE  StoredInv'
  <2>1. /\ pc \notin {"bodies", "displaced", "snapshot"} /\ pc' # "bodies"
        /\ UNCHANGED <<snap, cold, saved, marks, mem>> /\ engine' \in {engine, NoHeader}
    BY ONLY <1>20 DEF Publish, ArchiveFails
  <2> QED
    BY <2>1
<1>21. ASSUME Unlive
     PROVE  StoredInv'
  <2>1. /\ pc \notin {"bodies", "displaced", "snapshot"} /\ pc' # "bodies"
        /\ UNCHANGED <<snap, cold, saved, marks, mem>> /\ engine' \in {engine, NoHeader}
    BY ONLY <1>21 DEF Unlive, ArchiveFails
  <2> QED
    BY <2>1
<1>22. ASSUME RemoveLive
     PROVE  StoredInv'
  <2>1. /\ pc = "rmlive" /\ pc' = "unsnap" /\ UNCHANGED <<engine, snap, mem, saved, marks>>
        /\ mem.flow \notin Flows
        /\ \/ cold' = cold
           \/ cold' = [cold EXCEPT ![ret.flow] = NoBodies] /\ ~ret.alive
        /\ engine.flow # ret.flow /\ (ret.alive <=> snap[ret.flow] # NoHeader)
    BY <1>22 DEF RemoveLive, HeaderInv
  <2> QED
    BY <2>1
<1>23. ASSUME RetireSnapshot
     PROVE  StoredInv'
  <2>1. /\ pc = "unsnap" /\ pc' = "prune" /\ UNCHANGED <<engine, cold, mem, saved>>
        /\ ret.flow \in Flows /\ Unlink(ret.flow, ret.landed) /\ ret.landed \in BOOLEAN
    BY <1>23 DEF RetireSnapshot, Rets
  <2>2. PICK gone \in BOOLEAN :
          /\ snap' = IF gone THEN [snap EXCEPT ![ret.flow] = NoHeader] ELSE snap
          /\ \A g \in Flows \ {ret.flow} : marks'[g] = marks[g]
          /\ "apart" \in marks'[ret.flow] <=> "apart" \in marks[ret.flow] \/ (ret.landed /\ ~gone)
    BY ONLY <1>0, <2>1, UnlinkIs
  <2> QED
    BY <2>1, <2>2
<1>24. ASSUME PruneRetired
     PROVE  StoredInv'
  <2>1. /\ pc # "bodies" /\ pc' # "bodies" /\ Pending(mem.flow)' = Pending(mem.flow)
        /\ UNCHANGED <<snap, saved, marks, engine, mem, save>> /\ Prune(ret.flow) /\ mem.flow \notin Flows
    BY <1>24 DEF PruneRetired
  <2>2. cold' = cold \/ (cold' = [cold EXCEPT ![ret.flow] = NoBodies] /\ ~Referenced(ret.flow))
    BY ONLY <1>r, <2>1, PruneIs
  <2>3. CASE cold' = cold
    BY <2>1, <2>3
  <2>4. CASE cold' = [cold EXCEPT ![ret.flow] = NoBodies] /\ ~Referenced(ret.flow)
    BY <2>1, <2>4
  <2> QED
    BY <2>2, <2>3, <2>4
<1>25. ASSUME Discard
     PROVE  StoredInv'
  <2>1. /\ pc \notin {"bodies", "displaced", "snapshot"} /\ pc' # "bodies"
        /\ UNCHANGED <<snap, cold, saved, marks, engine, mem>>
    BY ONLY <1>25 DEF Discard, files
  <2> QED
    BY <2>1
<1>26. ASSUME Crash
     PROVE  StoredInv'
  <2>1. /\ pc' = "idle" /\ mem' = NoMem /\ UNCHANGED <<snap, cold, saved, engine>>
        /\ marks' = [f \in Flows |-> CrashMarks(f)]
    BY ONLY <1>26 DEF Crash, files
  <2>2. \A f \in Flows : "apart" \notin marks'[f] =>
          /\ "apart" \notin marks[f]
          /\ ~(pc \in {"bodies", "displaced", "snapshot"} /\ mem.flow = f)
    BY ONLY <2>1 DEF CrashMarks
  <2> QED
    BY <2>1, <2>2 DEF NoMem
<1> QED
  BY <1>1, <1>2, <1>3, <1>4, <1>5, <1>6, <1>7, <1>8, <1>9, <1>10, <1>11, <1>12,
    <1>13, <1>14, <1>15, <1>16, <1>17, <1>18, <1>19, <1>20, <1>21, <1>22,
    <1>23, <1>24, <1>25, <1>26
     DEF Next, SaveStep, RunStep, RetireStep

-----------------------------------------------------------------------------
(* What a reader of engine.json can rely on while it can be read.          *)

\* The invariant holds in the beginning.
LEMMA InitFilesInv == Init => FilesInv
<1> SUFFICES ASSUME Init PROVE FilesInv
  OBVIOUS
<1>1. /\ engine = NoHeader /\ \A f \in Flows : snap[f] = NoHeader /\ cold[f] = NoBodies
      /\ archive = {} /\ pc = "idle" /\ mem.flow = NoFlow /\ discarded = {}
      /\ \A f \in Flows : life[f] = "none" /\ saved[f] = NoBodies
  BY DEF Init, NoMem
<1>2. NoFlow \notin Flows
  BY FilesAssumption
<1>3. ~(\E f \in Flows : Referenced(f))
  BY <1>1, <1>2, NoHeaderIs DEF Referenced
<1>4. HeaderInv
  BY <1>1, <1>2, <1>3, NoHeaderIs DEF HeaderInv, Running, Saving, Retiring
<1>5. ResolveInv
  BY <1>1, <1>2, NoHeaderIs, BodyFacts DEF ResolveInv, Resolves
<1>6. OpenInv /\ DiscardInv
  BY <1>1, <1>2, NoHeaderIs DEF OpenInv, DiscardInv
<1>7. StoredInv
  BY <1>1, <1>2, <1>3, NoHeaderIs, BodyFacts DEF StoredInv, Agrees
<1> QED
  BY <1>4, <1>5, <1>6, <1>7, InitCoreInv DEF FilesInv

\* A step that changes nothing keeps every part of it.
LEMMA StutterFilesInv == FilesInv /\ UNCHANGED vars => FilesInv'
<1> SUFFICES ASSUME FilesInv, UNCHANGED vars PROVE FilesInv'
  OBVIOUS
<1>0. UNCHANGED <<engine, snap, cold, archive, pc, mem, save, ret, life, saved, discarded,
                  marks, spent>>
  BY DEF vars, files
<1>1. CoreInv'
  BY <1>0 DEF FilesInv, CoreInv, TypeOK, WorkInv, WholeInv, UnreadStaysWhole
<1>2. HeaderInv' /\ ResolveInv'
  BY <1>0 DEF FilesInv, HeaderInv, Referenced, ResolveInv
<1>3. OpenInv' /\ DiscardInv'
  BY <1>0 DEF FilesInv, OpenInv, Pending, DiscardInv
<1>4. StoredInv'
  BY <1>0 DEF FilesInv, StoredInv, Pending, Referenced, Agrees
<1> QED
  BY <1>1, <1>2, <1>3, <1>4 DEF FilesInv

\* The files, the flow at work and the history stay in agreement whatever fails or
\* dies, as long as engine.json can be read.
THEOREM FilesInvariant ==
    ASSUME "header" \notin Troubles
    PROVE  Spec => []FilesInv
<1>1. Init => FilesInv
  BY InitFilesInv
<1>2. FilesInv /\ [Next]_vars => FilesInv'
  <2>1. ASSUME FilesInv, Next PROVE FilesInv'
    <3>1. CoreInv
      BY <2>1 DEF FilesInv
    <3>2. CoreInv'
      BY <2>1, <3>1, NextTypeOK, NextWorkInv, NextWholeInv DEF CoreInv
    <3>3. HeaderInv' /\ ResolveInv' /\ OpenInv'
      BY <2>1, NextHeaderInv, NextResolveInv, NextOpenInv
    <3>4. DiscardInv' /\ StoredInv'
      BY <2>1, NextDiscardInv, NextStoredInv
    <3> QED
      BY <3>2, <3>3, <3>4 DEF FilesInv
  <2> QED
    BY <2>1, StutterFilesInv
<1> QED
  BY <1>1, <1>2, PTL DEF Spec

\* A flow whose review baselines were reclaimed is never resumed
\* (_discard_review_baselines of run.py and end_session.py): it has no snapshot,
\* and engine.json holds it completed or not at all.
THEOREM BaselinesKept ==
    ASSUME "header" \notin Troubles
    PROVE  Spec => []BaselinesOutliveResume
<1>1. FilesInv => BaselinesOutliveResume
  <2> SUFFICES ASSUME FilesInv, NEW f \in discarded PROVE ~Resumable(f)
    BY DEF BaselinesOutliveResume
  <2>1. f \in Flows
    BY TypeOKIs DEF FilesInv, CoreInv, GhostsTyped
  <2>2. snap[f] = NoHeader /\ (engine.flow = f => engine.status = "completed")
    BY DEF FilesInv, DiscardInv
  <2> QED
    BY <2>1, <2>2, NoHeaderIs, FilesAssumption DEF Resumable, Found
<1> QED
  BY <1>1, FilesInvariant, PTL

\* A flow can be resumed exactly as long as it is neither completed nor ended, the
\* snapshots apart whose writing or removal failed or was cut off (save_flow,
\* clear_resumable_snapshot).
THEOREM ResumableKept ==
    ASSUME "header" \notin Troubles
    PROVE  Spec => []ResumableWhileOpen
<1>1. FilesInv => ResumableWhileOpen
  <2> SUFFICES ASSUME FilesInv, NEW f \in Flows
               PROVE  /\ life[f] = "open" /\ "unsnapped" \notin marks[f] => Resumable(f)
                      /\ Resumable(f) /\ "kept" \notin marks[f] => life[f] = "open"
    BY DEF ResumableWhileOpen
  <2>1. /\ engine.flow = f => (engine.status = "open" <=> life[f] = "open")
        /\ snap[f].flow = f => snap[f].status = "open"
    BY NoHeaderIs, FilesAssumption DEF FilesInv, HeaderInv
  <2>2. CASE engine.flow = f
    BY <2>1, <2>2 DEF Resumable, Found
  <2>3. CASE engine.flow # f
    <3>1. ~Pending(f)
      BY <2>3 DEF FilesInv, CoreInv, WorkInv, Pending
    <3> QED
      BY <2>1, <2>3, <3>1 DEF FilesInv, OpenInv, Resumable, Found
  <2> QED
    BY <2>2, <2>3
<1> QED
  BY <1>1, FilesInvariant, PTL

\* What the last save of a flow held is what its files contain, also where the save
\* skipped a body for its hash, but for the saves that were cut off (save_flow).
THEOREM SavedKept ==
    ASSUME "header" \notin Troubles
    PROVE  Spec => []SavedIsStored
<1>1. FilesInv => SavedIsStored
  BY DEF FilesInv, StoredInv, SavedIsStored, Agrees
<1> QED
  BY <1>1, FilesInvariant, PTL

\* Every header of the archive has its bodies.
ArchiveInv == \A a \in archive : Resolves(a.ref, a.bodies)

\* Only a header whose copied bodies it refers to is archived, and they stay.
LEMMA NextArchiveInv ==
    ASSUME "header" \notin Troubles, "unlink" \notin Troubles, FilesInv, ArchiveInv, Next
    PROVE  ArchiveInv'
<1>1. ASSUME \/ \E p \in Parts : WriteBody(p)
             \/ WriteHeader
             \/ PruneDisplaced
             \/ WriteSnapshot
             \/ ClearSnapshot
             \/ PruneOwn
             \/ \E f \in Flows : Create(f)
     PROVE  UNCHANGED <<archive>>
  BY ONLY <1>1 DEF WriteBody, WriteHeader, PruneDisplaced, Prune,
    WriteSnapshot, ClearSnapshot, Unlink, PruneOwn, Create, KeepRest, files
<1>2. ASSUME \/ \E f \in Flows : Resume(f)
             \/ Access("current")
             \/ Access("past")
             \/ Rearm
             \/ LeaveStep
             \/ Work("open")
             \/ Work("completed")
     PROVE  UNCHANGED <<archive>>
  BY ONLY <1>2 DEF Resume, KeepRest, Access, Rearm, LeaveStep, Work, files
<1>3. ASSUME \/ Reclaim
             \/ Exit
             \/ Salvage
             \/ \E f \in Flows : EndSession(f)
             \/ Copy
             \/ RemoveLive
             \/ RetireSnapshot
     PROVE  UNCHANGED <<archive>>
  BY ONLY <1>3 DEF Reclaim, Exit, Salvage, EndSession, Copy, ArchiveFails,
    RemoveLive, RetireSnapshot, Unlink, files
<1>4. ASSUME \/ PruneRetired
             \/ Discard
             \/ Crash
     PROVE  UNCHANGED <<archive>>
  BY ONLY <1>4 DEF PruneRetired, Prune, Discard, Crash, files
<1>5. CASE UNCHANGED <<archive>>
  BY <1>5 DEF ArchiveInv
<1>6. ASSUME Publish
     PROVE  ArchiveInv'
  <2>1. /\ pc = "publish"
        /\ archive' = archive \/ archive' = archive \cup {Archived(ret.copy)}
    BY ONLY <1>6 DEF Publish
  <2>2. /\ ret.flow \in Flows /\ engine.flow = ret.flow /\ ret.copy = cold[ret.flow]
    BY <2>1 DEF FilesInv, CoreInv, WorkInv, HeaderInv, Retiring
  <2>3. Resolves(engine.ref, ret.copy)
    BY <2>2 DEF FilesInv, ResolveInv
  <2> QED
    BY <2>1, <2>3 DEF ArchiveInv, Archived
<1>7. ASSUME Unlive
     PROVE  ArchiveInv'
  <2>1. PICK ok \in Outcomes("unlink") : ok => archive' = archive
    BY ONLY <1>7 DEF Unlive
  <2>2. ok
    BY Failing
  <2> QED
    BY <2>1, <2>2 DEF ArchiveInv
<1> QED
  BY <1>1, <1>2, <1>3, <1>4, <1>5, <1>6, <1>7
     DEF Next, SaveStep, RunStep, RetireStep

\* No header points at a body that is not there, in engine.json, in a snapshot or in
\* the archive (save_flow, _prune_cold_partition_if_orphan, clear_state).
THEOREM RefsStay ==
    ASSUME "header" \notin Troubles, "unlink" \notin Troubles
    PROVE  Spec => []RefsResolve
<1>1. Init => ArchiveInv
  BY DEF Init, ArchiveInv
<1>2. FilesInv /\ ArchiveInv /\ [Next]_vars => ArchiveInv'
  <2>1. ASSUME ArchiveInv, UNCHANGED vars PROVE ArchiveInv'
    BY <2>1 DEF ArchiveInv, vars, files
  <2> QED
    BY <2>1, NextArchiveInv
<1>3. FilesInv /\ ArchiveInv => RefsResolve
  BY DEF FilesInv, ResolveInv, ArchiveInv, RefsResolve
<1> QED
  BY <1>1, <1>2, <1>3, FilesInvariant, PTL DEF Spec

=============================================================================
