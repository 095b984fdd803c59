-------------------------- MODULE StopSignal_proofs --------------------------
(***************************************************************************)
(* Proofs about StopSignal for any number of interjections, steps, Ctrl-C  *)
(* and workers.                                                            *)
(***************************************************************************)
EXTENDS StopSignal, TLAPS

\* The type invariant, by the owner of the variables.
SignalTyped   == signal \in [pending : BOOLEAN, texts : SUBSET Interjections,
                              event : BOOLEAN, delivered : BOOLEAN, handoff : BOOLEAN]
WatcherStates == [at : {"off", "idle", "publish", "escalate", "look", "claim", "trip"},
                  texts : SUBSET Interjections, due : BOOLEAN, escalated : BOOLEAN,
                  stop : BOOLEAN]
WatchersTyped == watchers \in [1 .. MaxSteps -> WatcherStates]
HandlerTyped  == /\ handler \in [at : {"idle", "publish", "look", "claim", "consume",
                                        "stuck"},
                                  from : SUBSET Sources]
                 /\ tripped \subseteq Sources
MainTyped     == /\ llm \in 0 .. MaxWorkers /\ section \in BOOLEAN
                 /\ pc \in Places /\ step \in 0 .. MaxSteps
                 /\ interrupted \in BOOLEAN /\ finished \in BOOLEAN
GhostsTyped   == /\ carried \subseteq Interjections /\ disk \subseteq Interjections
                 /\ unsent \subseteq Interjections /\ answered \subseteq Interjections
                 /\ ctrlcs \in 0 .. MaxCtrlC /\ raises \in Nat
                 /\ abandoned \in BOOLEAN /\ astray \subseteq {"torn", "escaped"}

\* Where the step's try and the one around watcher.stop() catch an interrupt.
Caught == Guarded \cup Stopping

\* Calls in flight and sections, by where the main thread is.
PlaceInv ==
    /\ pc = "llm" => llm = 1
    /\ llm > 0 => pc \in {"llm", "pool", "unwinding"}
    /\ section => pc \in {"work", "spawning", "llm"}
    /\ pc \notin {"loop", "exited"} => step \in 1 .. MaxSteps

\* A handler is there for somebody, has published before it goes on, and has
\* found nothing to tear before it claims.
HandlerInv ==
    /\ handler.at = "idle" => handler.from = {}
    /\ handler.at # "idle" => handler.from # {}
    /\ handler.at \in {"look", "claim", "consume"} => signal.pending
    /\ handler.at \in {"claim", "consume"} => ~section /\ pc # "llm"

\* A flag belongs to a request, but between the two halves of a clear(); a
\* request of which a claim is left has produced no interrupt.
RequestInv ==
    /\ signal.event => signal.pending \/ pc \in {"clearing", "taken"}
    /\ signal.handoff => signal.delivered
    /\ signal.pending /\ (~signal.delivered \/ signal.handoff) => raises = 0
    /\ signal.texts # {} => signal.event /\ pc \notin {"clearing", "taken"}
    /\ carried # {} => pc \in {"taken", "opening", "exited"}

\* While every watcher.stop() came to its end, only the current step's watcher
\* lives, inside the region that catches its interrupts.
WatcherInv ==
    ~abandoned =>
        /\ \A k \in 1 .. MaxSteps :
             /\ watchers[k].at # "off" => k = step /\ pc \in Caught
             /\ watchers[k].texts # {} => watchers[k].at = "publish"
        /\ "watcher" \in tripped \cup handler.from => pc \in Caught
        /\ pc \in {"loop", "opening", "dialog"} => signal.texts = {}

\* The inductive invariant.
StopInv ==
    /\ TypeOK /\ PlaceInv /\ HandlerInv /\ RequestInv /\ WatcherInv
    /\ InterruptsLandSafely /\ DrainedTextKept

------------------------------------------------------------------------------
(* The type invariant, variable by variable. *)

\* The signal keeps its type.
LEMMA NextSignalTyped == StopInv /\ Next => SignalTyped'
<1> SUFFICES ASSUME StopInv, Next PROVE SignalTyped'
  OBVIOUS
<1>1. ASSUME Outside
      PROVE  UNCHANGED <<signal>>
  BY <1>1 DEF Outside, CtrlC, Interject
<1>2. ASSUME NEW k \in 1 .. MaxSteps,
             \/ WatcherPolls(k) \/ WatcherDefers(k) \/ WatcherLooks(k)
             \/ WatcherTrips(k) \/ WatcherEnds(k)
      PROVE  UNCHANGED <<signal>>
  BY <1>2 DEF WatcherPolls, WatcherDefers, WatcherLooks, WatcherTrips,
      WatcherEnds
<1>3. ASSUME \/ SignalArrives \/ HandlerSticks \/ HandlerLooks
             \/ SectionEnters \/ SectionExits \/ AttemptChecks \/ LlmEnters
             \/ LlmExits
      PROVE  UNCHANGED <<signal>>
  BY <1>3 DEF SignalArrives, HandlerSticks, HandlerLooks, SectionEnters,
      SectionExits, AttemptChecks, LlmEnters, LlmExits
<1>4. ASSUME \/ PoolOpens \/ WorkerCalls \/ WorkerReturns \/ PoolCloses
             \/ StepReturns \/ StepCut \/ WatcherToldToStop \/ WatcherJoined
      PROVE  UNCHANGED <<signal>>
  BY <1>4 DEF PoolOpens, WorkerCalls, WorkerReturns, PoolCloses, StepReturns,
      StepCut, WatcherToldToStop, WatcherJoined
<1>5. ASSUME \/ StepDecides \/ DialogOpens \/ DialogEnds
      PROVE  UNCHANGED <<signal>>
  BY <1>5 DEF StepDecides, DialogOpens, DialogEnds
<1>6. CASE UNCHANGED <<signal>>
  BY <1>6 DEF StopInv, TypeOK, SignalTyped
<1> USE StopAssumption DEF StopInv, TypeOK, SignalTyped
<1>7. CASE HandlerPublishes
  BY <1>7 DEF HandlerPublishes, Request
<1>8. CASE HandlerClaims
  BY <1>8 DEF HandlerClaims, Claimed, Interrupt
<1>9. CASE HandlerConsumes
  BY <1>9, ZenonT(60) DEF HandlerConsumes, Consumed, Interrupt
<1>10. ASSUME NEW k \in 1 .. MaxSteps, WatcherPublishes(k) PROVE SignalTyped'
  BY <1>10 DEF WatcherPublishes, Request
<1>11. ASSUME NEW k \in 1 .. MaxSteps, WatcherClaims(k) PROVE SignalTyped'
  BY <1>11 DEF WatcherClaims, HandedOff
<1>12. CASE StepBegins
  BY <1>12 DEF StepBegins, Dropped, NoRequest
<1>13. CASE StepStarts
  BY <1>13 DEF StepStarts
<1>14. CASE DeferredRaise
  BY <1>14, ZenonT(60) DEF DeferredRaise, Claimed, Consumed, Interrupt
<1>15. CASE RequestTaken
  BY <1>15 DEF RequestTaken, Dropped, NoRequest
<1>16. CASE FlagLowered
  BY <1>16 DEF FlagLowered
<1> QED
  BY <1>1, <1>2, <1>3, <1>4, <1>5, <1>6, <1>7, <1>8, <1>9, <1>10, <1>11,
     <1>12, <1>13, <1>14, <1>15, <1>16 DEF Next, Outside,
     Handler, Watcher, Bound, Free

\* A watcher that goes to a state of its type keeps the watchers' type.
LEMMA GoesTyped ==
    ASSUME WatchersTyped, NEW k \in 1 .. MaxSteps, NEW w \in WatcherStates, Goes(k, w)
    PROVE  WatchersTyped'
  BY DEF WatchersTyped, Goes

\* The watchers keep their type.
LEMMA NextWatchersTyped == StopInv /\ Next => WatchersTyped'
<1> SUFFICES ASSUME StopInv, Next PROVE WatchersTyped'
  OBVIOUS
<1>1. WatchersTyped /\ disk \subseteq Interjections /\ step \in 0 .. MaxSteps
  BY DEF StopInv, TypeOK, WatchersTyped, WatcherStates
<1>2. ASSUME UNCHANGED watchers PROVE WatchersTyped'
  BY <1>1, <1>2 DEF WatchersTyped
<1>3. ASSUME NEW k \in 1 .. MaxSteps, Watcher(k) PROVE WatchersTyped'
  <2>1. watchers[k] \in WatcherStates
    BY <1>1 DEF WatchersTyped
  <2>2. CASE WatcherPolls(k)
    <3>1. [watchers[k] EXCEPT !.at = "publish", !.texts = disk] \in WatcherStates
      BY <1>1, <2>1 DEF WatcherStates
    <3>2. [watchers[k] EXCEPT !.at = "escalate"] \in WatcherStates
      BY <2>1 DEF WatcherStates
    <3> QED
      BY <1>1, <2>2, <3>1, <3>2, GoesTyped DEF WatcherPolls
  <2>3. CASE WatcherPublishes(k)
    <3> PICK t \in watchers[k].texts :
          Goes(k, IF watchers[k].texts = {t}
                  THEN [watchers[k] EXCEPT !.at = "escalate", !.texts = {}, !.due = TRUE]
                  ELSE [watchers[k] EXCEPT !.texts = @ \ {t}])
      BY <2>3 DEF WatcherPublishes
    <3>1. [watchers[k] EXCEPT !.at = "escalate", !.texts = {}, !.due = TRUE]
            \in WatcherStates
      BY <2>1 DEF WatcherStates
    <3>2. [watchers[k] EXCEPT !.texts = @ \ {t}] \in WatcherStates
      BY <2>1 DEF WatcherStates
    <3> QED
      BY <1>1, <3>1, <3>2, GoesTyped
  <2>4. CASE WatcherDefers(k)
    <3>1. [watchers[k] EXCEPT !.at = IF section THEN "idle" ELSE "look"] \in WatcherStates
      BY <2>1 DEF WatcherStates
    <3> QED
      BY <1>1, <2>4, <3>1, GoesTyped DEF WatcherDefers
  <2>5. CASE WatcherLooks(k)
    <3>1. [watchers[k] EXCEPT !.at = "idle", !.due = FALSE] \in WatcherStates
      BY <2>1 DEF WatcherStates
    <3>2. [watchers[k] EXCEPT !.at = "claim"] \in WatcherStates
      BY <2>1 DEF WatcherStates
    <3> QED
      BY <1>1, <2>5, <3>1, <3>2, GoesTyped DEF WatcherLooks
  <2>6. CASE WatcherClaims(k)
    <3>1. [watchers[k] EXCEPT !.at = "trip", !.escalated = TRUE, !.due = FALSE]
            \in WatcherStates
      BY <2>1 DEF WatcherStates
    <3>2. [watchers[k] EXCEPT !.at = "idle", !.due = FALSE] \in WatcherStates
      BY <2>1 DEF WatcherStates
    <3> QED
      BY <1>1, <2>6, <3>1, <3>2, GoesTyped DEF WatcherClaims
  <2>7. CASE WatcherTrips(k)
    <3>1. [watchers[k] EXCEPT !.at = "idle"] \in WatcherStates
      BY <2>1 DEF WatcherStates
    <3> QED
      BY <1>1, <2>7, <3>1, GoesTyped DEF WatcherTrips
  <2>8. CASE WatcherEnds(k)
    <3>1. [watchers[k] EXCEPT !.at = "off"] \in WatcherStates
      BY <2>1 DEF WatcherStates
    <3> QED
      BY <1>1, <2>8, <3>1, GoesTyped DEF WatcherEnds
  <2> QED
    BY <1>3, <2>2, <2>3, <2>4, <2>5, <2>6, <2>7, <2>8 DEF Watcher
<1>4. CASE StepStarts
  BY <1>1, <1>4 DEF StepStarts, WatchersTyped, WatcherStates
<1>5. CASE WatcherToldToStop
  BY <1>1, <1>5 DEF WatcherToldToStop, WatchersTyped, WatcherStates
<1>6. CASE Outside \/ Handler \/ Free
  <2>1. UNCHANGED watchers
    BY <1>6 DEF Outside, CtrlC, Interject, Handler, SignalArrives, HandlerPublishes,
         HandlerSticks, HandlerLooks, HandlerClaims, HandlerConsumes, Free, StepBegins,
         SectionEnters, AttemptChecks, PoolOpens, WorkerCalls, StepReturns, DialogEnds
  <2> QED
    BY <1>2, <2>1
<1>7. CASE \/ SectionExits \/ DeferredRaise \/ LlmEnters \/ LlmExits \/ WorkerReturns
           \/ PoolCloses \/ StepCut \/ WatcherJoined \/ StepDecides \/ RequestTaken
           \/ FlagLowered \/ DialogOpens
  <2>1. UNCHANGED watchers
    BY <1>7 DEF SectionExits, DeferredRaise, LlmEnters, LlmExits, WorkerReturns,
         PoolCloses, StepCut, WatcherJoined, StepDecides, RequestTaken, FlagLowered,
         DialogOpens
  <2> QED
    BY <1>2, <2>1
<1> QED
  BY <1>3, <1>4, <1>5, <1>6, <1>7 DEF Next, Bound

\* The handler and the tripped signals keep their types.
LEMMA NextHandlerTyped == StopInv /\ Next => HandlerTyped'
<1> SUFFICES ASSUME StopInv, Next PROVE HandlerTyped'
  OBVIOUS
<1>1. ASSUME NEW k \in 1 .. MaxSteps,
             \/ WatcherPolls(k) \/ WatcherPublishes(k) \/ WatcherDefers(k)
             \/ WatcherLooks(k) \/ WatcherClaims(k) \/ WatcherEnds(k)
      PROVE  UNCHANGED <<handler, tripped>>
  BY <1>1 DEF WatcherPolls, WatcherPublishes, WatcherDefers, WatcherLooks,
      WatcherClaims, WatcherEnds
<1>2. ASSUME \/ StepBegins \/ StepStarts \/ SectionEnters \/ SectionExits
             \/ DeferredRaise \/ AttemptChecks \/ LlmEnters \/ LlmExits
      PROVE  UNCHANGED <<handler, tripped>>
  BY <1>2 DEF StepBegins, StepStarts, SectionEnters, SectionExits,
      DeferredRaise, AttemptChecks, LlmEnters, LlmExits
<1>3. ASSUME \/ PoolOpens \/ WorkerCalls \/ WorkerReturns \/ PoolCloses
             \/ StepReturns \/ StepCut \/ WatcherToldToStop \/ WatcherJoined
      PROVE  UNCHANGED <<handler, tripped>>
  BY <1>3 DEF PoolOpens, WorkerCalls, WorkerReturns, PoolCloses, StepReturns,
      StepCut, WatcherToldToStop, WatcherJoined
<1>4. ASSUME \/ StepDecides \/ RequestTaken \/ FlagLowered \/ DialogOpens
             \/ DialogEnds
      PROVE  UNCHANGED <<handler, tripped>>
  BY <1>4 DEF StepDecides, RequestTaken, FlagLowered, DialogOpens, DialogEnds
<1>5. ASSUME NEW t \in Interjections, Interject(t)
      PROVE  UNCHANGED <<handler, tripped>>
  BY <1>5 DEF Interject
<1>6. CASE UNCHANGED <<handler, tripped>>
  BY <1>6 DEF StopInv, TypeOK, HandlerTyped
<1> USE StopAssumption DEF StopInv, TypeOK, Sources, HandlerTyped, Returns,
    AtRest
<1>7. CASE CtrlC
  BY <1>7 DEF CtrlC
<1>8. CASE SignalArrives
  BY <1>8 DEF SignalArrives
<1>9. CASE HandlerPublishes
  BY <1>9 DEF HandlerPublishes, Request
<1>10. CASE HandlerSticks
  BY <1>10 DEF HandlerSticks
<1>11. CASE HandlerLooks
  BY <1>11 DEF HandlerLooks
<1>12. CASE HandlerClaims
  BY <1>12 DEF HandlerClaims, Claimed, Interrupt
<1>13. CASE HandlerConsumes
  BY <1>13 DEF HandlerConsumes, Consumed, Interrupt
<1>14. ASSUME NEW k \in 1 .. MaxSteps, WatcherTrips(k) PROVE HandlerTyped'
  BY <1>14 DEF WatcherTrips
<1> QED
  BY <1>1, <1>2, <1>3, <1>4, <1>5, <1>6, <1>7, <1>8, <1>9, <1>10, <1>11,
     <1>12, <1>13, <1>14 DEF Next, Outside,
     Handler, Watcher, Bound, Free

\* What the main thread owns keeps its type.
LEMMA NextMainTyped == StopInv /\ Next => MainTyped'
<1> SUFFICES ASSUME StopInv, Next PROVE MainTyped'
  OBVIOUS
<1>1. ASSUME Outside
      PROVE  UNCHANGED <<llm, section, pc, step, interrupted, finished>>
  BY <1>1 DEF Outside, CtrlC, Interject, main
<1>2. ASSUME NEW k \in 1 .. MaxSteps, Watcher(k)
      PROVE  UNCHANGED <<llm, section, pc, step, interrupted, finished>>
  BY <1>2 DEF Watcher, WatcherPolls, WatcherPublishes, WatcherDefers,
      WatcherLooks, WatcherClaims, WatcherTrips, WatcherEnds, main
<1>3. ASSUME \/ SignalArrives \/ HandlerPublishes \/ HandlerSticks
             \/ HandlerLooks
      PROVE  UNCHANGED <<llm, section, pc, step, interrupted, finished>>
  BY <1>3 DEF SignalArrives, HandlerPublishes, HandlerSticks, HandlerLooks,
      main
<1>4. CASE UNCHANGED <<llm, section, pc, step, interrupted, finished>>
  BY <1>4 DEF StopInv, TypeOK, MainTyped
<1> USE StopAssumption DEF StopInv, TypeOK, PlaceInv, HandlerInv, Places,
    Guarded, Stopping, Handling, At, main, MainTyped
<1>5. CASE HandlerClaims
  BY <1>5 DEF HandlerClaims, Interrupt
<1>6. CASE HandlerConsumes
  BY <1>6 DEF HandlerConsumes, Interrupt
<1>7. CASE StepBegins
  <2>1. step' \in 0 .. MaxSteps
    BY <1>7 DEF StepBegins
  <2> QED
    BY <1>7, <2>1 DEF StepBegins
<1>8. CASE StepStarts
  BY <1>8 DEF StepStarts
<1>9. CASE SectionEnters
  BY <1>9 DEF SectionEnters
<1>10. CASE SectionExits
  BY <1>10 DEF SectionExits
<1>11. CASE DeferredRaise
  BY <1>11 DEF DeferredRaise, Interrupt
<1>12. CASE AttemptChecks
  BY <1>12 DEF AttemptChecks
<1>13. CASE LlmEnters
  BY <1>13 DEF LlmEnters
<1>14. CASE LlmExits
  <2>1. llm' \in 0 .. MaxWorkers
    BY <1>14 DEF LlmExits
  <2>2. pc' \in Places /\ section' \in BOOLEAN
    BY <1>14 DEF LlmExits
  <2> QED
    BY <1>14, <2>1, <2>2 DEF LlmExits
<1>15. CASE PoolOpens
  BY <1>15 DEF PoolOpens
<1>16. CASE WorkerCalls
  BY <1>16 DEF WorkerCalls
<1>17. CASE WorkerReturns
  BY <1>17 DEF WorkerReturns
<1>18. CASE PoolCloses
  BY <1>18 DEF PoolCloses
<1>19. CASE StepReturns
  BY <1>19 DEF StepReturns
<1>20. CASE StepCut
  BY <1>20 DEF StepCut
<1>21. CASE WatcherToldToStop
  BY <1>21 DEF WatcherToldToStop
<1>22. CASE WatcherJoined
  BY <1>22 DEF WatcherJoined
<1>23. CASE StepDecides
  BY <1>23 DEF StepDecides
<1>24. CASE RequestTaken
  BY <1>24 DEF RequestTaken
<1>25. CASE FlagLowered
  BY <1>25 DEF FlagLowered
<1>26. CASE DialogOpens
  BY <1>26 DEF DialogOpens
<1>27. CASE DialogEnds
  BY <1>27 DEF DialogEnds
<1> QED
  BY <1>1, <1>2, <1>3, <1>4, <1>5, <1>6, <1>7, <1>8, <1>9, <1>10, <1>11,
     <1>12, <1>13, <1>14, <1>15, <1>16, <1>17, <1>18, <1>19, <1>20, <1>21,
     <1>22, <1>23, <1>24, <1>25, <1>26, <1>27 DEF Next, Outside,
     Handler, Watcher, Bound, Free

\* Texts, counters and history variables keep their types.
LEMMA NextGhostsTyped == StopInv /\ Next => GhostsTyped'
<1> SUFFICES ASSUME StopInv, Next PROVE GhostsTyped'
  OBVIOUS
<1>1. ASSUME NEW k \in 1 .. MaxSteps,
             \/ WatcherDefers(k) \/ WatcherLooks(k) \/ WatcherClaims(k)
             \/ WatcherTrips(k) \/ WatcherEnds(k)
      PROVE  UNCHANGED <<carried, disk, unsent, answered, ctrlcs, raises,
                        abandoned, astray>>
  BY <1>1 DEF WatcherDefers, WatcherLooks, WatcherClaims, WatcherTrips,
      WatcherEnds, main, outside, ghosts
<1>2. ASSUME \/ SignalArrives \/ HandlerSticks \/ HandlerLooks \/ StepBegins
             \/ StepStarts \/ SectionEnters \/ SectionExits \/ AttemptChecks
      PROVE  UNCHANGED <<carried, disk, unsent, answered, ctrlcs, raises,
                        abandoned, astray>>
  BY <1>2 DEF SignalArrives, HandlerSticks, HandlerLooks, StepBegins,
      StepStarts, SectionEnters, SectionExits, AttemptChecks, main, outside,
      ghosts
<1>3. ASSUME \/ LlmEnters \/ LlmExits \/ PoolOpens \/ WorkerCalls
             \/ WorkerReturns \/ PoolCloses \/ StepReturns \/ StepCut
      PROVE  UNCHANGED <<carried, disk, unsent, answered, ctrlcs, raises,
                        abandoned, astray>>
  BY <1>3 DEF LlmEnters, LlmExits, PoolOpens, WorkerCalls, WorkerReturns,
      PoolCloses, StepReturns, StepCut, main, outside, ghosts
<1>4. ASSUME \/ WatcherToldToStop \/ StepDecides \/ FlagLowered
             \/ DialogEnds
      PROVE  UNCHANGED <<carried, disk, unsent, answered, ctrlcs, raises,
                        abandoned, astray>>
  BY <1>4 DEF WatcherToldToStop, StepDecides, FlagLowered, DialogEnds, main,
      outside, ghosts
<1>5. CASE UNCHANGED <<carried, disk, unsent, answered, ctrlcs, raises,
                    abandoned, astray>>
  BY <1>5 DEF StopInv, TypeOK, GhostsTyped
<1> USE StopAssumption DEF StopInv, TypeOK, outside, ghosts, main,
    GhostsTyped
<1>6. CASE CtrlC
  BY <1>6 DEF CtrlC
<1>7. ASSUME NEW t \in Interjections, Interject(t) PROVE GhostsTyped'
  BY <1>7 DEF Interject
<1>8. CASE HandlerPublishes
  BY <1>8 DEF HandlerPublishes, Request
<1>9. CASE HandlerClaims
  <2>1. CASE signal.delivered
    BY <1>9, <2>1 DEF HandlerClaims
  <2>2. CASE Interrupt(handler.from)
    <3>1. astray' \subseteq {"torn", "escaped"}
      BY <2>2 DEF Interrupt
    <3>2. raises' \in Nat /\ abandoned' \in BOOLEAN /\ UNCHANGED carried
      BY <2>2 DEF Interrupt
    <3> QED
      BY <1>9, <3>1, <3>2 DEF HandlerClaims
  <2> QED
    BY <1>9, <2>1, <2>2 DEF HandlerClaims
<1>10. CASE HandlerConsumes
  BY <1>10 DEF HandlerConsumes, Interrupt
<1>11. ASSUME NEW k \in 1 .. MaxSteps, WatcherPolls(k) PROVE GhostsTyped'
  BY <1>11 DEF WatcherPolls
<1>12. ASSUME NEW k \in 1 .. MaxSteps, WatcherPublishes(k) PROVE GhostsTyped'
  BY <1>12 DEF WatcherPublishes, Request
<1>13. CASE DeferredRaise
  BY <1>13 DEF DeferredRaise, Interrupt
<1>14. CASE WatcherJoined
  BY <1>14 DEF WatcherJoined
<1>15. CASE RequestTaken
  BY <1>15 DEF RequestTaken
<1>16. CASE DialogOpens
  BY <1>16 DEF DialogOpens
<1> QED
  BY <1>1, <1>2, <1>3, <1>4, <1>5, <1>6, <1>7, <1>8, <1>9, <1>10, <1>11,
     <1>12, <1>13, <1>14, <1>15, <1>16 DEF Next, Outside,
     Handler, Watcher, Bound, Free

\* Together they are the type invariant.
LEMMA NextTypeOK == StopInv /\ Next => TypeOK'
<1> SUFFICES ASSUME StopInv, Next PROVE TypeOK'
  OBVIOUS
<1>1. metLlm' \in BOOLEAN
  BY Zenon DEF Next, Meets
<1>2. SignalTyped' /\ WatchersTyped' /\ HandlerTyped' /\ MainTyped' /\ GhostsTyped'
  BY NextSignalTyped, NextWatchersTyped, NextHandlerTyped, NextMainTyped, NextGhostsTyped
<1> QED
  BY <1>1, <1>2 DEF TypeOK, SignalTyped, WatchersTyped, WatcherStates, HandlerTyped,
     MainTyped, GhostsTyped

------------------------------------------------------------------------------
(* The rest of the inductive invariant, part by part. *)

\* What a watcher drains is what it publishes; nothing is with it but that.
LEMMA PolledTexts ==
    ASSUME WatchersTyped, NEW k \in 1 .. MaxSteps, WatcherPolls(k)
    PROVE  /\ \A j \in 1 .. MaxSteps : j # k => watchers'[j] = watchers[j]
           /\ \/ watchers'[k].at = "publish" /\ watchers'[k].texts = disk
              \/ disk = {} /\ watchers'[k].texts = watchers[k].texts
<1>1. watchers[k] \in WatcherStates
  BY DEF WatchersTyped
<1>2. \A j \in 1 .. MaxSteps : j # k => watchers'[j] = watchers[j]
  BY DEF WatchersTyped, WatcherPolls, Goes
<1>3. \/ watchers'[k] = [watchers[k] EXCEPT !.at = "publish", !.texts = disk]
      \/ disk = {} /\ watchers'[k] = [watchers[k] EXCEPT !.at = "escalate"]
  BY DEF WatchersTyped, WatcherPolls, Goes
<1> QED
  BY <1>1, <1>2, <1>3 DEF WatcherStates

\* A claim moves no text.
LEMMA ClaimedTexts ==
    ASSUME WatchersTyped, SignalTyped, NEW k \in 1 .. MaxSteps, WatcherClaims(k)
    PROVE  /\ \A j \in 1 .. MaxSteps : j # k => watchers'[j] = watchers[j]
           /\ watchers'[k].texts = watchers[k].texts
           /\ signal'.texts = signal.texts
<1>1. watchers[k] \in WatcherStates
  BY DEF WatchersTyped
<1>2. \A j \in 1 .. MaxSteps : j # k => watchers'[j] = watchers[j]
  BY DEF WatchersTyped, WatcherClaims, Goes
<1>3. \/ watchers'[k] = [watchers[k] EXCEPT !.at = "trip", !.escalated = TRUE, !.due = FALSE]
      \/ watchers'[k] = [watchers[k] EXCEPT !.at = "idle", !.due = FALSE]
  BY DEF WatchersTyped, WatcherClaims, Goes
<1>4. signal'.texts = signal.texts
  BY DEF SignalTyped, WatcherClaims, HandedOff
<1> QED
  BY <1>1, <1>2, <1>3, <1>4 DEF WatcherStates

\* Calls and sections stay with the place of the main thread.
LEMMA NextPlaceInv == StopInv /\ Next => PlaceInv'
<1> SUFFICES ASSUME StopInv, Next PROVE PlaceInv'
  OBVIOUS
<1>1. ASSUME Outside
      PROVE  UNCHANGED <<llm, section, pc, step>>
  BY <1>1 DEF Outside, CtrlC, Interject, main
<1>2. ASSUME NEW k \in 1 .. MaxSteps, Watcher(k)
      PROVE  UNCHANGED <<llm, section, pc, step>>
  BY <1>2 DEF Watcher, WatcherPolls, WatcherPublishes, WatcherDefers,
      WatcherLooks, WatcherClaims, WatcherTrips, WatcherEnds, main
<1>3. ASSUME \/ SignalArrives \/ HandlerPublishes \/ HandlerSticks
             \/ HandlerLooks
      PROVE  UNCHANGED <<llm, section, pc, step>>
  BY <1>3 DEF SignalArrives, HandlerPublishes, HandlerSticks, HandlerLooks,
      main
<1>4. CASE UNCHANGED <<llm, section, pc, step>>
  BY <1>4 DEF StopInv, PlaceInv
<1> USE StopAssumption DEF StopInv, Handling, Watching, Goes, At, Returns,
    AtRest, main, outside, ghosts, TypeOK, Places, Guarded, Stopping,
    PlaceInv, HandlerInv
<1>5. CASE HandlerClaims
  BY <1>5 DEF HandlerClaims, Interrupt
<1>6. CASE HandlerConsumes
  BY <1>6 DEF HandlerConsumes, Interrupt
<1>7. CASE StepBegins
  BY <1>7 DEF StepBegins
<1>8. CASE StepStarts
  BY <1>8 DEF StepStarts
<1>9. CASE SectionEnters
  BY <1>9 DEF SectionEnters
<1>10. CASE SectionExits
  BY <1>10 DEF SectionExits
<1>11. CASE DeferredRaise
  BY <1>11 DEF DeferredRaise, Interrupt
<1>12. CASE AttemptChecks
  BY <1>12 DEF AttemptChecks
<1>13. CASE LlmEnters
  BY <1>13 DEF LlmEnters
<1>14. CASE LlmExits
  BY <1>14 DEF LlmExits
<1>15. CASE PoolOpens
  BY <1>15 DEF PoolOpens
<1>16. CASE WorkerCalls
  BY <1>16 DEF WorkerCalls
<1>17. CASE WorkerReturns
  BY <1>17 DEF WorkerReturns
<1>18. CASE PoolCloses
  BY <1>18 DEF PoolCloses
<1>19. CASE StepReturns
  BY <1>19 DEF StepReturns
<1>20. CASE StepCut
  BY <1>20 DEF StepCut
<1>21. CASE WatcherToldToStop
  BY <1>21 DEF WatcherToldToStop
<1>22. CASE WatcherJoined
  BY <1>22 DEF WatcherJoined
<1>23. CASE StepDecides
  BY <1>23 DEF StepDecides
<1>24. CASE RequestTaken
  BY <1>24 DEF RequestTaken
<1>25. CASE FlagLowered
  BY <1>25 DEF FlagLowered
<1>26. CASE DialogOpens
  BY <1>26 DEF DialogOpens
<1>27. CASE DialogEnds
  BY <1>27 DEF DialogEnds
<1> QED
  BY <1>1, <1>2, <1>3, <1>4, <1>5, <1>6, <1>7, <1>8, <1>9, <1>10, <1>11,
     <1>12, <1>13, <1>14, <1>15, <1>16, <1>17, <1>18, <1>19, <1>20, <1>21,
     <1>22, <1>23, <1>24, <1>25, <1>26, <1>27 DEF Next, Outside,
     Handler, Watcher, Bound, Free

\* The handler claims where there is nothing to tear.
LEMMA NextHandlerInv == StopInv /\ Next => HandlerInv'
<1> SUFFICES ASSUME StopInv, Next PROVE HandlerInv'
  OBVIOUS
<1>1. ASSUME Outside
      PROVE  UNCHANGED <<handler, signal, section, pc>>
  BY <1>1 DEF Outside, CtrlC, Interject, main
<1>2. ASSUME NEW k \in 1 .. MaxSteps,
             \/ WatcherPolls(k) \/ WatcherDefers(k) \/ WatcherLooks(k)
             \/ WatcherTrips(k) \/ WatcherEnds(k)
      PROVE  UNCHANGED <<handler, signal, section, pc>>
  BY <1>2 DEF WatcherPolls, WatcherDefers, WatcherLooks, WatcherTrips,
      WatcherEnds, main
<1>3. ASSUME \/ WorkerCalls \/ WorkerReturns
      PROVE  UNCHANGED <<handler, signal, section, pc>>
  BY <1>3 DEF WorkerCalls, WorkerReturns, main
<1>4. CASE UNCHANGED <<handler, signal, section, pc>>
  BY <1>4 DEF StopInv, HandlerInv
<1> USE StopAssumption DEF StopInv, Handling, Watching, Goes, At, Returns,
    AtRest, main, outside, ghosts, TypeOK, Places, Guarded, Stopping,
    PlaceInv, HandlerInv
<1>5. CASE SignalArrives
  BY <1>5 DEF SignalArrives
<1>6. CASE HandlerPublishes
  BY <1>6 DEF HandlerPublishes, Request
<1>7. CASE HandlerSticks
  BY <1>7 DEF HandlerSticks
<1>8. CASE HandlerLooks
  BY <1>8 DEF HandlerLooks
<1>9. CASE HandlerClaims
  BY <1>9 DEF HandlerClaims, Claimed, Interrupt
<1>10. CASE HandlerConsumes
  BY <1>10 DEF HandlerConsumes, Consumed, Interrupt
<1>11. ASSUME NEW k \in 1 .. MaxSteps, WatcherPublishes(k) PROVE HandlerInv'
  BY <1>11 DEF WatcherPublishes, Request
<1>12. ASSUME NEW k \in 1 .. MaxSteps, WatcherClaims(k) PROVE HandlerInv'
  BY <1>12 DEF WatcherClaims, HandedOff
<1>13. CASE StepBegins
  BY <1>13 DEF StepBegins, Dropped, NoRequest
<1>14. CASE StepStarts
  BY <1>14 DEF StepStarts
<1>15. CASE SectionEnters
  BY <1>15 DEF SectionEnters
<1>16. CASE SectionExits
  BY <1>16 DEF SectionExits
<1>17. CASE DeferredRaise
  BY <1>17 DEF DeferredRaise, Claimed, Consumed, Interrupt
<1>18. CASE AttemptChecks
  BY <1>18 DEF AttemptChecks
<1>19. CASE LlmEnters
  BY <1>19 DEF LlmEnters
<1>20. CASE LlmExits
  BY <1>20 DEF LlmExits
<1>21. CASE PoolOpens
  BY <1>21 DEF PoolOpens
<1>22. CASE PoolCloses
  BY <1>22 DEF PoolCloses
<1>23. CASE StepReturns
  BY <1>23 DEF StepReturns
<1>24. CASE StepCut
  BY <1>24 DEF StepCut
<1>25. CASE WatcherToldToStop
  BY <1>25 DEF WatcherToldToStop
<1>26. CASE WatcherJoined
  BY <1>26 DEF WatcherJoined
<1>27. CASE StepDecides
  BY <1>27 DEF StepDecides
<1>28. CASE RequestTaken
  BY <1>28 DEF RequestTaken, Dropped, NoRequest
<1>29. CASE FlagLowered
  BY <1>29 DEF FlagLowered
<1>30. CASE DialogOpens
  BY <1>30 DEF DialogOpens
<1>31. CASE DialogEnds
  BY <1>31 DEF DialogEnds
<1> QED
  BY <1>1, <1>2, <1>3, <1>4, <1>5, <1>6, <1>7, <1>8, <1>9, <1>10, <1>11,
     <1>12, <1>13, <1>14, <1>15, <1>16, <1>17, <1>18, <1>19, <1>20, <1>21,
     <1>22, <1>23, <1>24, <1>25, <1>26, <1>27, <1>28, <1>29, <1>30, <1>31 DEF Next, Outside,
     Handler, Watcher, Bound, Free

\* The flag and the claims of a request.
LEMMA NextRequestInv == StopInv /\ Next => RequestInv'
<1> SUFFICES ASSUME StopInv, Next PROVE RequestInv'
  OBVIOUS
<1>1. ASSUME Outside
      PROVE  UNCHANGED <<signal, raises, carried, pc>>
  BY <1>1 DEF Outside, CtrlC, Interject, main, ghosts
<1>2. ASSUME NEW k \in 1 .. MaxSteps,
             \/ WatcherPolls(k) \/ WatcherDefers(k) \/ WatcherLooks(k)
             \/ WatcherTrips(k) \/ WatcherEnds(k)
      PROVE  UNCHANGED <<signal, raises, carried, pc>>
  BY <1>2 DEF WatcherPolls, WatcherDefers, WatcherLooks, WatcherTrips,
      WatcherEnds, main, ghosts
<1>3. ASSUME \/ SignalArrives \/ HandlerSticks \/ HandlerLooks
             \/ SectionEnters \/ WorkerCalls \/ WorkerReturns
      PROVE  UNCHANGED <<signal, raises, carried, pc>>
  BY <1>3 DEF SignalArrives, HandlerSticks, HandlerLooks, SectionEnters,
      WorkerCalls, WorkerReturns, main, ghosts
<1>4. CASE UNCHANGED <<signal, raises, carried, pc>>
  BY <1>4 DEF StopInv, RequestInv
<1> USE StopAssumption DEF StopInv, Handling, Watching, Goes, At, Returns,
    AtRest, main, outside, ghosts, TypeOK, Guarded, Stopping, PlaceInv,
    HandlerInv, RequestInv
<1>5. CASE HandlerPublishes
  BY <1>5 DEF HandlerPublishes, Request
<1>6. CASE HandlerClaims
  BY <1>6 DEF HandlerClaims, Claimed, Interrupt
<1>7. CASE HandlerConsumes
  BY <1>7, SMTT(30) DEF HandlerConsumes, Consumed, Interrupt
<1>8. ASSUME NEW k \in 1 .. MaxSteps, WatcherPublishes(k) PROVE RequestInv'
  BY <1>8 DEF WatcherPublishes, Request
<1>9. ASSUME NEW k \in 1 .. MaxSteps, WatcherClaims(k) PROVE RequestInv'
  BY <1>9 DEF WatcherClaims, HandedOff
<1>10. CASE StepBegins
  BY <1>10 DEF StepBegins, Dropped, NoRequest
<1>11. CASE StepStarts
  BY <1>11 DEF StepStarts
<1>12. CASE SectionExits
  BY <1>12 DEF SectionExits
<1>13. CASE DeferredRaise
  BY <1>13 DEF DeferredRaise, Claimed, Consumed, Interrupt
<1>14. CASE AttemptChecks
  BY <1>14 DEF AttemptChecks
<1>15. CASE LlmEnters
  BY <1>15 DEF LlmEnters
<1>16. CASE LlmExits
  BY <1>16 DEF LlmExits
<1>17. CASE PoolOpens
  BY <1>17 DEF PoolOpens
<1>18. CASE PoolCloses
  BY <1>18 DEF PoolCloses
<1>19. CASE StepReturns
  BY <1>19 DEF StepReturns
<1>20. CASE StepCut
  BY <1>20 DEF StepCut
<1>21. CASE WatcherToldToStop
  BY <1>21 DEF WatcherToldToStop
<1>22. CASE WatcherJoined
  BY <1>22 DEF WatcherJoined
<1>23. CASE StepDecides
  BY <1>23 DEF StepDecides
<1>24. CASE RequestTaken
  BY <1>24 DEF RequestTaken, Dropped, NoRequest
<1>25. CASE FlagLowered
  BY <1>25 DEF FlagLowered
<1>26. CASE DialogOpens
  BY <1>26 DEF DialogOpens
<1>27. CASE DialogEnds
  BY <1>27 DEF DialogEnds
<1> QED
  BY <1>1, <1>2, <1>3, <1>4, <1>5, <1>6, <1>7, <1>8, <1>9, <1>10, <1>11,
     <1>12, <1>13, <1>14, <1>15, <1>16, <1>17, <1>18, <1>19, <1>20, <1>21,
     <1>22, <1>23, <1>24, <1>25, <1>26, <1>27 DEF Next, Outside,
     Handler, Watcher, Bound, Free

\* Only the current step's watcher lives while every stop came to its end.
LEMMA NextWatcherInv == StopInv /\ Next => WatcherInv'
<1> SUFFICES ASSUME StopInv, Next PROVE WatcherInv'
  OBVIOUS
<1>1. ASSUME \/ SectionEnters \/ WorkerCalls \/ WorkerReturns
      PROVE  UNCHANGED <<abandoned, watchers, step, pc, tripped, handler, signal>>
  BY <1>1 DEF SectionEnters, WorkerCalls, WorkerReturns, main, ghosts
<1>2. ASSUME NEW t \in Interjections, Interject(t)
      PROVE  UNCHANGED <<abandoned, watchers, step, pc, tripped, handler, signal>>
  BY <1>2 DEF Interject, main, ghosts
<1>3. CASE UNCHANGED <<abandoned, watchers, step, pc, tripped, handler,
                    signal>>
  BY <1>3 DEF StopInv, WatcherInv
<1> USE StopAssumption DEF StopInv, Handling, Watching, Goes, At, Returns,
    AtRest, main, outside, ghosts, TypeOK, Caught, Guarded, Stopping,
    PlaceInv, HandlerInv, RequestInv, WatcherInv
<1>4. CASE CtrlC
  BY <1>4 DEF CtrlC
<1>5. CASE SignalArrives
  BY <1>5 DEF SignalArrives
<1>6. CASE HandlerPublishes
  BY <1>6 DEF HandlerPublishes, Request
<1>7. CASE HandlerSticks
  BY <1>7 DEF HandlerSticks
<1>8. CASE HandlerLooks
  BY <1>8 DEF HandlerLooks
<1>9. CASE HandlerClaims
  BY <1>9 DEF HandlerClaims, Claimed, Interrupt
<1>10. CASE HandlerConsumes
  BY <1>10 DEF HandlerConsumes, Consumed, Interrupt
<1>11. ASSUME NEW k \in 1 .. MaxSteps, WatcherPolls(k) PROVE WatcherInv'
  <2>1. WatchersTyped
    BY DEF WatchersTyped, WatcherStates
  <2>2. /\ \A j \in 1 .. MaxSteps : j # k => watchers'[j] = watchers[j]
        /\ \/ watchers'[k].at = "publish" /\ watchers'[k].texts = disk
           \/ disk = {} /\ watchers'[k].texts = watchers[k].texts
    BY ONLY <1>11, <2>1, PolledTexts
  <2>3. ~abandoned => watchers[k].texts = {} /\ k = step /\ pc \in Caught
    BY <1>11 DEF WatcherPolls
  <2> QED
    BY <1>11, <2>2, <2>3 DEF WatcherPolls
<1>12. ASSUME NEW k \in 1 .. MaxSteps, WatcherPublishes(k) PROVE WatcherInv'
  BY <1>12 DEF WatcherPublishes, Request
<1>13. ASSUME NEW k \in 1 .. MaxSteps, WatcherDefers(k) PROVE WatcherInv'
  BY <1>13 DEF WatcherDefers
<1>14. ASSUME NEW k \in 1 .. MaxSteps, WatcherLooks(k) PROVE WatcherInv'
  BY <1>14 DEF WatcherLooks
<1>15. ASSUME NEW k \in 1 .. MaxSteps, WatcherClaims(k) PROVE WatcherInv'
  <2>1. WatchersTyped /\ SignalTyped
    BY DEF WatchersTyped, WatcherStates, SignalTyped
  <2>2. /\ \A j \in 1 .. MaxSteps : j # k => watchers'[j] = watchers[j]
        /\ watchers'[k].texts = watchers[k].texts
        /\ signal'.texts = signal.texts
    BY ONLY <1>15, <2>1, ClaimedTexts
  <2>3. ~abandoned => watchers[k].texts = {} /\ k = step /\ pc \in Caught
    BY <1>15 DEF WatcherClaims
  <2> QED
    BY <1>15, <2>2, <2>3 DEF WatcherClaims
<1>16. ASSUME NEW k \in 1 .. MaxSteps, WatcherTrips(k) PROVE WatcherInv'
  BY <1>16 DEF WatcherTrips
<1>17. ASSUME NEW k \in 1 .. MaxSteps, WatcherEnds(k) PROVE WatcherInv'
  BY <1>17 DEF WatcherEnds
<1>18. CASE StepBegins
  BY <1>18 DEF StepBegins, Dropped, NoRequest
<1>19. CASE StepStarts
  BY <1>19 DEF StepStarts
<1>20. CASE SectionExits
  BY <1>20 DEF SectionExits
<1>21. CASE DeferredRaise
  BY <1>21 DEF DeferredRaise, Claimed, Consumed, Interrupt
<1>22. CASE AttemptChecks
  BY <1>22 DEF AttemptChecks
<1>23. CASE LlmEnters
  BY <1>23 DEF LlmEnters
<1>24. CASE LlmExits
  BY <1>24 DEF LlmExits
<1>25. CASE PoolOpens
  BY <1>25 DEF PoolOpens
<1>26. CASE PoolCloses
  BY <1>26 DEF PoolCloses
<1>27. CASE StepReturns
  BY <1>27 DEF StepReturns
<1>28. CASE StepCut
  BY <1>28 DEF StepCut
<1>29. CASE WatcherToldToStop
  BY <1>29 DEF WatcherToldToStop
<1>30. CASE WatcherJoined
  BY <1>30 DEF WatcherJoined
<1>31. CASE StepDecides
  BY <1>31 DEF StepDecides
<1>32. CASE RequestTaken
  BY <1>32 DEF RequestTaken, Dropped, NoRequest
<1>33. CASE FlagLowered
  BY <1>33 DEF FlagLowered
<1>34. CASE DialogOpens
  BY <1>34 DEF DialogOpens
<1>35. CASE DialogEnds
  BY <1>35 DEF DialogEnds
<1> QED
  BY <1>1, <1>2, <1>3, <1>4, <1>5, <1>6, <1>7, <1>8, <1>9, <1>10, <1>11,
     <1>12, <1>13, <1>14, <1>15, <1>16, <1>17, <1>18, <1>19, <1>20, <1>21,
     <1>22, <1>23, <1>24, <1>25, <1>26, <1>27, <1>28, <1>29, <1>30, <1>31,
     <1>32, <1>33, <1>34, <1>35 DEF Next, Outside,
     Handler, Watcher, Bound, Free

\* One interrupt per request, never a torn section or an escaped interrupt.
LEMMA NextInterrupts == StopInv /\ Next => InterruptsLandSafely'
<1> SUFFICES ASSUME StopInv, Next PROVE InterruptsLandSafely'
  OBVIOUS
<1>1. ASSUME Outside
      PROVE  UNCHANGED <<raises, astray, abandoned>>
  BY <1>1 DEF Outside, CtrlC, Interject, ghosts
<1>2. ASSUME NEW k \in 1 .. MaxSteps,
             \/ WatcherPolls(k) \/ WatcherDefers(k) \/ WatcherLooks(k)
             \/ WatcherClaims(k) \/ WatcherTrips(k) \/ WatcherEnds(k)
      PROVE  UNCHANGED <<raises, astray, abandoned>>
  BY <1>2 DEF WatcherPolls, WatcherDefers, WatcherLooks, WatcherClaims,
      WatcherTrips, WatcherEnds, ghosts
<1>3. ASSUME \/ SignalArrives \/ HandlerSticks \/ HandlerLooks \/ StepBegins
             \/ StepStarts \/ SectionEnters \/ SectionExits \/ AttemptChecks
      PROVE  UNCHANGED <<raises, astray, abandoned>>
  BY <1>3 DEF SignalArrives, HandlerSticks, HandlerLooks, StepBegins,
      StepStarts, SectionEnters, SectionExits, AttemptChecks, ghosts
<1>4. ASSUME \/ LlmEnters \/ LlmExits \/ PoolOpens \/ WorkerCalls
             \/ WorkerReturns \/ PoolCloses \/ StepReturns \/ StepCut
      PROVE  UNCHANGED <<raises, astray, abandoned>>
  BY <1>4 DEF LlmEnters, LlmExits, PoolOpens, WorkerCalls, WorkerReturns,
      PoolCloses, StepReturns, StepCut, ghosts
<1>5. ASSUME \/ WatcherToldToStop \/ StepDecides \/ RequestTaken
             \/ FlagLowered \/ DialogOpens \/ DialogEnds
      PROVE  UNCHANGED <<raises, astray, abandoned>>
  BY <1>5 DEF WatcherToldToStop, StepDecides, RequestTaken, FlagLowered,
      DialogOpens, DialogEnds, ghosts
<1>6. CASE UNCHANGED <<raises, astray, abandoned>>
  BY <1>6 DEF StopInv, InterruptsLandSafely
<1> USE StopAssumption DEF StopInv, Handling, Watching, Goes, At, Returns,
    AtRest, main, outside, ghosts, TypeOK, Caught, Guarded, Stopping,
    Sources, PlaceInv, HandlerInv, RequestInv, WatcherInv,
    InterruptsLandSafely
<1>7. CASE HandlerPublishes
  BY <1>7 DEF HandlerPublishes, Request
<1>8. CASE HandlerClaims
  BY <1>8 DEF HandlerClaims, Claimed, Interrupt
<1>9. CASE HandlerConsumes
  BY <1>9 DEF HandlerConsumes, Consumed, Interrupt
<1>10. ASSUME NEW k \in 1 .. MaxSteps, WatcherPublishes(k) PROVE InterruptsLandSafely'
  BY <1>10 DEF WatcherPublishes, Request
<1>11. CASE DeferredRaise
  BY <1>11 DEF DeferredRaise, Claimed, Consumed, Interrupt
<1>12. CASE WatcherJoined
  BY <1>12 DEF WatcherJoined
<1> QED
  BY <1>1, <1>2, <1>3, <1>4, <1>5, <1>6, <1>7, <1>8, <1>9, <1>10, <1>11,
     <1>12 DEF Next, Outside,
     Handler, Watcher, Bound, Free

\* Where a drained text goes.
LEMMA NextDrainedText == StopInv /\ Next => DrainedTextKept'
<1> SUFFICES ASSUME StopInv, Next PROVE DrainedTextKept'
  OBVIOUS
<1>1. ASSUME \/ CtrlC \/ SignalArrives \/ HandlerSticks \/ HandlerLooks
             \/ SectionEnters \/ SectionExits \/ AttemptChecks \/ LlmEnters
      PROVE  UNCHANGED <<abandoned, unsent, disk, signal, carried, answered,
                        watchers>>
  BY <1>1 DEF CtrlC, SignalArrives, HandlerSticks, HandlerLooks,
      SectionEnters, SectionExits, AttemptChecks, LlmEnters, main, outside,
      ghosts
<1>2. ASSUME \/ LlmExits \/ PoolOpens \/ WorkerCalls \/ WorkerReturns
             \/ PoolCloses \/ StepReturns \/ StepCut \/ StepDecides
      PROVE  UNCHANGED <<abandoned, unsent, disk, signal, carried, answered,
                        watchers>>
  BY <1>2 DEF LlmExits, PoolOpens, WorkerCalls, WorkerReturns, PoolCloses,
      StepReturns, StepCut, StepDecides, main, outside, ghosts
<1>3. ASSUME DialogEnds
      PROVE  UNCHANGED <<abandoned, unsent, disk, signal, carried, answered,
                        watchers>>
  BY <1>3 DEF DialogEnds, main, outside, ghosts
<1>4. CASE UNCHANGED <<abandoned, unsent, disk, signal, carried, answered,
                    watchers>>
  BY <1>4 DEF StopInv, DrainedTextKept
<1> USE StopAssumption DEF StopInv, Handling, Watching, Goes, At, Returns,
    AtRest, main, outside, ghosts, TypeOK, Guarded, Stopping, PlaceInv,
    HandlerInv, RequestInv, WatcherInv, DrainedTextKept
<1>5. ASSUME NEW t \in Interjections, Interject(t) PROVE DrainedTextKept'
  BY <1>5 DEF Interject
<1>6. CASE HandlerPublishes
  BY <1>6 DEF HandlerPublishes, Request
<1>7. CASE HandlerClaims
  BY <1>7 DEF HandlerClaims, Claimed, Interrupt
<1>8. CASE HandlerConsumes
  BY <1>8 DEF HandlerConsumes, Consumed, Interrupt
<1>9. ASSUME NEW k \in 1 .. MaxSteps, WatcherPolls(k) PROVE DrainedTextKept'
  <2>1. WatchersTyped
    BY DEF WatchersTyped, WatcherStates
  <2>2. /\ \A j \in 1 .. MaxSteps : j # k => watchers'[j] = watchers[j]
        /\ \/ watchers'[k].at = "publish" /\ watchers'[k].texts = disk
           \/ disk = {} /\ watchers'[k].texts = watchers[k].texts
    BY ONLY <1>9, <2>1, PolledTexts
  <2>3. ~abandoned => watchers[k].texts = {}
    BY <1>9 DEF WatcherPolls
  <2>4. ~abandoned => UNION {watchers'[j].texts : j \in 1 .. MaxSteps}
                        = disk \cup UNION {watchers[j].texts : j \in 1 .. MaxSteps}
    BY ONLY <2>2, <2>3, <1>9
  <2> QED
    BY <1>9, <2>4 DEF WatcherPolls
<1>10. ASSUME NEW k \in 1 .. MaxSteps, WatcherPublishes(k) PROVE DrainedTextKept'
  BY <1>10 DEF WatcherPublishes, Request
<1>11. ASSUME NEW k \in 1 .. MaxSteps, WatcherDefers(k) PROVE DrainedTextKept'
  BY <1>11 DEF WatcherDefers
<1>12. ASSUME NEW k \in 1 .. MaxSteps, WatcherLooks(k) PROVE DrainedTextKept'
  BY <1>12 DEF WatcherLooks
<1>13. ASSUME NEW k \in 1 .. MaxSteps, WatcherClaims(k) PROVE DrainedTextKept'
  <2>1. WatchersTyped /\ SignalTyped
    BY DEF WatchersTyped, WatcherStates, SignalTyped
  <2>2. /\ \A j \in 1 .. MaxSteps : j # k => watchers'[j] = watchers[j]
        /\ watchers'[k].texts = watchers[k].texts
        /\ signal'.texts = signal.texts
    BY ONLY <1>13, <2>1, ClaimedTexts
  <2>3. \A j \in 1 .. MaxSteps : watchers'[j].texts = watchers[j].texts
    BY ONLY <2>2
  <2>4. UNION {watchers'[j].texts : j \in 1 .. MaxSteps}
          = UNION {watchers[j].texts : j \in 1 .. MaxSteps}
    BY ONLY <2>3
  <2> QED
    BY <1>13, <2>2, <2>4 DEF WatcherClaims
<1>14. ASSUME NEW k \in 1 .. MaxSteps, WatcherTrips(k) PROVE DrainedTextKept'
  BY <1>14 DEF WatcherTrips
<1>15. ASSUME NEW k \in 1 .. MaxSteps, WatcherEnds(k) PROVE DrainedTextKept'
  BY <1>15 DEF WatcherEnds
<1>16. CASE StepBegins
  BY <1>16 DEF StepBegins, Dropped, NoRequest
<1>17. CASE StepStarts
  BY <1>17 DEF StepStarts
<1>18. CASE DeferredRaise
  BY <1>18 DEF DeferredRaise, Claimed, Consumed, Interrupt
<1>19. CASE WatcherToldToStop
  BY <1>19 DEF WatcherToldToStop
<1>20. CASE WatcherJoined
  BY <1>20 DEF WatcherJoined
<1>21. CASE RequestTaken
  BY <1>21 DEF RequestTaken, Dropped, NoRequest
<1>22. CASE FlagLowered
  BY <1>22 DEF FlagLowered
<1>23. CASE DialogOpens
  BY <1>23 DEF DialogOpens
<1> QED
  BY <1>1, <1>2, <1>3, <1>4, <1>5, <1>6, <1>7, <1>8, <1>9, <1>10, <1>11,
     <1>12, <1>13, <1>14, <1>15, <1>16, <1>17, <1>18, <1>19, <1>20, <1>21,
     <1>22, <1>23 DEF Next, Outside,
     Handler, Watcher, Bound, Free

------------------------------------------------------------------------------
(* The theorems. *)

\* The inductive invariant holds when the run loop starts.
LEMMA InitStopInv == Init => StopInv
<1> SUFFICES ASSUME Init PROVE StopInv
  OBVIOUS
<1> USE StopAssumption DEF Init, NoRequest, NoWatcher, AtRest
<1>1. WatchersTyped
  BY DEF WatchersTyped, WatcherStates
<1>2. SignalTyped /\ HandlerTyped /\ MainTyped /\ GhostsTyped /\ metLlm \in BOOLEAN
  <2>1. 0 \in 0 .. MaxSteps /\ 0 \in 0 .. MaxWorkers /\ 0 \in 0 .. MaxCtrlC
    BY StopAssumption
  <2>2. step = 0 /\ llm = 0 /\ ctrlcs = 0 /\ raises = 0
    OBVIOUS
  <2>3. /\ section \in BOOLEAN /\ interrupted \in BOOLEAN /\ finished \in BOOLEAN
        /\ metLlm \in BOOLEAN /\ abandoned \in BOOLEAN
    BY Zenon
  <2>4. SignalTyped /\ HandlerTyped
    BY DEF SignalTyped, HandlerTyped, Sources
  <2>5. MainTyped
    BY <2>1, <2>2, <2>3 DEF MainTyped, Places
  <2>6. GhostsTyped
    BY <2>1, <2>2, <2>3 DEF GhostsTyped
  <2> QED
    BY <2>3, <2>4, <2>5, <2>6
<1>3. TypeOK
  BY ONLY <1>1, <1>2 DEF TypeOK, SignalTyped, WatchersTyped, WatcherStates, HandlerTyped,
     MainTyped, GhostsTyped
<1>4. PlaceInv /\ HandlerInv /\ RequestInv
  BY DEF PlaceInv, HandlerInv, RequestInv
<1>5. WatcherInv
  BY DEF WatcherInv
<1>6. InterruptsLandSafely /\ DrainedTextKept
  BY DEF InterruptsLandSafely, DrainedTextKept
<1> QED
  BY ONLY <1>3, <1>4, <1>5, <1>6 DEF StopInv

\* It holds in every state a run reaches: the four threads of control,
\* interleaved wherever the code releases a lock, keep the request, its claim,
\* the handoff and the watched region together.
THEOREM StopInvariant == Spec => []StopInv
<1>1. StopInv /\ Next => StopInv'
  BY NextTypeOK, NextPlaceInv, NextHandlerInv, NextRequestInv, NextWatcherInv,
     NextInterrupts, NextDrainedText DEF StopInv
<1>2. StopInv /\ UNCHANGED vars => StopInv'
  BY DEF vars, main, outside, ghosts, StopInv, TypeOK, PlaceInv, HandlerInv, RequestInv,
     WatcherInv, InterruptsLandSafely, DrainedTextKept
<1> QED
  BY <1>1, <1>2, InitStopInv, PTL DEF Spec

\* Every variable keeps its type.
THEOREM TypeCorrect == Spec => []TypeOK
<1>1. StopInv => TypeOK
  BY DEF StopInv
<1> QED
  BY <1>1, StopInvariant, PTL

\* For any number of steps, messages and Ctrl-C: one request interrupts the
\* main thread at most once, no interrupt tears a section or a supervised LLM
\* call, and a watcher's interrupt leaves the watched region only after some
\* watcher.stop() was given up.
THEOREM InterruptsSafe == Spec => []InterruptsLandSafely
<1>1. StopInv => InterruptsLandSafely
  BY DEF StopInv
<1> QED
  BY <1>1, StopInvariant, PTL

\* No drained message is lost before a dialog opens with it, but after a
\* watcher.stop() that was given up.
THEOREM TextKept == Spec => []DrainedTextKept
<1>1. StopInv => DrainedTextKept
  BY DEF StopInv
<1> QED
  BY <1>1, StopInvariant, PTL

==============================================================================
