----------------------------- MODULE StopSignal -----------------------------
(***************************************************************************)
(* The cooperative stop signal of `luo run` (stop_signal.py), its SIGINT    *)
(* handler and the step the run loop executes under an interjection         *)
(* watcher (commands/run.py).                                               *)
(*                                                                          *)
(* Three threads of control share one StopSignal.  The MAIN thread runs     *)
(* steps: Python work, LLM calls, sections that must not be torn apart and  *)
(* pools of workers with LLM calls of their own.  One WATCHER thread per    *)
(* step polls the disk for interjections, publishes them and escalates by   *)
(* tripping SIGINT.  The HANDLER runs on the main thread between any two of *)
(* its steps, once SIGINT has been tripped by an operator or a watcher.     *)
(* Each of them is cut where the code releases the signal's lock.           *)
(***************************************************************************)
EXTENDS Naturals, FiniteSets

CONSTANTS
    Interjections,   \* the messages users send from the web
    MaxSteps,        \* steps the run loop executes
    MaxCtrlC,        \* times the operator presses Ctrl-C
    MaxWorkers       \* LLM calls the workers of a DAG step have in flight

ASSUME StopAssumption ==
    /\ MaxSteps \in Nat \ {0}
    /\ MaxCtrlC \in Nat
    /\ MaxWorkers \in Nat \ {0}

VARIABLES
    signal,        \* the StopSignal: its request, flag, claim and handoff
    llm,           \* _llm_calls: LLM calls in flight, in any thread
    section,       \* _uninterruptible > 0: inside a section (they never nest)
    pc,            \* where the main thread is
    step,          \* number of steps begun
    interrupted,   \* the watched step saw a KeyboardInterrupt
    finished,      \* run_step returned with its result
    carried,       \* texts take() returned and the dialog has not opened with
    watchers,      \* the InterjectionWatcher of each step
    tripped,       \* who tripped the SIGINT that waits for the main thread
    handler,       \* the SIGINT handler: where it is, and for whom it runs
    disk,          \* interjection call files nobody has drained
    unsent,        \* interjections still to be sent
    answered,      \* texts a dialog opened with
    ctrlcs,        \* Ctrl-C pressed so far
    raises,        \* KeyboardInterrupts the claims of this request produced
    metLlm,        \* the current request has met an LLM call in flight
    abandoned,     \* some watcher.stop() ended before its thread did
    astray         \* what an interrupt did that it should not have done

main     == <<pc, step, interrupted, finished, carried>>
outside  == <<disk, unsent, answered, ctrlcs>>
ghosts   == <<raises, abandoned, astray>>
vars     == <<signal, llm, section, main, watchers, tripped, handler, outside,
              ghosts, metLlm>>

Sources  == {"operator", "watcher"}
Guarded  == {"work", "spawning", "llm", "leaving", "pool", "unwinding"}
Stopping == {"stopping", "joining"}
Places   == Guarded \cup Stopping
            \cup {"loop", "clearing", "decide", "taking", "taken", "opening", "dialog",
                  "exited"}

NoRequest == [pending |-> FALSE, texts |-> {}, event |-> FALSE,
              delivered |-> FALSE, handoff |-> FALSE]

NoWatcher == [at |-> "off", texts |-> {}, due |-> FALSE, escalated |-> FALSE,
              stop |-> FALSE]

AtRest    == [at |-> "idle", from |-> {}]

TypeOK ==
    /\ signal \in [pending : BOOLEAN, texts : SUBSET Interjections, event : BOOLEAN,
                   delivered : BOOLEAN, handoff : BOOLEAN]
    /\ llm \in 0 .. MaxWorkers
    /\ section \in BOOLEAN
    /\ pc \in Places
    /\ step \in 0 .. MaxSteps
    /\ interrupted \in BOOLEAN /\ finished \in BOOLEAN
    /\ carried \subseteq Interjections
    /\ watchers \in [1 .. MaxSteps ->
           [at : {"off", "idle", "publish", "escalate", "look", "claim", "trip"},
            texts : SUBSET Interjections, due : BOOLEAN, escalated : BOOLEAN,
            stop : BOOLEAN]]
    /\ tripped \subseteq Sources
    /\ handler \in [at : {"idle", "publish", "look", "claim", "consume", "stuck"},
                    from : SUBSET Sources]
    /\ disk \subseteq Interjections /\ unsent \subseteq Interjections
    /\ answered \subseteq Interjections
    /\ ctrlcs \in 0 .. MaxCtrlC
    /\ raises \in Nat
    /\ metLlm \in BOOLEAN /\ abandoned \in BOOLEAN
    /\ astray \subseteq {"torn", "escaped"}

Init ==
    /\ signal = NoRequest /\ llm = 0 /\ section = FALSE
    /\ pc = "loop" /\ step = 0 /\ interrupted = FALSE /\ finished = FALSE
    /\ carried = {}
    /\ watchers = [k \in 1 .. MaxSteps |-> NoWatcher]
    /\ tripped = {} /\ handler = AtRest
    /\ disk = {} /\ unsent = Interjections /\ answered = {} /\ ctrlcs = 0
    /\ raises = 0 /\ metLlm = FALSE /\ abandoned = FALSE /\ astray = {}

-----------------------------------------------------------------------------
(* The signal itself                                                        *)

\* request(): a fresh request starts undelivered; an outstanding one is
\* extended.  The flag is set either way.
Request(texts) ==
    /\ signal' = [pending   |-> TRUE,
                  texts     |-> signal.texts \cup texts,
                  event     |-> TRUE,
                  delivered |-> signal.pending /\ signal.delivered,
                  handoff   |-> signal.pending /\ signal.handoff]
    /\ raises' = IF signal.pending THEN raises ELSE 0

\* clear() and take() drop the request first and lower the flag last, inside
\* Event.clear(), which holds the event's own lock: two steps of the caller.
Dropped == [NoRequest EXCEPT !.event = signal.event]

\* Claims are one acquisition of the lock each: they check and set.
Claimed   == [signal EXCEPT !.delivered = TRUE]
HandedOff == [signal EXCEPT !.delivered = TRUE, !.handoff = TRUE]
Consumed  == [signal EXCEPT !.handoff = FALSE]

\* A KeyboardInterrupt is raised where the main thread is: the step's try
\* turns it into "interrupted" once it has unwound, the try around
\* watcher.stop() does so at once and leaves the stop undone, and anywhere
\* else it ends the run.
Interrupt(from) ==
    /\ raises' = raises + 1
    /\ section' = FALSE
    /\ llm' = IF pc = "llm" THEN llm - 1 ELSE llm
    /\ pc' = CASE pc \in Guarded  -> "unwinding"
               [] pc \in Stopping -> "decide"
               [] OTHER           -> "exited"
    /\ interrupted' = (interrupted \/ pc \in Stopping)
    /\ abandoned' = (abandoned \/ pc \in Stopping)
    /\ astray' = astray
           \cup (IF section \/ pc = "llm" THEN {"torn"} ELSE {})
           \cup (IF pc \notin Guarded \cup Stopping /\ "operator" \notin from
                 THEN {"escaped"} ELSE {})
    /\ UNCHANGED <<step, finished, carried>>

-----------------------------------------------------------------------------
(* Users and the operator                                                   *)

Interject(t) ==
    /\ t \in unsent
    /\ unsent' = unsent \ {t} /\ disk' = disk \cup {t}
    /\ UNCHANGED <<signal, llm, section, main, watchers, tripped, handler,
                   answered, ctrlcs, ghosts>>

CtrlC ==
    /\ ctrlcs < MaxCtrlC /\ pc # "exited"
    /\ ctrlcs' = ctrlcs + 1
    /\ tripped' = tripped \cup {"operator"}
    /\ UNCHANGED <<signal, llm, section, main, watchers, handler, disk, unsent,
                   answered, ghosts>>

-----------------------------------------------------------------------------
(* _sigint_handler, on the main thread: while it runs nothing else does     *)

Handling(at) == handler.at = at /\ pc # "exited"
Returns      == handler' = AtRest

SignalArrives ==
    /\ Handling("idle") /\ tripped # {}
    /\ handler' = [at |-> "publish", from |-> tripped]
    /\ tripped' = {}
    /\ UNCHANGED <<signal, llm, section, main, watchers, outside, ghosts>>

HandlerPublishes ==
    /\ Handling("publish")
    /\ Request({})
    /\ handler' = [handler EXCEPT !.at = "look"]
    /\ UNCHANGED <<llm, section, main, watchers, tripped, outside, abandoned, astray>>

\* The thread the handler interrupted is inside Event.clear() and holds the
\* lock that request()'s Event.set() needs: it waits for itself.
HandlerSticks ==
    /\ Handling("publish") /\ pc \in {"clearing", "taken"}
    /\ handler' = [handler EXCEPT !.at = "stuck"]
    /\ UNCHANGED <<signal, llm, section, main, watchers, tripped, outside, ghosts>>

HandlerLooks ==
    /\ Handling("look")
    /\ IF llm > 0 \/ section THEN Returns
                             ELSE handler' = [handler EXCEPT !.at = "claim"]
    /\ UNCHANGED <<signal, llm, section, main, watchers, tripped, outside, ghosts>>

HandlerClaims ==
    /\ Handling("claim")
    /\ \/ /\ ~signal.delivered
          /\ signal' = Claimed /\ Returns
          /\ Interrupt(handler.from)
       \/ /\ signal.delivered
          /\ handler' = [handler EXCEPT !.at = "consume"]
          /\ UNCHANGED <<signal, llm, section, main, ghosts>>
    /\ UNCHANGED <<watchers, tripped, outside>>

\* Mutant: a claim on file is always taken for the handler's own.
HandlerConsumesAnything ==
    /\ Handling("consume") /\ Returns
    /\ signal' = Consumed /\ Interrupt(handler.from)
    /\ UNCHANGED <<watchers, tripped, outside>>

\* Mutant: a claim on file always stands the handler down.
HandlerStandsDown ==
    /\ Handling("consume") /\ Returns
    /\ UNCHANGED <<signal, llm, section, main, watchers, tripped, outside, ghosts>>

HandlerConsumes ==
    /\ Handling("consume") /\ Returns
    /\ \/ signal.handoff /\ signal' = Consumed /\ Interrupt(handler.from)
       \/ ~signal.handoff /\ UNCHANGED <<signal, llm, section, main, ghosts>>
    /\ UNCHANGED <<watchers, tripped, outside>>

-----------------------------------------------------------------------------
(* InterjectionWatcher, one per step                                        *)

\* A clear() or take() of the main thread holds the signal's lock throughout.
Watching(k, at) ==
    watchers[k].at = at /\ pc \notin {"exited", "clearing", "taken"}

Goes(k, w) == watchers' = [watchers EXCEPT ![k] = w]

\* One turn of _loop(): poll_once() drains the disk, and an escalation that
\* is still due is tried again.
WatcherPolls(k) ==
    LET w == watchers[k] IN
    /\ Watching(k, "idle") /\ ~w.stop
    /\ \/ disk # {} /\ Goes(k, [w EXCEPT !.at = "publish", !.texts = disk])
       \/ disk = {} /\ w.due /\ Goes(k, [w EXCEPT !.at = "escalate"])
    /\ disk' = {}
    /\ UNCHANGED <<signal, llm, section, main, tripped, handler, unsent, answered,
                   ctrlcs, ghosts>>

\* poll_once() publishes what it drained, one message at a time.
WatcherPublishes(k) ==
    LET w == watchers[k] IN
    /\ Watching(k, "publish")
    /\ \E t \in w.texts :
          /\ Request({t})
          /\ Goes(k, IF w.texts = {t}
                     THEN [w EXCEPT !.at = "escalate", !.texts = {}, !.due = TRUE]
                     ELSE [w EXCEPT !.texts = @ \ {t}])
    /\ UNCHANGED <<llm, section, main, tripped, handler, outside, abandoned, astray>>

\* A section postpones the escalation; a later turn tries again.
WatcherDefers(k) ==
    LET w == watchers[k] IN
    /\ Watching(k, "escalate")
    /\ Goes(k, [w EXCEPT !.at = IF section THEN "idle" ELSE "look"])
    /\ UNCHANGED <<signal, llm, section, main, tripped, handler, outside, ghosts>>

\* From here on the watcher holds _escalate_lock, until it gives up or claims.
WatcherLooks(k) ==
    LET w == watchers[k] IN
    /\ Watching(k, "look")
    /\ Goes(k, IF w.escalated \/ w.stop \/ llm > 0
               THEN [w EXCEPT !.at = "idle", !.due = FALSE]
               ELSE [w EXCEPT !.at = "claim"])
    /\ UNCHANGED <<signal, llm, section, main, tripped, handler, outside, ghosts>>

WatcherClaims(k) ==
    LET w == watchers[k] IN
    /\ Watching(k, "claim")
    /\ \/ /\ ~signal.delivered /\ signal' = HandedOff
          /\ Goes(k, [w EXCEPT !.at = "trip", !.escalated = TRUE, !.due = FALSE])
       \/ /\ signal.delivered /\ UNCHANGED signal
          /\ Goes(k, [w EXCEPT !.at = "idle", !.due = FALSE])
    /\ UNCHANGED <<llm, section, main, tripped, handler, outside, ghosts>>

\* _thread.interrupt_main(): trips SIGINT and raises nothing.
WatcherTrips(k) ==
    /\ watchers[k].at = "trip" /\ pc # "exited"
    /\ tripped' = tripped \cup {"watcher"}
    /\ Goes(k, [watchers[k] EXCEPT !.at = "idle"])
    /\ UNCHANGED <<signal, llm, section, main, handler, outside, ghosts>>

WatcherEnds(k) ==
    /\ watchers[k].at = "idle" /\ watchers[k].stop /\ pc # "exited"
    /\ Goes(k, [watchers[k] EXCEPT !.at = "off"])
    /\ UNCHANGED <<signal, llm, section, main, tripped, handler, outside, ghosts>>

-----------------------------------------------------------------------------
(* _execute_step_with_interjections, on the main thread                     *)

\* CPython runs a tripped handler at the next call the main thread makes or
\* returns from, and each step below is at least one call.
At(place) == pc = place /\ handler.at = "idle" /\ tripped = {}

\* signal_obj.clear() ...
StepBegins ==
    /\ At("loop") /\ step < MaxSteps
    /\ step' = step + 1 /\ interrupted' = FALSE /\ finished' = FALSE
    /\ signal' = Dropped /\ pc' = "clearing"
    /\ UNCHANGED <<llm, section, carried, watchers, tripped, handler, outside, ghosts>>

\* ... then the watcher, then run_step.
StepStarts ==
    /\ At("clearing")
    /\ signal' = [signal EXCEPT !.event = FALSE]
    /\ watchers' = [watchers EXCEPT ![step].at = "idle"]
    /\ pc' = "work"
    /\ UNCHANGED <<llm, section, step, interrupted, finished, carried, tripped, handler,
                   outside, ghosts>>

SectionEnters ==
    /\ At("work") /\ ~section
    /\ section' = TRUE
    /\ UNCHANGED <<signal, llm, main, watchers, tripped, handler, outside, ghosts>>

SectionExits ==
    /\ At("work") /\ section
    /\ section' = FALSE /\ pc' = "leaving"
    /\ UNCHANGED <<signal, llm, step, interrupted, finished, carried, watchers, tripped,
                   handler, outside, ghosts>>

\* maybe_raise_deferred_interrupt(): the checks and the claim are one
\* acquisition of the lock.
DeferredRaise ==
    /\ At("leaving")
    /\ \/ /\ signal.event /\ llm = 0
          /\ \/ ~signal.delivered /\ signal' = Claimed
             \/ signal.delivered /\ signal.handoff /\ signal' = Consumed
          /\ Interrupt({})
       \/ /\ ~signal.event \/ llm > 0 \/ (signal.delivered /\ ~signal.handoff)
          /\ pc' = "work"
          /\ UNCHANGED <<signal, llm, section, step, interrupted, finished, carried, ghosts>>
    /\ UNCHANGED <<watchers, tripped, handler, outside>>

\* Every attempt of LLMCaller checks the flag first, and raises by itself.
AttemptChecks ==
    /\ At("work")
    /\ \/ signal.event /\ pc' = "unwinding" /\ section' = FALSE
       \/ ~signal.event /\ pc' = "spawning" /\ UNCHANGED section
    /\ UNCHANGED <<signal, llm, step, interrupted, finished, carried, watchers, tripped,
                   handler, outside, ghosts>>

LlmEnters ==
    /\ At("spawning")
    /\ llm' = llm + 1 /\ pc' = "llm"
    /\ UNCHANGED <<signal, section, step, interrupted, finished, carried, watchers,
                   tripped, handler, outside, ghosts>>

\* The child ended by itself before its runner looked at the flag, or the
\* runner saw the flag and wound it down: the caller then raises.
LlmExits ==
    /\ At("llm")
    /\ llm' = llm - 1
    /\ \/ pc' = "work" /\ UNCHANGED section
       \/ signal.event /\ pc' = "unwinding" /\ section' = FALSE
    /\ UNCHANGED <<signal, step, interrupted, finished, carried, watchers, tripped,
                   handler, outside, ghosts>>

\* A DAG step waits on the main thread while workers make the calls.  No
\* group starts and no attempt is made under a raised flag, and the scheduler
\* turns the flag into an interruption once the pool is empty.
PoolOpens ==
    /\ At("work") /\ ~section
    /\ pc' = "pool"
    /\ UNCHANGED <<signal, llm, section, step, interrupted, finished, carried, watchers,
                   tripped, handler, outside, ghosts>>

WorkerCalls ==
    /\ pc = "pool" /\ ~signal.event /\ llm < MaxWorkers
    /\ llm' = llm + 1
    /\ UNCHANGED <<signal, section, main, watchers, tripped, handler, outside, ghosts>>

\* Mutant: a call is counted out without having been counted in.
WorkerReturnsTwice ==
    /\ pc \in {"pool", "unwinding"}
    /\ llm' = llm - 1
    /\ UNCHANGED <<signal, section, main, watchers, tripped, handler, outside, ghosts>>

WorkerReturns ==
    /\ pc # "llm" /\ llm > 0
    /\ llm' = llm - 1
    /\ UNCHANGED <<signal, section, main, watchers, tripped, handler, outside, ghosts>>

PoolCloses ==
    /\ At("pool") /\ llm = 0
    /\ pc' = IF signal.event THEN "unwinding" ELSE "work"
    /\ UNCHANGED <<signal, llm, section, step, interrupted, finished, carried, watchers,
                   tripped, handler, outside, ghosts>>

StepReturns ==
    /\ At("work") /\ ~section
    /\ finished' = TRUE /\ pc' = "stopping"
    /\ UNCHANGED <<signal, llm, section, step, interrupted, carried, watchers, tripped,
                   handler, outside, ghosts>>

\* except KeyboardInterrupt: interrupted = True
StepCut ==
    /\ At("unwinding") /\ llm = 0
    /\ interrupted' = TRUE /\ pc' = "stopping"
    /\ UNCHANGED <<signal, llm, section, step, finished, carried, watchers, tripped,
                   handler, outside, ghosts>>

\* watcher.stop() sets its flag under _escalate_lock and joins the thread.
WatcherToldToStop ==
    /\ At("stopping") /\ watchers[step].at # "claim"
    /\ watchers' = [watchers EXCEPT ![step].stop = TRUE]
    /\ pc' = "joining"
    /\ UNCHANGED <<signal, llm, section, step, interrupted, finished, carried, tripped,
                   handler, outside, ghosts>>

\* join(timeout=2.0) gives up on a thread whose drain takes longer.
WatcherJoined ==
    /\ At("joining") /\ watchers[step].at \in {"off", "publish"}
    /\ pc' = "decide"
    /\ abandoned' = (abandoned \/ watchers[step].at # "off")
    /\ UNCHANGED <<signal, llm, section, step, interrupted, finished, carried, watchers,
                   tripped, handler, outside, raises, astray>>

\* Mutant: only an interrupted step opens the dialog.
StepDecidesByException ==
    /\ At("decide")
    /\ pc' = IF interrupted THEN "taking" ELSE "loop"
    /\ UNCHANGED <<signal, llm, section, step, interrupted, finished, carried, watchers,
                   tripped, handler, outside, ghosts>>

\* stopped = interrupted or is_set(): the dialog opens, or the loop goes on.
StepDecides ==
    /\ At("decide")
    /\ pc' = IF interrupted \/ signal.event THEN "taking" ELSE "loop"
    /\ UNCHANGED <<signal, llm, section, step, interrupted, finished, carried, watchers,
                   tripped, handler, outside, ghosts>>

\* _open_dialog_after_stop: take() ...
RequestTaken ==
    /\ At("taking")
    /\ carried' = signal.texts
    /\ signal' = Dropped /\ pc' = "taken"
    /\ UNCHANGED <<llm, section, step, interrupted, finished, watchers, tripped, handler,
                   outside, ghosts>>

FlagLowered ==
    /\ At("taken")
    /\ signal' = [signal EXCEPT !.event = FALSE]
    /\ pc' = "opening"
    /\ UNCHANGED <<llm, section, step, interrupted, finished, carried, watchers, tripped,
                   handler, outside, ghosts>>

\* ... the flow is saved, and the dialog opens with the texts.
DialogOpens ==
    /\ At("opening")
    /\ answered' = answered \cup carried /\ carried' = {}
    /\ pc' = "dialog"
    /\ UNCHANGED <<signal, llm, section, step, interrupted, finished, watchers, tripped,
                   handler, disk, unsent, ctrlcs, ghosts>>

DialogEnds ==
    /\ At("dialog")
    /\ pc' = "loop"
    /\ UNCHANGED <<signal, llm, section, step, interrupted, finished, carried, watchers,
                   tripped, handler, outside, ghosts>>

-----------------------------------------------------------------------------
Outside   == CtrlC \/ \E t \in Interjections : Interject(t)

Handler   == \/ SignalArrives \/ HandlerPublishes \/ HandlerSticks \/ HandlerLooks
             \/ HandlerClaims \/ HandlerConsumes

Watcher(k) == \/ WatcherPolls(k) \/ WatcherPublishes(k) \/ WatcherDefers(k)
              \/ WatcherLooks(k) \/ WatcherClaims(k) \/ WatcherTrips(k) \/ WatcherEnds(k)

\* What the main thread and the workers are bound to do ...
Bound     == \/ StepStarts \/ SectionExits \/ DeferredRaise \/ LlmEnters \/ LlmExits
             \/ WorkerReturns \/ PoolCloses \/ StepCut \/ WatcherToldToStop
             \/ WatcherJoined \/ StepDecides \/ RequestTaken \/ FlagLowered \/ DialogOpens

\* ... and what they may do: Python work need not end, nor need a dialog.
Free      == \/ StepBegins \/ SectionEnters \/ AttemptChecks \/ PoolOpens \/ WorkerCalls
             \/ StepReturns \/ DialogEnds

\* Kept beside every step.
Meets == metLlm' = (signal'.event /\ (metLlm \/ llm' > 0))

Next ==
    /\ \/ Outside \/ Handler \/ Bound \/ Free
       \/ \E k \in 1 .. MaxSteps : Watcher(k)
    /\ Meets

Spec == Init /\ [][Next]_vars

\* A tripped signal is handled, watchers run, calls end, sections and pools
\* end, and the run loop's own code goes on.
FairSpec ==
    /\ Spec
    /\ WF_vars(Handler /\ Meets)
    /\ WF_vars(Bound /\ Meets)
    /\ \A k \in 1 .. MaxSteps : WF_vars(Watcher(k) /\ Meets)

-----------------------------------------------------------------------------
(* Properties                                                               *)

(* One published request interrupts the main thread at most once, whichever *)
(* of the handler, the watcher and the exit of a section come to deliver it  *)
(* (stop_signal.py:217).  No interrupt is delivered inside a section that    *)
(* must not be torn or into a runner that supervises a child, and one a      *)
(* watcher asked for does not land outside the region that catches it while  *)
(* every watcher.stop() came to its end (run.py:102, stop_signal.py:413).    *)
InterruptsLandSafely ==
    /\ raises <= 1
    /\ "torn" \notin astray
    /\ "escaped" \in astray => abandoned

(* An interjection taken off the disk is on its way to a dialog for as long *)
(* as every watcher.stop() came to its end: no clear() drops it.             *)
DrainedTextKept ==
    abandoned \/ Interjections =
        unsent \cup disk \cup signal.texts \cup carried \cup answered
        \cup UNION {watchers[k].texts : k \in 1 .. MaxSteps}

(* A stop published while the step does Python work cuts that work off,     *)
(* though it may never end by itself, unless the request met an LLM call in  *)
(* flight or came from a watcher that outlived its step.                     *)
StopCutsWork == []<>~(pc = "work" /\ signal.pending /\ ~metLlm /\ ~abandoned)

(* The same without the exception: "a deferral must postpone the interrupt, *)
(* never cancel it" (stop_signal.py:408).                                    *)
DeferralPostpones == []<>~(pc = "work" /\ signal.pending)

(* A step that reached its result is not reported as cut short (run.py:4329).*)
InterruptedWasCutShort == pc = "taking" => ~(interrupted /\ finished)

=============================================================================
