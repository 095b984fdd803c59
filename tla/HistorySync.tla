----------------------------- MODULE HistorySync -----------------------------
(***************************************************************************)
(* One flow's conversation travels from the step file the engine appends   *)
(* to (daemon/history.py reads it), through the daemon's push loop and its *)
(* replies to pulls (daemon/client.py), over a socket that may die, into   *)
(* the server's cache (server/state.py, ws.py) which the console polls     *)
(* (app.py).  The two daemon tasks interleave at every await.              *)
(*                                                                         *)
(* A line is the version of its content: a fresh line has version 1 and an *)
(* in-place rewrite of that line increments it.  Every line yields one     *)
(* record.  One machine and one step file; a cursor is None (the code's    *)
(* empty cursor) or the number of lines consumed.                          *)
(***************************************************************************)
EXTENDS Integers, Sequences, FiniteSets

CONSTANTS
  Chunk,        \* MAX_RECORDS_PER_REPORT: records a frame carries at most
  MaxLines,     \* bound: lines the step file grows to
  Troubles,     \* which troubles happen: "rewrites" of a line in place, "faults"
                \* (a lost socket, a restart of either end, an eviction)
  MaxTroubles,  \* bound: how many of them
  MaxWire       \* bound: messages the socket holds in each direction

ASSUME BoundsAssumption ==
  /\ Chunk \in Nat \ {0}
  /\ {MaxLines, MaxTroubles, MaxWire} \subseteq Nat
  /\ Troubles \subseteq {"rewrites", "faults"}

VARIABLES
  file,    \* versions of the physical lines of the step file
  flow,    \* [status, worktree]: the flow as engine.json and the index show it
  seen,    \* _read_offsets and the prefix hash: the lines the last read consumed
  cur,     \* _history_cursors: the push loop's water mark for the flow
  open,    \* _history_push_open: the last pushed frame said more is coming
  push,    \* the push tick: pc, the read it carries, the cursor map it replaces
  drain,   \* the reply to a pull: pc, the cursor it reads from, its read
  conn,    \* the socket is up
  up,      \* frames in flight towards the server
  down,    \* requests in flight towards the daemon: the cursor each carries
  srv,     \* the server's state for the flow
  heard,   \* history: the highest line any processed frame reached
  raced,   \* history: [refused, stale, shrunk]: the cache refused a closing
           \* frame while a reply was due; it took a full frame that ends before
           \* what the server had been told of; a frame took records from it
  news,    \* history: the flow wrote a line since the daemon last lost one
  spent    \* history: how much of each bound is used up

daemonVars == <<seen, cur, open, push, drain>>
vars == <<file, flow, daemonVars, conn, up, down, srv, heard, raced, news, spent>>

-----------------------------------------------------------------------------
None == -1     \* the empty cursor
Absent == -2   \* no entry in the cursor map
Cursors == {None} \cup 0..MaxLines
Water(c) == IF c < 0 THEN 0 ELSE c

Versions == 1..(MaxTroubles + 1)
LineSeqs == UNION {[1..n -> Versions] : n \in 0..MaxLines}

\* A frame of HISTORY_DATA: full or append, the window base..upto it covers.
Frames == [full : BOOLEAN, base : 0..MaxLines, lines : LineSeqs,
           upto : Cursors, final : BOOLEAN]

Live == flow.status = "active"
WorktreeActive == flow.worktree /\ Live

\* read_flow from cursor c: a full snapshot when c is empty; from line 0 again
\* when the consumed prefix no longer matches or c is past the end of the file;
\* cut at the chunk bound, where the frame says that more is coming.
Prefix(s, t) == Len(s) <= Len(t) /\ SubSeq(t, 1, Len(s)) = s

ReadFlow(c) ==
  LET start == IF ~Prefix(seen, file) \/ Water(c) > Len(file) THEN 0 ELSE Water(c)
      upto  == IF start + Chunk < Len(file) THEN start + Chunk ELSE Len(file)
  IN [full  |-> c < 0,
      base  |-> start,
      lines |-> SubSeq(file, start + 1, upto),
      upto  |-> IF file = <<>> THEN None ELSE upto,
      final |-> upto - start < Chunk]

Consumed(read) == IF file = <<>> THEN seen ELSE SubSeq(file, 1, read.upto)

\* The empty frame that closes a delivery whose flow left the read set.
Terminator(c) == [full |-> FALSE, base |-> c, lines |-> <<>>, upto |-> c,
                  final |-> TRUE]

Idle == [pc |-> "idle"]

-----------------------------------------------------------------------------
(* The server's cache: apply_history_frame *)

NoBundle == [recs |-> <<>>, cur |-> None, held |-> FALSE]

\* _reconcile_append_into: by line number, new lines added, changed ones replaced.
Fold(recs, f) ==
  LET window == (f.base + 1)..(f.base + Len(f.lines))
  IN [i \in DOMAIN recs \cup window |->
        IF i \in window THEN f.lines[i - f.base] ELSE recs[i]]

\* Mutant of Gap: an append that starts past the water mark is folded in.
GapIgnored(b, f) == FALSE

\* _detect_cursor_gap: the frame starts past the cached water mark.
Gap(b, f) ==
  /\ b.cur # None \/ DOMAIN b.recs = {}
  /\ f.upto > Water(b.cur)
  /\ f.base > Water(b.cur)

\* An outcome: the state after, resolves_pull and rejected_full.
Outcome(s, ok, rejected) == [s |-> s, ok |-> ok, rejected |-> rejected]

ApplyAppend(s, f) ==
  LET atMark == f.base = Water(s.bundle.cur)
  IN IF ~s.bundle.held \/ (~s.reqFull /\ Gap(s.bundle, f))
       THEN Outcome([s EXCEPT !.reqFull = TRUE], FALSE, FALSE)
     ELSE IF s.reqFull /\ ~atMark
       THEN Outcome(s, FALSE, FALSE)
     ELSE Outcome([s EXCEPT !.reqFull = FALSE,
                            !.bundle.recs = Fold(@, f),
                            !.bundle.cur = f.upto], TRUE, FALSE)
\* A full frame may never take records away: an empty one never, a shorter one
\* not from an active worktree flow.
Shrinks(s, f) ==
  /\ Len(f.lines) < Cardinality(DOMAIN s.bundle.recs)
  /\ f.lines = <<>> \/ WorktreeActive

ApplyFull(s, f) ==
  LET mark == IF f.upto = None THEN s.bundle.cur ELSE f.upto
  IN IF f.lines = <<>> /\ DOMAIN s.bundle.recs = {} /\ WorktreeActive
       THEN Outcome([s EXCEPT !.bundle = NoBundle, !.reqFull = TRUE], FALSE, TRUE)
     ELSE IF Shrinks(s, f)
       THEN Outcome([s EXCEPT !.bundle.cur = mark, !.reqFull = FALSE], TRUE, TRUE)
     ELSE Outcome([s EXCEPT !.reqFull = FALSE, !.cold = FALSE,
                            !.bundle = [recs |-> f.lines, cur |-> mark,
                                        held |-> TRUE]], TRUE, FALSE)

Apply(s, f) ==
  IF ~s.bundle.held /\ s.cold THEN Outcome(s, FALSE, FALSE)
  ELSE IF f.full THEN ApplyFull(s, f) ELSE ApplyAppend(s, f)

-----------------------------------------------------------------------------
(* The server's accounting of replies and deliveries *)
\* Mutant of Note: a refused frame settles the delivery it closes.
NoteTrusting(delivery, said, fromPull, taken) ==
  CASE said = "more" -> "open"
    [] said = "done" ->
         IF delivery = "stalled" /\ ~fromPull THEN "stalled" ELSE "none"
    [] OTHER -> delivery

\* _note_delivery_locked: only a frame the cache took may settle a delivery.
Note(delivery, said, fromPull, taken) ==
  CASE said = "more" ->
         IF delivery = "none" \/ taken THEN "open" ELSE delivery
    [] said = "done" /\ ~taken ->
         IF delivery = "none" THEN "open" ELSE delivery
    [] said = "done" /\ taken ->
         IF delivery = "stalled" /\ ~fromPull THEN "stalled" ELSE "none"
    [] OTHER -> delivery

\* _frame_opens_reply: the frame can be the head of the reply to the pull
\* that carried cursor p.
OpensReply(p, f) == IF p = None THEN f.full ELSE ~f.full /\ f.base <= p

\* take_history_replay_verdict, the replies queued in dispatch order.
Promote(pulls, i) ==
  <<pulls[i]>> \o SubSeq(pulls, 1, i - 1) \o SubSeq(pulls, i + 1, Len(pulls))

Heads(s, f) == {i \in 1..Len(s.pulls) : OpensReply(s.pulls[i], f)}

\* Live traffic that raced the dispatch of a pull: its final bit closes nothing.
Unstated(s, f) == s.pulls # <<>> /\ ~s.replaying /\ Heads(s, f) = {}

Verdict(s, f, taken) ==
  LET said    == IF f.final THEN "done" ELSE "more"
      heads   == Heads(s, f)
      first   == CHOOSE i \in heads : \A j \in heads : i <= j
      pulls   == IF s.replaying THEN s.pulls ELSE Promote(s.pulls, first)
  IN IF s.pulls = <<>>
       THEN [s EXCEPT !.delivery = Note(@, said, FALSE, taken)]
     ELSE IF Unstated(s, f)
       THEN [s EXCEPT !.delivery =
               Note(@, IF f.final THEN "unstated" ELSE "more", FALSE, taken)]
     ELSE [s EXCEPT !.delivery = Note(@, said, TRUE, taken),
                    !.replaying = ~f.final,
                    !.pulls = IF f.final THEN Tail(pulls) ELSE pulls]

\* plan_recovery_pull once its guard holds: backfill a reusable bundle from its
\* own water mark, else rebuild it from a cursorless pull.
Reusable(s) ==
  /\ DOMAIN s.bundle.recs # {}
  /\ s.bundle.cur # None
  /\ ~WorktreeActive

PlanCursor(s) == IF Reusable(s) THEN s.bundle.cur ELSE None

Ask(s, c) == [s EXCEPT !.pulls = Append(@, c)]

Recover(s) ==
  Ask([s EXCEPT !.inflight = TRUE, !.reqFull = ~Reusable(s)], PlanCursor(s))

\* Nothing of a reply is on its way: no timer of the server runs out before.
Quiet == up = <<>> /\ down = <<>> /\ drain = Idle

ServerInit ==
  [bundle |-> NoBundle, reqFull |-> FALSE, inflight |-> FALSE,
   delivery |-> "none", pulls |-> <<>>, replaying |-> FALSE,
   cold |-> FALSE, rest |-> FALSE, ended |-> FALSE]

-----------------------------------------------------------------------------
Init ==
  /\ file = <<>>
  /\ flow \in [status : {"active"}, worktree : BOOLEAN]
  /\ seen = <<>> /\ cur = Absent /\ open = FALSE
  /\ push = Idle /\ drain = Idle
  /\ conn = TRUE /\ up = <<>> /\ down = <<>>
  /\ srv = ServerInit
  /\ heard = 0 /\ raced = [refused |-> FALSE, stale |-> FALSE, shrunk |-> FALSE]
  /\ spent = [rewrites |-> 0, faults |-> 0]
  /\ news = TRUE

Spend(what) ==
  /\ what \in Troubles
  /\ spent.rewrites + spent.faults < MaxTroubles
  /\ spent' = [spent EXCEPT ![what] = @ + 1]

(* The engine: record_prompt and its siblings append a line, *)
(* backfill_prompt_session_id rewrites one in place. *)
Write ==
  /\ Live /\ Len(file) < MaxLines
  /\ file' = Append(file, 1)
  /\ news' = TRUE
  /\ UNCHANGED <<flow, daemonVars, conn, up, down, srv, heard, raced, spent>>

Rewrite(i) ==
  /\ Live /\ Spend("rewrites")
  /\ file' = [file EXCEPT ![i] = @ + 1]
  /\ UNCHANGED <<flow, daemonVars, conn, up, down, srv, heard, raced, news>>

\* The flow ends: failed it stays the live engine.json, archived it does not.
Settle(to) ==
  /\ Live
  /\ flow' = [flow EXCEPT !.status = to]
  /\ UNCHANGED <<file, daemonVars, conn, up, down, srv, heard, raced, news, spent>>

-----------------------------------------------------------------------------
(* The daemon's push tick: _push_history *)

\* read_active_flows: an active flow always, a tracked terminal one only while
\* it still has records.
PushRead ==
  LET read == ReadFlow(cur)
  IN /\ conn /\ push = Idle
     /\ IF Live \/ cur # Absent
          THEN /\ push' = [pc |-> "read", read |-> read,
                           listed |-> Live \/ read.lines # <<>>]
               /\ seen' = Consumed(read)
          ELSE /\ open
               /\ push' = [pc |-> "read", read |-> read, listed |-> FALSE]
               /\ UNCHANGED seen
     /\ UNCHANGED <<file, flow, cur, open, drain, conn, up, down, srv, heard, raced, news, spent>>

\* After the last await before the send loop: decide what this tick ships and
\* which water mark the flow keeps.  A flow being drained is left out.
Tracked(c) == IF flow.status # "archived" THEN c ELSE Absent

Planned(frame, commit, held) ==
  [pc |-> "planned", frame |-> frame, prev |-> cur, commit |-> commit,
   held |-> held]

\* Mutant of PushPlan: a flow that left the read set gets its terminator even
\* when it has no entry in the cursor map.
PushPlanUntracked ==
  /\ push.pc = "read"
  /\ push' = IF push.listed THEN Planned(<<push.read>>, cur, FALSE)
             ELSE Planned(<<Terminator(cur)>>, Tracked(cur), FALSE)
  /\ UNCHANGED <<file, flow, seen, cur, open, drain, conn, up, down, srv, heard, raced, news, spent>>

PushPlan ==
  LET read == push.read
      draining == drain # Idle
  IN /\ push.pc = "read"
     /\ push' = CASE push.listed /\ draining -> Planned(<<>>, cur, TRUE)
                  [] push.listed /\ ~draining /\ (read.lines # <<>> \/ open) ->
                       Planned(<<read>>, cur, FALSE)
                  [] push.listed /\ ~draining /\ read.lines = <<>> /\ ~open ->
                       Planned(<<>>, read.upto, FALSE)
                  [] ~push.listed /\ open /\ cur # Absent ->
                       Planned(<<Terminator(cur)>>, Tracked(cur), FALSE)
                  [] OTHER -> Planned(<<>>, Tracked(cur), FALSE)
     /\ open' = (open /\ (push.listed \/ cur # Absent))
     /\ UNCHANGED <<file, flow, seen, cur, drain, conn, up, down, srv, heard, raced, news, spent>>

\* Mutant of PushSend: no second look for a drain before the send.
PushSendBlind ==
  /\ push.pc = "planned" /\ push.frame # <<>> /\ Len(up) < MaxWire
  /\ up' = Append(up, push.frame[1])
  /\ open' = ~push.frame[1].final
  /\ push' = [push EXCEPT !.frame = <<>>, !.commit = push.frame[1].upto]
  /\ UNCHANGED <<file, flow, seen, cur, drain, conn, down, srv, heard, raced, news, spent>>

\* The check for a drain that began since, immediately before the send.
PushSend ==
  /\ push.pc = "planned" /\ push.frame # <<>>
  /\ IF drain # Idle
       THEN /\ push' = [push EXCEPT !.frame = <<>>, !.held = TRUE,
                                    !.commit = push.prev]
            /\ UNCHANGED <<up, open>>
       ELSE LET f == push.frame[1]
            IN /\ Len(up) < MaxWire
               /\ up' = Append(up, f)
               /\ open' = ~f.final
               /\ push' = [push EXCEPT !.frame = <<>>, !.commit = f.upto]
  /\ UNCHANGED <<file, flow, seen, cur, drain, conn, down, srv, heard, raced, news, spent>>

\* _commit_history_cursors: a flow held back for a drain keeps the live cursor.
PushCommit ==
  /\ push.pc = "planned" /\ push.frame = <<>>
  /\ cur' = IF push.held /\ cur # Absent THEN cur ELSE push.commit
  /\ push' = Idle
  /\ UNCHANGED <<file, flow, seen, open, drain, conn, up, down, srv, heard, raced, news, spent>>

-----------------------------------------------------------------------------
(* The daemon's reply to a pull: _handle_history_request *)

DrainStart ==
  /\ conn /\ drain = Idle /\ down # <<>>
  /\ drain' = [pc |-> "read", from |-> Head(down)]
  /\ down' = Tail(down)
  /\ UNCHANGED <<file, flow, seen, cur, open, push, conn, up, srv, heard, raced, news, spent>>

DrainRead ==
  /\ drain # Idle /\ drain.pc = "read"
  /\ LET read == ReadFlow(drain.from)
     IN /\ drain' = [pc |-> "send", from |-> drain.from, read |-> read]
        /\ seen' = Consumed(read)
  /\ UNCHANGED <<file, flow, cur, open, push, conn, up, down, srv, heard, raced, news, spent>>

\* One frame leaves; the closing one hands its water mark to the push loop.
DrainSend ==
  /\ drain # Idle /\ drain.pc = "send" /\ Len(up) < MaxWire
  /\ up' = Append(up, drain.read)
  /\ IF drain.read.final \/ drain.read.upto = drain.from
       THEN /\ cur' = drain.read.upto
            /\ open' = FALSE
            /\ drain' = Idle
       ELSE /\ drain' = [pc |-> "read", from |-> drain.read.upto]
            /\ UNCHANGED <<cur, open>>
  /\ UNCHANGED <<file, flow, seen, push, conn, down, srv, heard, raced, news, spent>>

-----------------------------------------------------------------------------
(* The server *)

\* The MSG_HISTORY_DATA branch: apply, wake the waiter, account the reply, and
\* recover from a refused append.
Receive ==
  LET f == Head(up)
      a == Apply(srv, f)
      v == Verdict(a.s, f, a.ok /\ ~a.rejected)
      w == [v EXCEPT !.rest = @ /\ ~a.ok]
      recover == ~a.ok /\ ~f.full /\ w.reqFull /\ ~w.inflight
  IN /\ conn /\ up # <<>>
     /\ up' = Tail(up)
     /\ srv' = IF recover THEN Recover(w) ELSE w
     /\ down' = IF recover THEN Append(down, PlanCursor(w)) ELSE down
     /\ heard' = IF f.upto > heard THEN f.upto ELSE heard
     /\ raced' = [raced EXCEPT
                   !.refused = @ \/ (~a.ok /\ f.final /\ Unstated(a.s, f)),
                   !.stale = @ \/ (a.ok /\ f.full /\ f.upto < heard),
                   !.shrunk = @ \/ ~(DOMAIN srv.bundle.recs \subseteq DOMAIN a.s.bundle.recs)]
     /\ UNCHANGED <<file, flow, daemonVars, conn, news, spent>>

\* A REST read that misses the cache re-admits the flow and pulls it whole.
PullMissing ==
  /\ conn /\ ~srv.bundle.held /\ ~srv.rest /\ Len(down) < MaxWire
  /\ srv' = Ask([srv EXCEPT !.cold = FALSE, !.rest = TRUE], None)
  /\ down' = Append(down, None)
  /\ UNCHANGED <<file, flow, daemonVars, conn, up, heard, raced, news, spent>>

\* Mutant of RepairDue: an open delivery that went quiet is not repaired.
RepairDueStalled == srv.delivery = "stalled"

\* history_delivery_repair_due: the delivery is dead, or quiet for the grace.
RepairDue == srv.delivery = "stalled" \/ (srv.delivery = "open" /\ Quiet)

\* A poll answered "not modified" repairs an interrupted delivery...
PollRepair ==
  /\ conn /\ srv.bundle.held /\ ~srv.rest /\ Len(down) < MaxWire
  /\ RepairDue \/ (WorktreeActive /\ srv.delivery # "none")
  /\ ~srv.inflight
  /\ srv' = Recover([srv EXCEPT !.rest = TRUE, !.reqFull = TRUE])
  /\ down' = Append(down, PlanCursor(srv))
  /\ UNCHANGED <<file, flow, daemonVars, conn, up, heard, raced, news, spent>>

\* ... and reconciles an active worktree flow, throttled for longer than a reply
\* takes (full_pull_throttled).
PollReconcile ==
  /\ conn /\ srv.bundle.held /\ ~srv.rest /\ Len(down) < MaxWire
  /\ WorktreeActive /\ srv.delivery = "none" /\ srv.pulls = <<>>
  /\ srv' = Ask([srv EXCEPT !.rest = TRUE], None)
  /\ down' = Append(down, None)
  /\ UNCHANGED <<file, flow, daemonVars, conn, up, heard, raced, news, spent>>

\* Serving the whole bundle to a console de-latches requires_full.
ServeFull ==
  /\ srv.bundle.held /\ srv.reqFull
  /\ srv' = [srv EXCEPT !.reqFull = FALSE]
  /\ UNCHANGED <<file, flow, daemonVars, conn, up, down, heard, raced, news, spent>>

\* The timers: HISTORY_PULL_TIMEOUT, _HISTORY_RECOVERY_TTL, _HISTORY_REPLAY_TTL.
Expire(timer) ==
  /\ Quiet
  /\ srv' = CASE timer = "rest" -> [srv EXCEPT !.rest = FALSE]
              [] timer = "recovery" -> [srv EXCEPT !.inflight = FALSE]
              [] timer = "replay" -> [srv EXCEPT !.pulls = <<>>, !.replaying = FALSE]
  /\ srv' # srv
  /\ UNCHANGED <<file, flow, daemonVars, conn, up, down, heard, raced, news, spent>>

Timers == {"rest", "recovery", "replay"}

\* note_machine_deliveries_interrupted, when the old socket's handler ends: it
\* may do so after the daemon is back.
NoteInterrupted ==
  /\ srv.ended
  /\ srv' = IF srv.delivery = "none" THEN [srv EXCEPT !.ended = FALSE]
            ELSE [srv EXCEPT !.ended = FALSE, !.delivery = "stalled",
                             !.pulls = <<>>, !.replaying = FALSE,
                             !.reqFull = TRUE, !.inflight = FALSE]
  /\ UNCHANGED <<file, flow, daemonVars, conn, up, down, heard, raced, news, spent>>

\* The budget evicts the bundle; a flow nobody read since goes cold.
Evict(unread) ==
  /\ srv.bundle.held /\ ~srv.rest /\ Spend("faults")
  /\ srv' = [srv EXCEPT !.bundle = NoBundle, !.cold = unread, !.reqFull = FALSE,
                        !.inflight = FALSE, !.delivery = "none"]
  /\ heard' = 0
  /\ UNCHANGED <<file, flow, daemonVars, conn, up, down, raced, news>>

-----------------------------------------------------------------------------
(* Failures *)

\* Both directions lose what they carry and both daemon tasks end: a send that
\* raises commits the water mark the tick started from, a cancelled one nothing.
CutSocket ==
  /\ conn /\ conn' = FALSE
  /\ up' = <<>> /\ down' = <<>>
  /\ push' = Idle /\ drain' = Idle

Drop ==
  /\ CutSocket /\ Spend("faults")
  /\ \/ cur' = cur
     \/ push # Idle /\ push.pc = "planned" /\ push.frame # <<>> /\ cur' = push.prev
  /\ srv' = [srv EXCEPT !.ended = TRUE]
  /\ news' = FALSE
  /\ UNCHANGED <<file, flow, seen, open, heard, raced>>

DaemonRestart ==
  /\ CutSocket /\ Spend("faults")
  /\ cur' = Absent /\ seen' = <<>> /\ open' = FALSE
  /\ srv' = [srv EXCEPT !.ended = TRUE]
  /\ news' = FALSE
  /\ UNCHANGED <<file, flow, heard, raced>>

ServerRestart ==
  /\ CutSocket /\ Spend("faults")
  /\ srv' = ServerInit
  /\ heard' = 0
  /\ UNCHANGED <<file, flow, seen, cur, open, raced, news>>

\* The daemon dials again and keeps its delivery cursor.
Reconnect ==
  /\ ~conn /\ conn' = TRUE
  /\ UNCHANGED <<file, flow, daemonVars, up, down, srv, heard, raced, news, spent>>

-----------------------------------------------------------------------------
Daemon == PushRead \/ PushPlan \/ PushSend \/ PushCommit
          \/ DrainStart \/ DrainRead \/ DrainSend
Server == Receive \/ NoteInterrupted \/ \E t \in Timers : Expire(t)
Console == PullMissing \/ PollRepair \/ PollReconcile \/ ServeFull
Engine == \/ Write
          \/ \E i \in 1..Len(file) : Rewrite(i)
          \/ \E to \in {"failed", "archived"} : Settle(to)
Fault == Drop \/ DaemonRestart \/ ServerRestart \/ \E b \in BOOLEAN : Evict(b)

Next == Daemon \/ Server \/ Console \/ Engine \/ Fault \/ Reconnect

Spec == Init /\ [][Next]_vars

Fairness ==
  /\ WF_vars(PushRead) /\ WF_vars(PushPlan) /\ WF_vars(PushSend) /\ WF_vars(PushCommit)
  /\ WF_vars(DrainStart) /\ WF_vars(DrainRead) /\ WF_vars(DrainSend)
  /\ WF_vars(Receive) /\ WF_vars(NoteInterrupted) /\ WF_vars(Reconnect)
  /\ \A t \in Timers : WF_vars(Expire(t))
  /\ WF_vars(PullMissing) /\ WF_vars(PollRepair)

FairSpec == Spec /\ Fairness

-----------------------------------------------------------------------------
\* Types of the state.
TypeOK ==
  /\ file \in LineSeqs /\ seen \in LineSeqs
  /\ flow \in [status : {"active", "failed", "archived"}, worktree : BOOLEAN]
  /\ cur \in Cursors \cup {Absent}
  /\ {open, conn} \subseteq BOOLEAN
  /\ push.pc \in {"idle", "read", "planned"}
  /\ drain.pc \in {"idle", "read", "send"}
  /\ \A i \in 1..Len(up) : up[i] \in Frames
  /\ down \in Seq(Cursors)
  /\ srv.bundle.cur \in Cursors
  /\ srv.delivery \in {"none", "open", "stalled"}
  /\ srv.pulls \in Seq(Cursors)

Cached == DOMAIN srv.bundle.recs

\* The cache holds a prefix of the flow's lines that reaches its water mark,
\* whatever frames a reconnect, a pull or an eviction put in its way: the gap
\* guard of apply_history_frame never lets it splice over a hole.
NoHole ==
  /\ \E k \in 0..Len(file) : Cached = 1..k
  /\ 1..Water(srv.bundle.cur) \subseteq Cached

NoFailure == spent.faults = 0

\* Nothing is under way and the server owes the flow neither a full read, nor a
\* recovery, nor the end of a delivery.
Settled ==
  /\ Quiet /\ push = Idle /\ conn
  /\ srv.bundle.held /\ srv.delivery = "none" /\ ~srv.reqFull /\ ~srv.inflight

\* What state.py says of its delivery marker, a refused frame may only ever add
\* incompleteness: a history that looks settled has every line any frame told
\* the server of.
SettledIsWhole == Settled => 1..heard \subseteq Cached

\* The push loop's own water mark makes it send again what the cache lacks.
WillResend == cur # Absent /\ cur <= Water(srv.bundle.cur)

\* SettledIsWhole holds but for two races of a push with a pull: the server
\* refused a closing frame as traffic older than the pull, or took a stale full
\* frame that was read before the pull and sent after it, which the daemon then
\* makes good by itself unless something fails first.
SettledUnlessRaced ==
  ~raced.refused =>
    SettledIsWhole \/ (raced.stale /\ (NoFailure => WillResend))

\* While nothing fails, a frame that reaches a cache with records never makes
\* the server ask for the flow again: pushes hold back while a reply drains, so
\* the daemon's two tasks never open a gap between them.  (A line rewritten in
\* place, or a stale full frame that takes records away, may.)
NoSelfInflictedGap ==
  [][ /\ NoFailure' /\ spent'.rewrites = 0 /\ ~raced.shrunk
      /\ up # <<>> /\ up' = Tail(up) /\ Cached # {}
      => down' = down /\ (~srv.reqFull => ~srv'.reqFull) ]_vars

\* A flow that is still written to, or whose two ends never failed.
Due == file # <<>> /\ (NoFailure \/ (news /\ Live))

\* The cache comes to hold the whole conversation and stays so, and the server
\* again and again finds the delivery complete: recovery pulls, repairs and
\* reconciliations end, and no marker stays open for ever.
Converges ==
  /\ <>[](Due => srv.bundle.held /\ Cached = 1..Len(file))
  /\ []<>(Due => srv.delivery = "none" /\ ~srv.reqFull)

\* Both ends agree that everything was read, sent and taken.
AtRest ==
  /\ Settled /\ ~open /\ seen = file
  /\ cur = Len(file) /\ srv.bundle.cur = Len(file)

\* What read_flow's comment asks of a line rewritten in place, a full read from
\* the start delivered as the next append: once both ends are at rest the cache
\* mirrors the file.  The table of read offsets that notices the rewrite is
\* shared by the push and the reply, so the one whose frame is never sent
\* consumes the notice.
RewriteRedelivered == AtRest => srv.bundle.recs = file
=============================================================================
