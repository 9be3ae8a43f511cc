------------------------------ MODULE Station -------------------------------
(***************************************************************************)
(* One running station: the controller (streamer/controller.rs), the       *)
(* command loop and the two executor lanes that connect it to the pipeline *)
(* (streamer/runtime.rs) and what the controller relies on of the pipeline *)
(* (streamer/gstreamer/mod.rs, bus.rs).                                    *)
(*                                                                         *)
(* The controller decides from its own picture of the pipeline: the        *)
(* current track, the branch staged behind it, a generation.  The pipeline *)
(* plays on by itself, executes operations later and reports back over     *)
(* channels that are not ordered with respect to each other.  The          *)
(* properties are about the two pictures staying one.                      *)
(*                                                                         *)
(* Control is complete for play, pause, skip, reload, idle resume, the     *)
(* four completions and the decode, end-of-track, handover and fatal       *)
(* events.  Reconnects are in Reconnect.tla, the admission of commands and *)
(* shutdown in Executor.tla, the persistence of the cursor in              *)
(* QueueCursor.tla.                                                        *)
(***************************************************************************)
EXTENDS QueueState, FiniteSets

CONSTANTS
  InitialRows,  \* the rows the station starts with
  MaxCommands,  \* bound: play, pause and skip requests
  MaxEdits,     \* bound: queue edits by other clients
  MaxFaults,    \* bound: failed operations, undecodable tracks, lost database calls
  MaxInputs,    \* bound: commands, edits and faults together
  MaxAttempts,  \* bound: operations prepared before the idle poll gives up
  Races         \* the windows the environment may hit, see below

(***************************************************************************)
(* Races the code leaves open.  Every one of them is a real schedule; the  *)
(* agreement of controller and pipeline holds outside of them, and the     *)
(* rest is checked with as many of them open as it holds with.             *)
(*   "early"     a track ends, hands over or proves undecodable before the *)
(*               loop has processed the completion of the skip or of the   *)
(*               idle resume that brought it on the air                    *)
(*   "resuming"  a manual skip arrives while an idle resume is in flight   *)
(*   "stopped"   a pause arrives while the controller is stopped, because   *)
(*               the queue ran dry or a start is still in flight           *)
(*   "starting"  a queue edit arrives while a start is in flight           *)
(*   "skipping"  a queue edit arrives while a skip is in flight            *)
(*   "stale"     the queue is refilled while such an edit holds the rows   *)
(*               it has read                                               *)
(*   "overtake"  the completion of a skip reaches the loop before that of  *)
(*               the start it was queued behind                            *)
(*   "reviving"  a play finds the station paused on a track that ended     *)
(*   "ending"    a pause arrives between the end of a track and the event  *)
(*   "endless"   a track whose duration the decoder cannot tell            *)
(*   "toggle"    GStreamer refuses to resume or to pause                   *)
(***************************************************************************)
ASSUME StationAssumption ==
  /\ Items \subseteq Nat \ {0}
  /\ InitialRows \in Seq(Items)
  /\ {MaxCommands, MaxEdits, MaxFaults, MaxInputs, MaxAttempts} \subseteq Nat
  /\ Races \subseteq {"early", "resuming", "stopped", "starting", "skipping", "stale",
                      "overtake", "reviving", "ending", "endless", "toggle"}

VARIABLES
  ctl,      \* the controller, with its in-memory queue
  env,      \* the queue table, the rows created, the synchronization owed and
            \* the faults left
  fetched,  \* what a queue synchronization has read and not delivered, or None
  urgent,   \* executor lane of event-driven operations
  regular,  \* executor lane of commands
  done,     \* completions on their way back to the loop
  events,   \* pipeline events on their way to the loop
  pipe,     \* the physical pipeline
  commands, \* user commands given
  edits,    \* queue edits made
  wish,     \* the last request the station accepted: none, play or pause
  heard     \* items that were current in the pipeline and gave way to another

vars == <<ctl, env, fetched, urgent, regular, done, events, pipe,
          commands, edits, wish, heard>>

-----------------------------------------------------------------------------
(* Operations for the pipeline.  A switch replaces the current track old   *)
(* of generation gen - 1; a roll replaces the staged next old by next.     *)

NoOp == [type |-> "none", gen |-> 0, epoch |-> 0, cur |-> None, next |-> None,
         old |-> None, id |-> 0]
Refused == [NoOp EXCEPT !.type = "refused"]
StopOp == [NoOp EXCEPT !.type = "stop"]
Toggle(on) == [NoOp EXCEPT !.type = IF on THEN "resume" ELSE "pause"]

Submit(lane, op) ==
  IF op.type \in {"none", "refused"} THEN lane ELSE Append(lane, op)

(* What a controller method leaves behind: the controller, the database    *)
(* and an operation to submit.                                             *)
Out(c, e, op) == [c |-> c, e |-> e, op |-> op]

Key(planned) == IF planned = None THEN None ELSE planned.song
Planned(song, anchor) ==
  IF song = None THEN None ELSE [song |-> song, anchor |-> anchor]

-----------------------------------------------------------------------------
(* The queue behind the database.  A fill appends one item or finds        *)
(* nothing to add; every database call may fail.                           *)

Fault(e) == IF e.faults = 0 THEN {} ELSE {[e EXCEPT !.faults = @ - 1]}

Refill(e) ==
  {e} \cup {[e EXCEPT !.rows = Append(@, i), !.born = i] : i \in {e.born + 1} \cap Items}

ReloadFromDb(c, e) ==
  {Out([c EXCEPT !.q = Replaced(@, e.rows, TRUE)], e, NoOp)}
    \cup {Out(c, f, NoOp) : f \in Fault(e)}

TopUp(c, e) == UNION {ReloadFromDb(c, f) : f \in Refill(e) \cup Fault(e)}

(* The in-memory current always advances, whatever the database says.      *)
CommitCurrent(c, e, song, anchor) ==
  LET d == [c EXCEPT !.q = Committed(@, song, anchor)]
  IN  (UNION {ReloadFromDb(d, f) : f \in Refill(e)}) \cup {Out(d, f, NoOp) : f \in Fault(e)}

-----------------------------------------------------------------------------
(* The staged branch the queue wants, and rolls towards it.                *)

Excluded(c) ==
  IF c.broken = None THEN {}
  ELSE IF c.broken.gen = c.gen /\ c.broken.cur = c.q.cur THEN c.broken.tracks ELSE {}

EffectiveSuccessor(c) ==
  IF c.q.cur = None THEN None
  ELSE FirstOutside(c.q.items, c.q.used \cup {c.q.cur} \cup Excluded(c))

Exclude(c, track) ==
  IF c.q.cur = None THEN c
  ELSE [c EXCEPT !.broken = [gen |-> c.gen, cur |-> c.q.cur,
                             tracks |-> Excluded(c) \cup {track}]]

(* One unresolved realign per identity: a second intent for the same       *)
(* branch is absorbed, and a decode failure arms the one in flight.        *)
PrepareRealign(c, e, cur, expected, desired, broken, retries) ==
  LET r == c.realign
      same == r # None /\ r.gen = c.gen /\ r.cur = cur /\ r.expected = expected
      id == c.seq + 1
  IN  IF ~ same
      THEN Out([c EXCEPT !.seq = id,
                         !.realign = [id |-> id, gen |-> c.gen, cur |-> cur,
                                      expected |-> expected, desired |-> desired,
                                      dirty |-> FALSE, broken |-> broken, retries |-> retries]],
               e,
               [NoOp EXCEPT !.type = "roll", !.gen = c.gen, !.cur = cur,
                            !.old = expected, !.next = desired, !.id = id])
      ELSE IF broken
      THEN Out([c EXCEPT !.realign.broken = TRUE,
                         !.realign.retries = IF @ > 1 THEN @ ELSE 1], e, NoOp)
      ELSE Out(c, e, NoOp)

-----------------------------------------------------------------------------
(* Starting, stopping, skipping.                                           *)

ForgetPlays(c) == [c EXCEPT !.playFailed = 0, !.playDone = 0, !.playBySkip = 0]

(* replace_current: the new identity is adopted when the operation is      *)
(* prepared, not when it succeeds.                                         *)
ReplaceCurrent(c, e, id) ==
  LET d == [c EXCEPT !.planned = Planned(PeekNext(c.q), AnchorAfterCurrent(c.q)),
                     !.gen = @ + 1, !.epoch = @ + 1,
                     !.broken = None, !.realign = None, !.seq = id]
  IN  Out(d, e, [NoOp EXCEPT !.type = "start", !.gen = d.gen, !.epoch = d.epoch,
                             !.cur = c.q.cur, !.next = Key(d.planned), !.id = id])

StopAfterCurrent(c, e) ==
  Out([ForgetPlays(c) EXCEPT !.q = Finished(@), !.gen = @ + 1,
                             !.resume = 0, !.play = 0, !.idle = TRUE, !.state = "Stopped"],
      e, StopOp)

(* stop(), reached by a fatal pipeline error.                              *)
StopNow(c) ==
  [ForgetPlays(c) EXCEPT
     !.idle = FALSE, !.resume = 0, !.play = 0, !.broken = None, !.ended = None,
     !.realign = None, !.planned = None, !.state = "Stopped",
     !.skip = IF @ = None THEN None ELSE [@ EXCEPT !.play = 0, !.toPlay = FALSE]]

PrepareSkip(c, e, next) ==
  LET id == c.seq + 1
      staged == SuccessorAfter(c.q, next)
  IN  Out([c EXCEPT !.seq = id,
                    !.skip = [id |-> id, gen |-> c.gen + 1, song |-> next,
                              anchor |-> AnchorAfterCurrent(c.q), staged |-> staged,
                              play |-> c.play, badCur |-> FALSE, badNext |-> FALSE,
                              toPlay |-> FALSE]],
          e,
          [NoOp EXCEPT !.type = "switch", !.gen = c.gen + 1, !.epoch = c.epoch,
                       !.old = c.q.cur, !.cur = next, !.next = staged, !.id = id])

(* skip(): two phases, single flight; an exhausted queue is reloaded, then *)
(* refilled, before the station stops.                                     *)
Skip(c0, e) ==
  LET c == [c0 EXCEPT !.resume = 0]
      found == UNION {IF EffectiveSuccessor(o.c) # None THEN {o} ELSE TopUp(o.c, o.e)
                        : o \in ReloadFromDb(c, e)}
      Decide(o) == LET next == EffectiveSuccessor(o.c)
                   IN  IF next = None THEN StopAfterCurrent(o.c, o.e)
                       ELSE PrepareSkip(o.c, o.e, next)
  IN  IF c.skip # None THEN {Out(c, e, Refused)}
      ELSE IF c.q.cur = None THEN {StopAfterCurrent(c, e)}
      ELSE IF EffectiveSuccessor(c) # None THEN {Decide(Out(c, e, NoOp))}
      ELSE {Decide(o) : o \in found}

(* retry_deferred_terminal: the operation is NoOp when nothing is due.     *)
RetryEnded(c, e) ==
  IF c.ended = None THEN {Out(c, e, NoOp)}
  ELSE IF c.ended.gen # c.gen \/ c.ended.track # c.q.cur
  THEN {Out([c EXCEPT !.ended = None], e, NoOp)}
  ELSE IF c.skip # None \/ c.ended.retries = 0 THEN {Out(c, e, Refused)}
  ELSE Skip([c EXCEPT !.ended.retries = @ - 1], e)

PlayFromStopped(c, e) ==
  LET d == ForgetPlays(c)
      filled == IF d.q.cur = None THEN TopUp(d, e)
                ELSE (UNION {ReloadFromDb(d, f) : f \in Refill(e)})
                       \cup {Out(d, f, NoOp) : f \in Fault(e)}
      Begin(o) ==
        IF o.c.q.cur = None THEN Out([o.c EXCEPT !.idle = TRUE], o.e, StopOp)
        ELSE LET p == ReplaceCurrent(o.c, o.e, o.c.seq + 1)
             IN  [p EXCEPT !.c = [@ EXCEPT !.idle = FALSE, !.play = p.op.id]]
  IN  IF c.play # 0 \/ c.skip # None THEN {Out(c, e, Refused)}
      ELSE {Begin(o) : o \in filled}

PlayFromActive(c, e) ==
  LET Continue(o) ==
        IF o.op.type = "refused" THEN o
        ELSE IF o.op.type = "none"
        THEN Out([o.c EXCEPT !.state = "Playing"], o.e, Toggle(TRUE))
        ELSE IF o.c.skip = None THEN o
        ELSE [o EXCEPT !.c = [@ EXCEPT !.skip.toPlay = TRUE]]
  IN  {Continue(o) : o \in RetryEnded([c EXCEPT !.idle = FALSE], e)}

PlayOutcomes(c, e) ==
  IF c.state = "Stopped" THEN PlayFromStopped([c EXCEPT !.resume = 0], e)
  ELSE PlayFromActive([c EXCEPT !.resume = 0], e)

PauseNow(c) ==
  [ForgetPlays(c) EXCEPT
     !.idle = FALSE, !.resume = 0, !.play = 0, !.state = "Paused",
     !.skip = IF @ = None THEN None ELSE [@ EXCEPT !.play = 0, !.toPlay = FALSE]]

(* resume_from_idle: no operation while the queue stays empty.             *)
ResumeFromIdle(c, e) ==
  LET Begin(o) == IF o.c.q.cur = None THEN o
                  ELSE LET p == ReplaceCurrent(o.c, o.e, o.c.seq + 1)
                       IN  [p EXCEPT !.c = [@ EXCEPT !.resume = p.op.id]]
  IN  {Begin(o) : o \in TopUp([c EXCEPT !.play = 0], e)}

-----------------------------------------------------------------------------
(* Completions.  Only the attempt that is still pending is applied.        *)

OnResumeResult(c, id, ok) ==
  IF c.resume # id THEN c
  ELSE IF ok THEN [c EXCEPT !.resume = 0, !.idle = FALSE, !.state = "Playing"]
  ELSE [c EXCEPT !.resume = 0, !.idle = TRUE, !.state = "Stopped"]

(* Mutant: the completion of a superseded attempt is applied.              *)
CommitPlayOfAnyAttempt(c, id, ok) ==
  [c EXCEPT !.play = 0, !.playBySkip = 0, !.idle = FALSE,
            !.playFailed = IF ok THEN 0 ELSE id,
            !.playDone = IF ok THEN id ELSE 0,
            !.state = IF ok THEN "Playing" ELSE "Stopped"]

(* Mutant: a start that succeeded leaves the station stopped.              *)
CommitPlayStaysStopped(c, id, ok) ==
  IF c.play # id THEN c ELSE [c EXCEPT !.play = 0, !.playBySkip = 0, !.idle = FALSE]

CommitPlay(c, id, ok) ==
  LET skipped == c.playBySkip = id
  IN  IF c.play # id THEN c
      ELSE [c EXCEPT !.play = 0, !.playBySkip = 0, !.idle = FALSE,
                     !.playFailed = IF ok \/ skipped THEN 0 ELSE id,
                     !.playDone = IF ok /\ ~ skipped THEN id ELSE 0,
                     !.state = IF ok THEN "Playing" ELSE "Stopped"]

(* What the play that was in flight when the skip was prepared has become. *)
ResolvePlay(c, play) ==
  CASE play = 0 -> ForgetPlays(c)
    [] play # 0 /\ c.playDone = play ->
         [c EXCEPT !.playDone = 0, !.playBySkip = 0, !.state = "Playing"]
    [] play # 0 /\ c.playDone # play /\ c.playFailed = play ->
         [c EXCEPT !.playFailed = 0, !.playBySkip = 0]
    [] play # 0 /\ c.playDone # play /\ c.playFailed # play /\ c.play = play ->
         [c EXCEPT !.playBySkip = play]
    [] OTHER -> c

(* The last part of commit_skip: align the staged branch with the queue.   *)
AlignAfterSkip(c, e, p, desired) ==
  LET anchor == AnchorAfterCurrent(c.q)
      r == PrepareRealign(c, e, c.q.cur, p.staged, desired, p.badNext,
                          IF p.badNext THEN 1 ELSE 0)
  IN  IF c.state # "Stopped" /\ desired # p.staged
      THEN [r EXCEPT !.c = [@ EXCEPT !.planned = Planned(p.staged, anchor)]]
      ELSE Out([c EXCEPT !.planned = IF c.state = "Stopped" THEN None
                                     ELSE Planned(desired, anchor)], e, NoOp)

CommitSkipped(c0, e, p) ==
  LET stopped == c0.state = "Stopped"
      Adopt(o) ==
        LET a == [o.c EXCEPT !.gen = @ + 1, !.broken = None, !.realign = None, !.idle = FALSE,
                             !.ended = None]
            b == IF ~ stopped /\ p.badNext THEN Exclude(a, p.staged) ELSE a
            c == ResolvePlay(IF p.toPlay /\ ~ stopped THEN [b EXCEPT !.state = "Playing"] ELSE b,
                             p.play)
            d == IF p.badCur /\ ~ stopped
                 THEN [c EXCEPT !.ended = [gen |-> c.gen, track |-> p.song, retries |-> 1]]
                 ELSE c
            desired == IF ~ stopped /\ p.badNext THEN EffectiveSuccessor(d)
                       ELSE SuccessorAfter(d.q, p.song)
        IN  IF p.badCur /\ ~ stopped /\ d.state = "Playing" THEN Skip(d, o.e)
            ELSE {AlignAfterSkip(d, o.e, p, desired)}
  IN  UNION {Adopt(o) : o \in CommitCurrent([c0 EXCEPT !.skip = None], e, p.song, p.anchor)}

(* Mutants: the failed skip stays pending; the end that came meanwhile is  *)
(* forgotten; it is retried on a station that was paused.                  *)
SkipFailedStaysPending(c, e, p) == {Out(c, e, NoOp)}
SkipFailedForgetsEnd(c, e, p) == {Out([c EXCEPT !.skip = None], e, NoOp)}
SkipFailedAlwaysRetries(c, e, p) == RetryEnded([c EXCEPT !.skip = None], e)

SkipFailed(c0, e, p) ==
  LET c == [c0 EXCEPT !.skip = None,
                      !.playFailed = IF p.play \in {0, @} THEN 0 ELSE @,
                      !.playDone = IF p.play = 0 THEN 0 ELSE @]
  IN  IF c.state = "Playing" THEN RetryEnded(c, e) ELSE {Out(c, e, NoOp)}

CommitSkip(c, e, id, ok) ==
  IF c.skip = None THEN {Out(c, e, NoOp)}
  ELSE IF c.skip.id # id THEN {Out(c, e, NoOp)}
  ELSE IF ok THEN CommitSkipped(c, e, c.skip)
  ELSE SkipFailed(c, e, c.skip)

(* commit_realign: claim the branch, retry a failed replacement of a       *)
(* broken one, or follow a queue that changed meanwhile.                   *)
CommitRealign(c0, e, id, ok) ==
  LET r == c0.realign
      c == [c0 EXCEPT !.realign = None,
                      !.planned = IF ok THEN Planned(r.desired, AnchorAfterCurrent(c0.q)) ELSE @]
      physical == IF ok THEN r.desired ELSE r.expected
      next == EffectiveSuccessor(c)
  IN  IF r = None THEN Out(c0, e, NoOp)
      ELSE IF r.id # id THEN Out(c0, e, NoOp)
      ELSE IF c0.gen # r.gen \/ c0.q.cur # r.cur \/ Key(c0.planned) # r.expected
      THEN Out([c0 EXCEPT !.realign = None], e, NoOp)
      ELSE IF ~ ok /\ r.broken /\ r.retries > 0
      THEN PrepareRealign(c, e, r.cur, r.expected, next, TRUE, r.retries - 1)
      ELSE IF r.dirty /\ next # physical
      THEN PrepareRealign(c, e, r.cur, physical, next, FALSE, 0)
      ELSE Out(c, e, NoOp)

Completed(c, e, d) ==
  CASE d.type = "start"  -> {Out(CommitPlay(OnResumeResult(c, d.id, d.ok), d.id, d.ok), e, NoOp)}
    [] d.type = "switch" -> CommitSkip(c, e, d.id, d.ok)
    [] d.type = "roll"   -> {CommitRealign(c, e, d.id, d.ok)}

-----------------------------------------------------------------------------
(* Events.                                                                 *)

(* resolve_current_terminal: {} when the event is not about the current    *)
(* track, or only had to be remembered.                                    *)
Terminal(c, gen, track) ==
  /\ ~ (c.state = "Stopped" /\ c.play = 0 /\ c.resume = 0 /\ c.skip = None)
  /\ gen = c.gen
  /\ track = c.q.cur

Remember(c, gen, track) ==
  [c EXCEPT !.ended = [gen |-> gen, track |-> track, retries |-> 1]]

CurrentEos(c, e, ev) ==
  IF ~ Terminal(c, ev.gen, ev.track) THEN {Out(c, e, NoOp)}
  ELSE IF c.skip # None THEN {Out(Remember(c, ev.gen, ev.track), e, NoOp)}
  ELSE Skip(Remember(c, ev.gen, ev.track), e)

DecodeFailed(c0, e, ev) ==
  LET current == Terminal(c0, ev.gen, ev.track)
      c == IF current THEN Remember(c0, ev.gen, ev.track) ELSE c0
      x == Exclude(c, ev.track)
      target == c.skip # None /\ ev.gen = c.skip.gen
  IN  IF current /\ c.skip = None THEN Skip(c, e)
      ELSE IF ev.gen = c.gen /\ Key(c.planned) = ev.track /\ c.q.cur # None
      THEN {PrepareRealign(x, e, x.q.cur, ev.track, EffectiveSuccessor(x), TRUE, 1)}
      ELSE IF target /\ c.skip.song = ev.track
      THEN {Out([c EXCEPT !.skip.badCur = TRUE], e, NoOp)}
      ELSE IF target /\ c.skip.staged = ev.track
      THEN {Out([c EXCEPT !.skip.badNext = TRUE], e, NoOp)}
      ELSE {Out(c, e, NoOp)}

(* The branch the pipeline handed over to is the staged one, or the one an *)
(* unanswered realign was to stage.                                        *)
HandoverAnchor(c, track) ==
  LET r == c.realign
  IN  IF Key(c.planned) = track THEN {c.planned.anchor}
      ELSE IF r = None THEN {}
      ELSE IF r.gen = c.gen /\ r.cur = c.q.cur /\ Key(c.planned) = r.expected /\ r.desired = track
      THEN {AnchorAfterCurrent(c.q)}
      ELSE {}

Handover(c, e, ev) ==
  LET anchors == HandoverAnchor(c, ev.track)
      Attach(o) == LET next == EffectiveSuccessor(o.c)
                   IN  IF next = None THEN o
                       ELSE PrepareRealign(o.c, o.e, o.c.q.cur, None, next, FALSE, 0)
      d == [c EXCEPT !.planned = None, !.realign = None, !.broken = None]
  IN  IF ev.gen # c.gen \/ ev.track = c.q.cur \/ anchors = {} THEN {Out(c, e, NoOp)}
      ELSE {Attach(o) : o \in UNION {CommitCurrent(d, e, ev.track, a) : a \in anchors}}

FatalPipeline(c, e, ev) ==
  IF ev.epoch = c.epoch /\ (c.state # "Stopped" \/ c.play # 0 \/ c.resume # 0)
  THEN {Out(StopNow(c), e, StopOp)}
  ELSE {Out(c, e, NoOp)}

Handled(c, e, ev) ==
  CASE ev.type = "CurrentEos"    -> CurrentEos(c, e, ev)
    [] ev.type = "DecodeFailed"  -> DecodeFailed(c, e, ev)
    [] ev.type = "Handover"      -> Handover(c, e, ev)
    [] ev.type = "FatalPipeline" -> FatalPipeline(c, e, ev)

(* Mutant: an edit during a realign is left to the realign.                *)
ReloadForgetsEdit(c0, e, songs, align) ==
  LET retain == c0.state # "Stopped" \/ c0.play # 0 \/ c0.resume # 0 \/ c0.skip # None
      c == [c0 EXCEPT !.q = Replaced(@, songs, retain)]
      next == EffectiveSuccessor(c)
  IN  IF \/ c.state = "Stopped" \/ ~ align \/ c.realign # None \/ c.skip # None
         \/ c.q.cur = None \/ next = Key(c.planned)
      THEN Out(c, e, NoOp)
      ELSE PrepareRealign(c, e, c.q.cur, Key(c.planned), next, FALSE, 0)

(* reload(): a queue change from the control plane.                        *)
Reload(c0, e, songs, align) ==
  LET retain == c0.state # "Stopped" \/ c0.play # 0 \/ c0.resume # 0 \/ c0.skip # None
      c == [c0 EXCEPT !.q = Replaced(@, songs, retain)]
      next == EffectiveSuccessor(c)
  IN  IF c.state = "Stopped" \/ ~ align THEN Out(c, e, NoOp)
      ELSE IF c.realign # None
      THEN Out([c EXCEPT !.realign.dirty = @ \/ next # c.realign.desired], e, NoOp)
      ELSE IF c.skip # None \/ c.q.cur = None \/ next = Key(c.planned) THEN Out(c, e, NoOp)
      ELSE PrepareRealign(c, e, c.q.cur, Key(c.planned), next, FALSE, 0)

-----------------------------------------------------------------------------
(* The state machine.                                                      *)

Off == [state |-> "Stopped", plan |-> None]
OnAir == pipe.plan # None
Audible == OnAir /\ pipe.state = "Playing" /\ ~ pipe.plan.ended
InputLeft == commands + edits + (MaxFaults - env.faults) < MaxInputs
CanFail == env.faults > 0 /\ InputLeft
Event(type, gen, track) == [type |-> type, gen |-> gen, epoch |-> 0, track |-> track]

Init ==
  /\ ctl = [state |-> "Stopped", gen |-> 0, epoch |-> 0,
            q |-> [items |-> InitialRows, cur |-> FirstOutside(InitialRows, {}), used |-> {}],
            planned |-> None, idle |-> FALSE, resume |-> 0, play |-> 0, playFailed |-> 0,
            playDone |-> 0, playBySkip |-> 0, skip |-> None, realign |-> None,
            ended |-> None, broken |-> None, seq |-> 0]
  /\ env = [rows |-> InitialRows, born |-> Len(InitialRows), faults |-> MaxFaults,
            owed |-> "none"]
  /\ fetched = None
  /\ urgent = <<>> /\ regular = <<>> /\ events = <<>> /\ done = {}
  /\ pipe = Off
  /\ commands = 0 /\ edits = 0
  /\ wish = "none"
  /\ heard = {}

(* Commands and command completions submit to the regular lane, pipeline   *)
(* events to the urgent one.                                               *)
FromCommand(o) ==
  /\ ctl' = o.c /\ env' = o.e /\ regular' = Submit(regular, o.op) /\ UNCHANGED urgent
FromEvent(o) ==
  /\ ctl' = o.c /\ env' = o.e /\ urgent' = Submit(urgent, o.op) /\ UNCHANGED regular

Request ==
  /\ commands < MaxCommands /\ InputLeft
  /\ commands' = commands + 1

(* A play joins an automatic resume that is already in flight.  It holds   *)
(* the lifecycle lock, as a synchronization does.                          *)
Play ==
  /\ Request
  /\ fetched = None
  /\ "reviving" \in Races \/ ctl.state # "Paused" \/ ctl.ended = None
  /\ \/ ctl.resume # 0 /\ wish' = "play" /\ UNCHANGED <<ctl, env, regular, urgent>>
     \/ /\ ctl.resume = 0
        /\ \E o \in PlayOutcomes(ctl, env) :
             FromCommand(o) /\ wish' = IF o.op.type = "refused" THEN wish ELSE "play"
  /\ UNCHANGED <<fetched, done, events, pipe, edits, heard>>

AboutToEnd == \E i \in DOMAIN events : events[i].type \in {"CurrentEos", "DecodeFailed"}

Pause ==
  /\ Request /\ wish' = "pause"
  /\ "stopped" \in Races \/ ctl.state # "Stopped"
  /\ "ending" \in Races \/ ~ AboutToEnd
  /\ FromCommand(Out(PauseNow(ctl), env, Toggle(FALSE)))
  /\ UNCHANGED <<fetched, done, events, pipe, edits, heard>>

SkipCommand ==
  /\ Request /\ wish' = "none"
  /\ "resuming" \in Races \/ ctl.resume = 0
  /\ \E o \in Skip(ctl, env) : FromCommand(o)
  /\ UNCHANGED <<fetched, done, events, pipe, edits, heard>>

IdleTick ==
  /\ ctl.idle /\ ctl.resume = 0
  /\ ctl.seq < MaxAttempts
  /\ \E o \in ResumeFromIdle(ctl, env) : FromCommand(o)
  /\ UNCHANGED <<fetched, done, events, pipe, commands, edits, wish, heard>>

(* Another client appends, deletes, inserts or moves a row.  Its request   *)
(* then owes the runtime a synchronization, which realigns the staged      *)
(* branch unless the row was only appended.                                *)
Deleted(rows, i) == SubSeq(rows, 1, i - 1) \o SubSeq(rows, i + 1, Len(rows))
Inserted(rows, i, item) == SubSeq(rows, 1, i - 1) \o <<item>> \o SubSeq(rows, i, Len(rows))

Edit ==
  /\ edits < MaxEdits /\ InputLeft
  /\ edits' = edits + 1
  /\ \/ \E item \in {env.born + 1} \cap Items :
          env' = [env EXCEPT !.rows = Append(@, item), !.born = item,
                             !.owed = IF @ = "align" THEN @ ELSE "append"]
     \/ \E i \in DOMAIN env.rows :
          env' = [env EXCEPT !.rows = Deleted(@, i), !.owed = "align"]
     \/ \E i \in DOMAIN env.rows, item \in {env.born + 1} \cap Items :
          env' = [env EXCEPT !.rows = Inserted(@, i, item), !.born = item, !.owed = "align"]
     \/ \E i, j \in DOMAIN env.rows :
          /\ i # j
          /\ env' = [env EXCEPT !.rows = Inserted(Deleted(@, i), j, @[i]), !.owed = "align"]
  /\ UNCHANGED <<ctl, fetched, urgent, regular, done, events, pipe, commands, wish, heard>>

(* A synchronization reads the rows under the lifecycle lock and hands     *)
(* them to the loop in a command of its own, either at once or after the   *)
(* controller has changed the queue once more.                             *)
CanDeliver ==
  /\ "starting" \in Races \/ (ctl.play = 0 /\ ctl.resume = 0)
  /\ "skipping" \in Races \/ ctl.skip = None

Synchronize ==
  /\ fetched = None /\ env.owed # "none"
  /\ CanDeliver
  /\ FromCommand(Reload(ctl, [env EXCEPT !.owed = "none"], env.rows, env.owed = "align"))
  /\ UNCHANGED <<fetched, done, events, pipe, commands, edits, wish, heard>>

FetchRows ==
  /\ "stale" \in Races
  /\ fetched = None /\ env.owed # "none"
  /\ fetched' = [rows |-> env.rows, align |-> env.owed = "align"]
  /\ env' = [env EXCEPT !.owed = "none"]
  /\ UNCHANGED <<ctl, urgent, regular, done, events, pipe, commands, edits, wish, heard>>

DeliverRows ==
  /\ fetched # None
  /\ CanDeliver
  /\ fetched' = None
  /\ FromCommand(Reload(ctl, env, fetched.rows, fetched.align))
  /\ UNCHANGED <<done, events, pipe, commands, edits, wish, heard>>

(* The start path refreshes a live runtime without touching the staged     *)
(* branch.                                                                 *)
Resync ==
  /\ fetched = None /\ ctl.q.items # env.rows
  /\ FromCommand(Reload(ctl, env, env.rows, FALSE))
  /\ UNCHANGED <<fetched, done, events, pipe, commands, edits, wish, heard>>

HandleCompletion(d) ==
  /\ d \in done
  /\ "overtake" \in Races \/ d.type # "switch" \/ \A x \in done : x.type # "start"
  /\ done' = done \ {d}
  /\ \E o \in Completed(ctl, env, d) : FromCommand(o)
  /\ UNCHANGED <<fetched, events, pipe, commands, edits, wish, heard>>

HandleEvent ==
  /\ events # <<>>
  /\ events' = Tail(events)
  /\ \E o \in Handled(ctl, env, Head(events)) : FromEvent(o)
  /\ UNCHANGED <<fetched, done, pipe, commands, edits, wish, heard>>

-----------------------------------------------------------------------------
(* The executor: one operation at a time, event-driven ones first.         *)

NextOp == IF urgent # <<>> THEN Head(urgent) ELSE Head(regular)

Take ==
  /\ urgent # <<>> \/ regular # <<>>
  /\ IF urgent # <<>>
     THEN urgent' = Tail(urgent) /\ UNCHANGED regular
     ELSE regular' = Tail(regular) /\ UNCHANGED urgent
  /\ UNCHANGED <<ctl, fetched, commands, edits, wish>>

Answer(op, ok) == done' = done \cup {[type |-> op.type, id |-> op.id, ok |-> ok]}

Adopted(op, next) ==
  [gen |-> op.gen, epoch |-> op.epoch, cur |-> op.cur, next |-> next,
   ended |-> FALSE, dead |-> {}]

(* A branch is staged only when the duration of the current one is known.  *)
Staged(op) == {op.next} \cup (IF "endless" \in Races THEN {None} ELSE {})

Accepts(op) ==
  CASE op.type = "start"  -> ~ OnAir
    [] op.type = "switch" -> /\ OnAir
                             /\ pipe.plan.gen = op.gen - 1
                             /\ pipe.plan.cur = op.old
                             /\ pipe.plan.epoch = op.epoch
    [] op.type = "roll"   -> /\ OnAir
                             /\ pipe.plan.gen = op.gen
                             /\ pipe.plan.cur = op.cur
                             /\ pipe.plan.next = op.old

Replace ==
  /\ Take
  /\ NextOp.type \in {"start", "switch"}
  /\ Accepts(NextOp)
  /\ Answer(NextOp, TRUE)
  /\ \E next \in Staged(NextOp) :
       pipe' = [state |-> IF OnAir THEN pipe.state ELSE "Playing", plan |-> Adopted(NextOp, next)]
  /\ heard' = IF OnAir THEN heard \cup {pipe.plan.cur} ELSE heard
  /\ UNCHANGED <<env, events>>

Roll ==
  /\ Take
  /\ NextOp.type = "roll"
  /\ Accepts(NextOp)
  /\ Answer(NextOp, TRUE)
  /\ pipe' = [pipe EXCEPT !.plan.next = NextOp.next]
  /\ UNCHANGED <<env, events, heard>>

StalePlan ==
  /\ Take
  /\ NextOp.type \in {"start", "switch", "roll"}
  /\ ~ Accepts(NextOp)
  /\ Answer(NextOp, FALSE)
  /\ UNCHANGED <<env, events, pipe, heard>>

(* A failed initial replacement tears the pipeline down; a failed switch   *)
(* or roll leaves the old plan.  When a candidate turned out undecodable,  *)
(* its error is reported as well.                                          *)
Undecodable(op) ==
  CASE op.type = "start"  -> {op.cur, op.next} \ {None}
    [] op.type = "roll"   -> {op.next} \ {None}
    [] op.type = "switch" -> IF "early" \in Races THEN {op.cur, op.next} \ {None} ELSE {}

OperationFails ==
  /\ Take
  /\ NextOp.type \in {"start", "switch", "roll"}
  /\ Accepts(NextOp)
  /\ CanFail /\ env' = [env EXCEPT !.faults = @ - 1]
  /\ Answer(NextOp, FALSE)
  /\ pipe' = IF OnAir THEN pipe ELSE Off
  /\ \/ UNCHANGED events
     \/ \E track \in Undecodable(NextOp) :
          events' = Append(events, Event("DecodeFailed", NextOp.gen, track))
  /\ UNCHANGED heard

(* The current track ends while its replacement is being prepared, which   *)
(* cancels the replacement.                                                *)
SwitchCancelled ==
  /\ Take
  /\ NextOp.type = "switch"
  /\ Accepts(NextOp)
  /\ Audible /\ pipe.plan.next = None
  /\ "ending" \in Races \/ ctl.state # "Paused"
  /\ Answer(NextOp, FALSE)
  /\ pipe' = [pipe EXCEPT !.plan.ended = TRUE]
  /\ events' = Append(events, Event("CurrentEos", pipe.plan.gen, pipe.plan.cur))
  /\ UNCHANGED <<env, heard>>

(* Resuming or pausing a pipeline without a plan has no audible effect,    *)
(* and may or may not change the state GStreamer reports.                  *)
Reached(target) ==
  IF pipe.state = "Broken" THEN {"Broken"}
  ELSE {target} \cup (IF OnAir THEN {} ELSE {pipe.state})

TogglePipeline ==
  /\ Take
  /\ NextOp.type \in {"resume", "pause"}
  /\ \E state \in Reached(IF NextOp.type = "resume" THEN "Playing" ELSE "Paused") :
       pipe' = [pipe EXCEPT !.state = state]
  /\ UNCHANGED <<env, done, events, heard>>

(* The state change is refused; after a switch the pipeline is torn down.  *)
ToggleFails ==
  /\ "toggle" \in Races
  /\ Take
  /\ CanFail /\ env' = [env EXCEPT !.faults = @ - 1]
  /\ \/ NextOp.type \in {"resume", "pause"} /\ UNCHANGED <<done, pipe>>
     \/ NextOp.type = "switch" /\ Accepts(NextOp) /\ Answer(NextOp, FALSE) /\ pipe' = Off
  /\ UNCHANGED <<events, heard>>

StopPipeline ==
  /\ Take
  /\ NextOp.type = "stop"
  /\ pipe' = Off
  /\ UNCHANGED <<env, done, events, heard>>

Execute ==
  \/ Replace \/ Roll \/ StalePlan \/ OperationFails \/ SwitchCancelled
  \/ TogglePipeline \/ ToggleFails \/ StopPipeline

-----------------------------------------------------------------------------
(* What the pipeline does by itself.                                       *)

Due == "early" \in Races \/ (OnAir /\ pipe.plan.gen = ctl.gen /\ ctl.resume = 0)

Emit(ev) ==
  /\ events' = Append(events, ev)
  /\ UNCHANGED <<ctl, fetched, urgent, regular, done, commands, edits, wish>>

HandOver ==
  /\ Audible /\ Due
  /\ pipe.plan.next # None
  /\ pipe' = [pipe EXCEPT !.plan.cur = pipe.plan.next, !.plan.next = None]
  /\ heard' = heard \cup {pipe.plan.cur}
  /\ Emit(Event("Handover", pipe.plan.gen, pipe.plan.next))
  /\ UNCHANGED env

TrackEnds ==
  /\ Audible /\ Due
  /\ pipe.plan.next = None \/ pipe.plan.cur \in pipe.plan.dead
  /\ "ending" \in Races \/ ctl.state # "Paused"
  /\ pipe' = [pipe EXCEPT !.plan.ended = TRUE]
  /\ Emit(Event("CurrentEos", pipe.plan.gen, pipe.plan.cur))
  /\ UNCHANGED <<env, heard>>

(* A branch reports once that it cannot be decoded.                        *)
BranchBreaks ==
  /\ Audible
  /\ CanFail /\ env' = [env EXCEPT !.faults = @ - 1]
  /\ "ending" \in Races \/ ctl.state # "Paused"
  /\ \E track \in {pipe.plan.cur, pipe.plan.next} \ ({None} \cup pipe.plan.dead) :
       /\ Due \/ track # pipe.plan.cur
       /\ pipe' = [pipe EXCEPT !.plan.dead = @ \cup {track}]
       /\ Emit(Event("DecodeFailed", pipe.plan.gen, track))
  /\ UNCHANGED heard

(* A broken pipeline makes no progress until it is stopped.                *)
PipelineBreaks ==
  /\ Audible
  /\ CanFail /\ env' = [env EXCEPT !.faults = @ - 1]
  /\ pipe' = [pipe EXCEPT !.state = "Broken"]
  /\ Emit([type |-> "FatalPipeline", gen |-> 0, epoch |-> pipe.plan.epoch, track |-> None])
  /\ UNCHANGED heard

Next ==
  \/ Play \/ Pause \/ SkipCommand \/ IdleTick
  \/ Edit \/ Synchronize \/ FetchRows \/ DeliverRows \/ Resync
  \/ \E d \in done : HandleCompletion(d)
  \/ HandleEvent
  \/ Execute
  \/ HandOver \/ TrackEnds \/ BranchBreaks \/ PipelineBreaks

Spec == Init /\ [][Next]_vars

(* The loop, the executor, the poll timer and the clients' requests keep   *)
(* running, and a track does not play forever.  Nobody has to give a       *)
(* command or edit the queue, and nothing has to fail.                     *)
FairSpec ==
  /\ Spec
  /\ WF_vars(\E d \in done : HandleCompletion(d))
  /\ WF_vars(HandleEvent)
  /\ WF_vars(Execute)
  /\ WF_vars(HandOver \/ TrackEnds)
  /\ WF_vars(IdleTick)
  /\ WF_vars(Synchronize)

-----------------------------------------------------------------------------
(* Correctness.                                                            *)

Identities == Items \cup {None}
Ops == {"start", "switch", "roll", "resume", "pause", "stop"}

(* Every variable stays in its type. *)
TypeOK ==
  /\ ctl.state \in {"Stopped", "Paused", "Playing"}
  /\ {ctl.gen, ctl.epoch, ctl.resume, ctl.play, ctl.playFailed, ctl.playDone,
      ctl.playBySkip, ctl.seq, commands, edits} \subseteq Nat
  /\ ctl.q \in Queues
  /\ Rows(env.rows) \subseteq Items
  /\ env.faults \in 0..MaxFaults
  /\ \A lane \in {urgent, regular} : \A i \in DOMAIN lane :
       lane[i].type \in Ops /\ {lane[i].cur, lane[i].next, lane[i].old} \subseteq Identities
  /\ \A d \in done : d.type \in {"start", "switch", "roll"} /\ d.id \in 1..ctl.seq
  /\ pipe.state \in {"Stopped", "Paused", "Playing", "Broken"}
  /\ OnAir => pipe.plan.cur \in Items /\ pipe.plan.next \in Identities
  /\ wish \in {"none", "play", "pause"}
  /\ heard \subseteq Items

(* Every channel between controller and pipeline is empty.                 *)
Quiet == urgent = <<>> /\ regular = <<>> /\ done = {} /\ events = <<>>

(* No attempt is ever left behind: whatever the controller waits for       *)
(* (pending_play, pending_resume, pending_skip, pending_realign) is queued *)
(* at the executor or on its way back, through stops, fatal errors and     *)
(* superseded attempts.                                                    *)
Underway ==
  (UNION {{lane[i].id : i \in DOMAIN lane} : lane \in {urgent, regular}}) \cup {d.id : d \in done}

NothingPendingForever ==
  /\ {ctl.play, ctl.resume} \subseteq Underway \cup {0}
  /\ ctl.skip = None \/ ctl.skip.id \in Underway
  /\ ctl.realign = None \/ ctl.realign.id \in Underway

(* The controller's picture is the pipeline's: when nothing travels, both  *)
(* have the same track of the same generation, on the air exactly when     *)
(* the controller says Playing, and planned_next is the branch staged,     *)
(* whatever skips, rolls, handovers and decode failures crossed.           *)
OneStation ==
  /\ TypeOK
  /\ Quiet => /\ ctl.state = "Playing" <=> (OnAir /\ pipe.state = "Playing")
              /\ ctl.state = "Stopped" <=> ~ OnAir
              /\ OnAir => /\ pipe.plan.gen = ctl.gen /\ pipe.plan.cur = ctl.q.cur
                          /\ pipe.plan.next = Key(ctl.planned)

(* No queue edit is lost on the way to the pipeline: once every edit has   *)
(* been delivered, and if nothing failed, the branch reload and the        *)
(* completions left staged is the successor the queue names now.           *)
Settled == Quiet /\ fetched = None /\ env.owed = "none" /\ env.faults = MaxFaults

StagedIsSuccessor ==
  Settled /\ OnAir
    => pipe.plan.next \in {None, EffectiveSuccessor(ctl), SuccessorAfter(ctl.q, ctl.q.cur)}

(* A track that ended does not stay on the air as dead air: its            *)
(* deferred_terminal led to a skip or a stop, unless the one retry was     *)
(* spent as well.                                                          *)
EndedTrackMovesOn ==
  Quiet /\ OnAir /\ ctl.state = "Playing"
    => \/ ~ pipe.plan.ended
       \/ ctl.ended # None /\ ctl.ended.retries = 0

(* After pause() nothing starts by itself, neither from an operation that  *)
(* was in flight nor from the idle poll.                                   *)
PauseHolds ==
  wish = "pause" => ~ ctl.idle /\ (Quiet => ~ (OnAir /\ pipe.state = "Playing"))

(* A row is on the air at most once: the anchors that staged branches and  *)
(* skips carry never hand back an identity that was already consumed.      *)
NeverReplayed ==
  [][OnAir' /\ (~ OnAir \/ pipe'.plan.cur # pipe.plan.cur) => pipe'.plan.cur \notin heard]_vars

(* A station told to play goes on until every row of its queue was on the  *)
(* air, rows added while it idles included.                                *)
Drained == Rows(env.rows) \subseteq heard \cup ctl.q.used

PlaysOn == wish = "play" ~> (wish # "play" \/ Drained \/ env.faults # MaxFaults)
=============================================================================
