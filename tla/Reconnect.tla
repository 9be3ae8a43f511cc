----------------------------- MODULE Reconnect -----------------------------
(***************************************************************************)
(* The output of one station and its recovery: the reconnect chains of     *)
(* streamer/controller.rs, the reconnect actions and timers of             *)
(* streamer/runtime.rs and the sink of streamer/gstreamer/mod.rs.          *)
(*                                                                         *)
(* A chain is a token.  The controller starts one when the output drops,   *)
(* when Play meets a broken output or when the user asks; the executor     *)
(* shows an operation's token to the shared atomics just before the        *)
(* pipeline runs, and marks the chain completed before the loop hears of   *)
(* it.  Executor.tla has the lanes and the channel, Station.tla what the   *)
(* station plays; here a station has an output identity and a sink.        *)
(***************************************************************************)
EXTENDS Naturals, Sequences, FiniteSets, SequencesExt

CONSTANTS
  Capacity,     \* room in the command channel (32 in the code)
  MaxCommands,  \* bound: commands of the user
  MaxDrops,     \* bound: breaks of the output
  MaxFaults     \* bound: failed reads of the target and failed operations

ASSUME ReconnectAssumption ==
  /\ Capacity \in Nat \ {0}
  /\ {MaxCommands, MaxDrops, MaxFaults} \subseteq Nat

VARIABLES
  ctl,       \* the controller: state, output identity, active token, the
             \* output it is bound to, the output known to be broken, the
             \* attempt in flight, and whether the chain is a manual one
  tokens,    \* tokens and identities handed out
  shared,    \* ReconnectShared: the token and the completed token
  commands,  \* the command channel
  events,    \* outputs whose break the loop has yet to hear of
  urgent,    \* the executor's lanes
  regular,
  running,   \* the reconnect the executor works on, and how far it is
  timers,    \* retries that sleep
  results,   \* outcomes of plays and skips on their way to the channel
  pipe,      \* the pipeline: its state, identity and sink
  unheard,   \* history: why nobody works on the break of the output, if so
  left       \* what is left of the bounds

vars == <<ctl, tokens, shared, commands, events, urgent, regular, running, timers,
          results, pipe, unheard, left>>

Idle == [at |-> "idle", token |-> 0, out |-> 0, manual |-> FALSE]

Init ==
  /\ ctl = [state |-> "stopped", out |-> 0, token |-> 0, bound |-> 0, known |-> 0,
            pending |-> "none", manual |-> FALSE]
  /\ tokens = [token |-> 0, out |-> 0]
  /\ shared = [token |-> 0, done |-> 0]
  /\ commands = <<>>
  /\ events = <<>>
  /\ urgent = <<>>
  /\ regular = <<>>
  /\ running = Idle
  /\ timers = <<>>
  /\ results = <<>>
  /\ pipe = [state |-> "stopped", out |-> 0, sink |-> "up"]
  /\ unheard = "no"
  /\ left = [commands |-> MaxCommands, drops |-> MaxDrops, faults |-> MaxFaults]

Spend(kind) == left[kind] > 0 /\ left' = [left EXCEPT ![kind] = @ - 1]

Msg(type, token, out, ok) == [type |-> type, token |-> token, out |-> out, ok |-> ok]
Op(type, out) == [type |-> type, token |-> 0, out |-> out, manual |-> FALSE]
ReconnectOp(token, out, manual) ==
  [type |-> "reconnect", token |-> token, out |-> out, manual |-> manual]

-----------------------------------------------------------------------------
(* The chains, as the controller keeps them.  Each operator gives the next *)
(* value of ctl; the shared atomics follow.                                *)

Unchained(c) == [c EXCEPT !.token = 0, !.bound = 0, !.manual = FALSE]

EndChain(c, token) == IF c.token = token THEN Unchained(c) ELSE c

Succeeded(c, token) ==
  IF c.token # token THEN c
  ELSE [Unchained(c) EXCEPT !.known = IF @ = c.bound THEN 0 ELSE @]

(* A new identity ends the chain of the old one and its mark. *)
NewIdentity(c, out) == [Unchained(c) EXCEPT !.out = out, !.known = 0]

(* invalidate is a store of zero; nothing is stored for a chain that goes on. *)
Share(c) == shared' = IF c.token = 0 /\ c # ctl THEN [token |-> 0, done |-> 0] ELSE shared

Completed == shared.token # 0 /\ shared.done = shared.token
(* Mutant: a chain that is completed but not yet heard of takes the break. *)
CoveredUntilHeard == ctl.token # 0 /\ ctl.bound = ctl.out

Covered == ctl.token # 0 /\ ctl.bound = ctl.out /\ ~ Completed

(* begin_reconnect_chain, then the target is read from the database: an    *)
(* operation for the lane, or, when the read fails, a retry.               *)
BeginChain(c, lane) ==
  LET token == tokens.token + 1
  IN  /\ ctl' = [c EXCEPT !.token = token, !.bound = c.out, !.manual = FALSE]
      /\ tokens' = [tokens EXCEPT !.token = token]
      /\ shared' = [token |-> token, done |-> 0]
      /\ \/ /\ urgent' = IF lane = "urgent" THEN Append(urgent, ReconnectOp(token, c.out, FALSE))
                         ELSE urgent
            /\ regular' = IF lane = "regular"
                          THEN regular \o <<Op("resume", c.out), ReconnectOp(token, c.out, FALSE)>>
                          ELSE regular
            /\ UNCHANGED <<timers, left>>
         \/ /\ timers' = Append(timers, [token |-> token, out |-> c.out])
            /\ Spend("faults")
            /\ regular' = IF lane = "regular" THEN Append(regular, Op("resume", c.out)) ELSE regular
            /\ UNCHANGED urgent

(* Why a break of the output, if there is one, is nobody's work any more;  *)
(* only a start brings back a pipeline that was stopped by force.          *)
Lost(why) == IF pipe.sink = "down" /\ unheard # "forced" THEN why ELSE unheard
Broken(out, why) == unheard' = IF Contains(events, out) THEN unheard ELSE Lost(why)

-----------------------------------------------------------------------------
(* Commands.                                                               *)

Play ==
  IF ctl.state = "stopped"
  THEN IF ctl.pending # "none"
       THEN UNCHANGED <<ctl, tokens, shared, urgent, regular, timers, unheard, left>>
       ELSE /\ tokens' = [tokens EXCEPT !.out = @ + 1]
            /\ ctl' = [NewIdentity(ctl, tokens'.out) EXCEPT !.pending = "play"]
            /\ Share(ctl')
            /\ regular' = Append(regular, Op("start", tokens'.out))
            /\ UNCHANGED <<urgent, timers, unheard, left>>
  ELSE LET c == [ctl EXCEPT !.state = "playing"]
       IN  /\ IF c.known = c.out /\ c.known # 0 /\ ~ Covered
              THEN BeginChain(c, "regular")
              ELSE /\ ctl' = c
                   /\ regular' = Append(regular, Op("resume", c.out))
                   /\ UNCHANGED <<tokens, shared, urgent, timers, left>>
           /\ unheard' = IF c.known = c.out /\ c.known # 0 /\ ~ Covered
                         THEN Lost("no") ELSE unheard

Pause ==
  /\ ctl' = [Unchained(ctl) EXCEPT !.state = "paused",
                                   !.pending = IF @ = "play" THEN "none" ELSE @]
  /\ Share(ctl')
  /\ regular' = Append(regular, Op("pause", ctl.out))
  /\ UNCHANGED <<tokens, urgent, timers, unheard, left>>

(* A skip changes the identity when its outcome is committed. *)
Skip ==
  /\ IF ctl.state = "stopped" \/ ctl.pending # "none"
     THEN UNCHANGED <<ctl, tokens, regular>>
     ELSE /\ tokens' = [tokens EXCEPT !.out = @ + 1]
          /\ ctl' = [ctl EXCEPT !.pending = "skip"]
          /\ regular' = Append(regular, Op("switch", tokens'.out))
  /\ UNCHANGED <<shared, urgent, timers, unheard, left>>

(* The target is read first; a failed read leaves the chain alone. *)
ManualReconnect ==
  \/ LET token == tokens.token + 1
     IN  /\ tokens' = [tokens EXCEPT !.token = token]
         /\ ctl' = [ctl EXCEPT !.token = token, !.bound = ctl.out, !.manual = TRUE]
         /\ shared' = [token |-> token, done |-> 0]
         /\ regular' = Append(regular, ReconnectOp(token, ctl.out, TRUE))
         /\ UNCHANGED <<urgent, timers, unheard, left>>
  \/ /\ Spend("faults")
     /\ UNCHANGED <<ctl, tokens, shared, urgent, regular, timers, unheard>>

(* Mutant: a target that cannot be read ends the attempts, not the chain.  *)
RetryReconnectOnce(m) ==
  \/ /\ m.token # ctl.token \/ m.out # ctl.out \/ ctl.state # "playing"
     /\ ctl' = EndChain(ctl, m.token)
     /\ Share(ctl')
     /\ UNCHANGED <<tokens, urgent, regular, timers, unheard, left>>
  \/ /\ m.token = ctl.token /\ m.out = ctl.out /\ ctl.state = "playing"
     /\ \/ regular' = Append(regular, ReconnectOp(m.token, m.out, FALSE)) /\ UNCHANGED left
        \/ UNCHANGED regular /\ Spend("faults")
     /\ UNCHANGED <<ctl, tokens, shared, urgent, timers, unheard>>

RetryReconnect(m) ==
  \/ /\ m.token # ctl.token \/ m.out # ctl.out \/ ctl.state # "playing"
     /\ ctl' = EndChain(ctl, m.token)
     /\ Share(ctl')
     /\ UNCHANGED <<tokens, urgent, regular, timers, unheard, left>>
  \/ /\ m.token = ctl.token /\ m.out = ctl.out /\ ctl.state = "playing"
     /\ \/ /\ regular' = Append(regular, ReconnectOp(m.token, m.out, FALSE))
           /\ UNCHANGED <<timers, left>>
        \/ /\ timers' = Append(timers, [token |-> m.token, out |-> m.out])
           /\ Spend("faults")
           /\ UNCHANGED regular
     /\ UNCHANGED <<ctl, tokens, shared, urgent, unheard>>

ReconnectFinished(m) ==
  /\ ctl' = IF m.ok THEN Succeeded(ctl, m.token) ELSE EndChain(ctl, m.token)
  /\ Share(ctl')
  /\ unheard' = IF m.token = ctl.token /\ ~ m.ok THEN Lost("manual") ELSE unheard
  /\ UNCHANGED <<tokens, urgent, regular, timers, left>>

PlayResult(m) ==
  /\ ctl' = IF ctl.pending # "play" THEN ctl
            ELSE [ctl EXCEPT !.pending = "none", !.state = IF m.ok THEN "playing" ELSE "stopped"]
  /\ IF m.ok /\ ctl.known # 0 THEN Broken(0, "identity") ELSE UNCHANGED unheard
  /\ UNCHANGED <<tokens, shared, urgent, regular, timers, left>>

SkipResult(m) ==
  /\ ctl' = IF ctl.pending # "skip" THEN ctl
            ELSE IF m.ok THEN [NewIdentity(ctl, m.out) EXCEPT !.pending = "none"]
            ELSE [ctl EXCEPT !.pending = "none"]
  /\ Share(ctl')
  /\ IF m.ok THEN Broken(m.out, "identity") ELSE UNCHANGED unheard
  /\ UNCHANGED <<tokens, urgent, regular, timers, left>>

Shutdown ==
  /\ ctl' = [Unchained(ctl) EXCEPT !.state = "stopped", !.known = 0, !.pending = "shutdown"]
  /\ Share(ctl')
  /\ urgent' = Append(urgent, Op("shutdown", 0))
  /\ UNCHANGED <<tokens, regular, timers, unheard, left>>

Alive == ctl.pending # "shutdown"

Handle ==
  /\ Alive
  /\ commands # <<>>
  /\ commands' = Tail(commands)
  /\ LET m == Head(commands)
     IN  CASE m.type = "play"      -> Play
           [] m.type = "pause"     -> Pause
           [] m.type = "skip"      -> Skip
           [] m.type = "reconnect" -> ManualReconnect
           [] m.type = "shutdown"  -> Shutdown
           [] m.type = "retry"     -> RetryReconnect(m)
           [] m.type = "finished"  -> ReconnectFinished(m)
           [] m.type = "played"    -> PlayResult(m)
           [] m.type = "skipped"   -> SkipResult(m)
  /\ UNCHANGED <<events, running, results, pipe>>

(* The chain's reconnect is over, and its success has yet to be heard of.  *)
Succeeding ==
  \/ running.at \in {"done", "ok"} /\ running.token = ctl.token
  \/ \E i \in DOMAIN commands :
       commands[i].type = "finished" /\ commands[i].ok /\ commands[i].token = ctl.token

(* SinkDisconnected.  A break of the output while a chain works on it      *)
(* belongs to that chain, unless the executor has completed it.            *)
HandleDrop ==
  /\ Alive
  /\ events # <<>>
  /\ events' = Tail(events)
  /\ LET out == Head(events)
         c == [ctl EXCEPT !.known = out]
     IN  IF out # ctl.out
         THEN /\ unheard' = Lost("identity")
              /\ UNCHANGED <<ctl, tokens, shared, urgent, regular, timers, left>>
         ELSE IF ctl.state # "playing" \/ Covered
         THEN /\ ctl' = c
              /\ unheard' = IF ctl.token = 0 \/ ~ Succeeding THEN unheard
                            ELSE IF ctl.state # "playing" THEN Lost("paused")
                            ELSE IF ~ Completed THEN Lost("raced") ELSE unheard
              /\ UNCHANGED <<tokens, shared, urgent, regular, timers, left>>
         ELSE BeginChain(c, "urgent") /\ UNCHANGED unheard
  /\ UNCHANGED <<commands, running, results, pipe>>

-----------------------------------------------------------------------------
(* The executor and the pipeline.                                          *)

NextOp == IF urgent # <<>> THEN Head(urgent) ELSE Head(regular)
TakeOp ==
  /\ running.at = "idle"
  /\ \/ urgent # <<>> /\ urgent' = Tail(urgent) /\ UNCHANGED regular
     \/ urgent = <<>> /\ regular # <<>> /\ regular' = Tail(regular) /\ UNCHANGED urgent

(* The token is compared just before the pipeline runs; from here on the   *)
(* errors of the sink are suppressed.                                      *)
BeginReconnect ==
  /\ TakeOp
  /\ NextOp.type = "reconnect"
  /\ running' = IF NextOp.token = shared.token
                THEN [at |-> "run", token |-> NextOp.token, out |-> NextOp.out,
                      manual |-> NextOp.manual]
                ELSE Idle
  /\ UNCHANGED <<ctl, tokens, shared, commands, events, timers, results, pipe, unheard, left>>

(* An initial replace, an active one, a change of state: one step here.    *)
Operate ==
  /\ TakeOp
  /\ NextOp.type \notin {"reconnect", "shutdown"}
  /\ CASE NextOp.type \in {"start", "switch"} ->
            LET type == IF NextOp.type = "start" THEN "played" ELSE "skipped"
            IN  \/ /\ (NextOp.type = "start") = (pipe.out = 0)
                   /\ pipe' = [pipe EXCEPT !.out = NextOp.out,
                                 !.state = IF NextOp.type = "start" THEN "playing" ELSE @]
                   /\ results' = Append(results, Msg(type, 0, NextOp.out, TRUE))
                   /\ UNCHANGED left
                \/ /\ results' = Append(results, Msg(type, 0, NextOp.out, FALSE))
                   /\ UNCHANGED pipe
                   /\ IF (NextOp.type = "start") = (pipe.out = 0) THEN Spend("faults")
                      ELSE UNCHANGED left
       [] NextOp.type \in {"resume", "pause"} ->
            /\ pipe' = [pipe EXCEPT !.state = IF NextOp.type = "pause" THEN "paused" ELSE "playing"]
            /\ UNCHANGED <<results, left>>
  /\ UNCHANGED <<ctl, tokens, shared, commands, events, running, timers, unheard>>

(* The barrier stops the pipeline and discards what is still buffered. *)
RunShutdown ==
  /\ running.at = "idle"
  /\ urgent # <<>> /\ Head(urgent).type = "shutdown"
  /\ urgent' = <<>>
  /\ regular' = <<>>
  /\ pipe' = [pipe EXCEPT !.state = "stopped", !.out = 0]
  /\ UNCHANGED <<ctl, tokens, shared, commands, events, running, timers, results, unheard, left>>

(* The sink breaks.  The bus reports it while a plan is active and no      *)
(* reconnect is at work.                                                   *)
Drop ==
  /\ pipe.sink = "up"
  /\ pipe.state # "stopped"
  /\ Spend("drops")
  /\ pipe' = [pipe EXCEPT !.sink = "down"]
  /\ IF running.at \in {"run", "guarded"} \/ pipe.out = 0
     THEN /\ unheard' = IF pipe.out = 0 THEN "noplan" ELSE "suppressed"
          /\ UNCHANGED events
     ELSE events' = Append(events, pipe.out) /\ UNCHANGED unheard
  /\ UNCHANGED <<ctl, tokens, shared, commands, urgent, regular, running, timers, results>>

(* GStreamerPipeline::reconnect: a stopped pipeline only takes the         *)
(* settings; otherwise the sink is a new one, or the old one is back, or   *)
(* the way back fails too and the pipeline is stopped by force.            *)
RunReconnect ==
  /\ running.at = "run"
  /\ \/ /\ running' = [running EXCEPT !.at = "guarded"]
        /\ IF pipe.state = "stopped" THEN UNCHANGED <<pipe, unheard>>
           ELSE pipe' = [pipe EXCEPT !.sink = "up"] /\ unheard' = "no"
        /\ UNCHANGED left
     \/ /\ pipe.state # "stopped"
        /\ Spend("faults")
        /\ running' = [running EXCEPT !.at = "failed"]
        /\ \/ UNCHANGED <<pipe, unheard>>
           \/ /\ pipe.state = "playing"
              /\ pipe' = [pipe EXCEPT !.state = "stopped", !.out = 0]
              /\ unheard' = "forced"
  /\ UNCHANGED <<ctl, tokens, shared, commands, events, urgent, regular, timers, results>>

(* The guard is dropped; only then the executor marks the chain.           *)
ReleaseGuard ==
  /\ running.at = "guarded"
  /\ running' = [running EXCEPT !.at = "done"]
  /\ UNCHANGED <<ctl, tokens, shared, commands, events, urgent, regular, timers, results,
                 pipe, unheard, left>>

MarkCompleted ==
  /\ \/ running.at = "done"
     \/ running.at = "failed" /\ running.manual
  /\ shared' = [shared EXCEPT !.done = running.token]
  /\ running' = [running EXCEPT !.at = IF running.at = "done" THEN "ok" ELSE "ended"]
  /\ UNCHANGED <<ctl, tokens, commands, events, urgent, regular, timers, results, pipe,
                 unheard, left>>

SendFinished ==
  /\ running.at \in {"ok", "ended"}
  /\ Len(commands) < Capacity
  /\ commands' = IF Alive
                 THEN Append(commands, Msg("finished", running.token, running.out, running.at = "ok"))
                 ELSE commands
  /\ running' = Idle
  /\ UNCHANGED <<ctl, tokens, shared, events, urgent, regular, timers, results, pipe,
                 unheard, left>>

ScheduleRetry ==
  /\ running.at = "failed"
  /\ ~ running.manual
  /\ timers' = Append(timers, [token |-> running.token, out |-> running.out])
  /\ running' = Idle
  /\ UNCHANGED <<ctl, tokens, shared, commands, events, urgent, regular, results, pipe,
                 unheard, left>>

-----------------------------------------------------------------------------
(* Senders.                                                                *)

Room == Alive /\ Len(commands) < Capacity

Request ==
  /\ Room
  /\ Spend("commands")
  /\ \E type \in {"play", "pause", "skip", "reconnect", "shutdown"} :
       commands' = Append(commands, Msg(type, 0, 0, TRUE))
  /\ UNCHANGED <<ctl, tokens, shared, events, urgent, regular, running, timers, results,
                 pipe, unheard>>

Fire ==
  /\ Room
  /\ \E i \in DOMAIN timers :
       /\ commands' = Append(commands, Msg("retry", timers[i].token, timers[i].out, TRUE))
       /\ timers' = RemoveAt(timers, i)
  /\ UNCHANGED <<ctl, tokens, shared, events, urgent, regular, running, results, pipe,
                 unheard, left>>

Forward ==
  /\ Room
  /\ results # <<>>
  /\ commands' = Append(commands, Head(results))
  /\ results' = Tail(results)
  /\ UNCHANGED <<ctl, tokens, shared, events, urgent, regular, running, timers, pipe,
                 unheard, left>>

Execute ==
  \/ BeginReconnect \/ Operate \/ RunShutdown \/ RunReconnect \/ ReleaseGuard
  \/ MarkCompleted \/ SendFinished \/ ScheduleRetry

Next == Handle \/ HandleDrop \/ Execute \/ Drop \/ Request \/ Fire \/ Forward

Spec == Init /\ [][Next]_vars

(* The loop serves both channels, the executor and the forwarders run, and *)
(* a timer fires.                                                          *)
Fairness ==
  /\ WF_vars(Handle) /\ WF_vars(HandleDrop) /\ WF_vars(Execute)
  /\ WF_vars(Fire) /\ WF_vars(Forward)

FairSpec == Spec /\ Fairness

-----------------------------------------------------------------------------
(* What recovery promises.                                                 *)

Behind(s, token) == Cardinality({i \in DOMAIN s : s[i].token = token})

InFlight(token) ==
  Behind(urgent, token) + Behind(regular, token) + Behind(timers, token)
    + Behind(commands, token) + (IF running.token = token THEN 1 ELSE 0)

(* Every variable stays in its type, no channel beyond its room.           *)
TypeOK ==
  /\ ctl.state \in {"stopped", "playing", "paused"}
  /\ ctl.pending \in {"none", "play", "skip", "shutdown"}
  /\ {ctl.out, ctl.known, ctl.bound} \subseteq 0 .. tokens.out
  /\ {ctl.token, shared.token, shared.done} \subseteq 0 .. tokens.token
  /\ Len(commands) <= Capacity
  /\ running.at \in {"idle", "run", "guarded", "done", "failed", "ok", "ended"}
  /\ unheard \in {"no", "suppressed", "identity", "raced", "paused", "manual", "forced", "noplan"}

(* "The controller never keeps an active token with no operation or timer  *)
(* behind it", and never two: a chain with nobody behind it would swallow  *)
(* every later break of its output, and one with two would reconnect twice *)
(* and halve the backoff.                                                  *)
ActiveChainHasOneWorker == ctl.token # 0 => InFlight(ctl.token) = 1

(* A chain that retries by itself lives only while the station plays the   *)
(* output it was started for: a timer never wakes a paused or stopped      *)
(* station, nor reconnects an output that was replaced.                    *)
AutomaticChainIsForThePlayingOutput ==
  ctl.token # 0 /\ ~ ctl.manual => ctl.state = "playing" /\ ctl.bound = ctl.out

(* The two together: at most one worker acts for a chain, and only for the *)
(* output the station plays to.                                            *)
ChainsAreSound ==
  TypeOK /\ ActiveChainHasOneWorker /\ AutomaticChainIsForThePlayingOutput

(* The break of a playing station's output ends in a new connection,       *)
(* whatever fails on the way, unless one of the windows in unheard         *)
(* swallowed it: the sink's errors are suppressed while it is replaced; a  *)
(* skip or a start changes the identity; the executor has yet to mark the  *)
(* chain that succeeded, or the station is paused and the loop has yet to  *)
(* hear of it; a manual attempt failed; the pipeline was stopped by force. *)
OutputRecovers ==
  <>[](ctl.state = "playing" => pipe.sink = "up" \/ unheard # "no")
=============================================================================
