------------------------------ MODULE Executor ------------------------------
(***************************************************************************)
(* The runtime of one station as its callers see it                        *)
(* (backend/src/streamer/runtime.rs, driver.rs): a bounded FIFO command    *)
(* channel, the loop that handles one command or pipeline event at a time, *)
(* the two lanes of pipeline operations, the executor that runs them one   *)
(* by one through the pipeline driver, and the forwarder tasks that carry  *)
(* the outcome of an operation back to the loop as a new command.          *)
(*                                                                         *)
(* What an operation does to the pipeline is left out; what matters here   *)
(* is who runs, who waits for whom, and who is told what.                  *)
(***************************************************************************)
EXTENDS Naturals, Sequences, SequencesExt

CONSTANTS
    Calls,     \* calls of the runtime's handle, and pipeline events
    None,      \* no call
    Capacity   \* room in the command channel (32 in the code)

ASSUME ExecutorAssumption ==
    /\ None \notin Calls
    /\ Capacity \in Nat \ {0}

\* "plain" is an operation whose caller the executor answers itself (pause,
\* an output change); "play" and "skip" are observed operations, committed
\* by the loop when their outcome comes back; "status" makes the loop wait
\* for a snapshot of the pipeline; "event" comes from the pipeline.
Kinds == {"plain", "play", "skip", "reconnect", "status", "shutdown", "event"}

Observed == {"play", "skip"}

VARIABLES
    kind,       \* what each call asks for
    sending,    \* calls that wait for room in the command channel
    commands,   \* the command channel: a request, or what became of one
    events,     \* the channel of pipeline events
    loop,       \* "running", "snapshot" while it awaits one, "stopped"
    asking,     \* the status call it awaits the snapshot for
    chain,      \* the reconnect whose token is the current one
    urgent,     \* operations driven by the pipeline, and the barrier
    regular,    \* operations driven by commands
    executor,   \* what the executor is doing
    current,    \* the operation it does it for
    driver,     \* who the pipeline driver serves, in order of arrival
    outcome,    \* the outcome a forwarder carries
    forwarding, \* observed operations whose forwarder is still alive
    ran,        \* operations that reached the pipeline
    committed,  \* completions the loop has handled
    stopped,    \* "yes" once the pipeline executed the stop
    answer      \* what each caller was told

vars == <<kind, sending, commands, events, loop, asking, chain, urgent,
          regular, executor, current, driver, outcome, forwarding, ran,
          committed, stopped, answer>>

callers == <<kind, sending>>
awaits == <<loop, asking>>
inputs == <<commands, events>>
lanes == <<urgent, regular>>
pipeline == <<driver, ran, stopped>>

Messages == [type : {"request", "completion"}, call : Calls]

Request(c) == [type |-> "request", call |-> c]
Completion(c) == [type |-> "completion", call |-> c]

\* Every variable stays in its type.
TypeOK ==
    /\ kind \in [Calls -> Kinds \cup {"none"}]
    /\ sending \subseteq Calls
    /\ commands \in Seq(Messages) /\ Len(commands) <= Capacity
    /\ events \in Seq(Calls)
    /\ loop \in {"running", "snapshot", "stopped"}
    /\ asking \in Calls \cup {None} /\ chain \in Calls \cup {None}
    /\ urgent \in Seq(Calls) /\ regular \in Seq(Calls)
    /\ executor \in {"idle", "running", "completing", "stopping", "terminal"}
    /\ current \in Calls \cup {None}
    /\ driver \in Seq({"executor", "loop"})
    /\ outcome \in [Calls -> {"none", "ok", "err"}]
    /\ forwarding \subseteq Calls
    /\ ran \subseteq Calls /\ committed \subseteq Calls
    /\ stopped \in {"no", "yes"}
    /\ answer \in [Calls -> {"none", "ok", "err", "left"}]

Init ==
    /\ kind = [c \in Calls |-> "none"]
    /\ sending = {} /\ forwarding = {} /\ ran = {} /\ committed = {}
    /\ commands = << >> /\ events = << >>
    /\ urgent = << >> /\ regular = << >> /\ driver = << >>
    /\ loop = "running" /\ executor = "idle" /\ stopped = "no"
    /\ asking = None /\ chain = None /\ current = None
    /\ outcome = [c \in Calls |-> "none"]
    /\ answer = [c \in Calls |-> "none"]

\* The callers told at once: those in `calls` not told anything yet.
Told(calls, how) ==
    [c \in Calls |-> IF c \in calls /\ answer[c] = "none" THEN how ELSE answer[c]]

----------------------------------------------------------------------------
(* Callers. *)

\* A caller starts to send its command.
Call(c, k) ==
    /\ kind[c] = "none"
    /\ k # "event"
    /\ kind' = [kind EXCEPT ![c] = k]
    /\ sending' = sending \cup {c}
    /\ UNCHANGED <<inputs, awaits, chain, lanes, executor, current, pipeline,
                   outcome, forwarding, committed, answer>>

\* The pipeline reports an event; that channel has no bound, and none is
\* left once the loop ended.
Emit(c) ==
    /\ kind[c] = "none"
    /\ stopped = "no"
    /\ kind' = [kind EXCEPT ![c] = "event"]
    /\ events' = IF loop = "stopped" THEN events ELSE Append(events, c)
    /\ UNCHANGED <<sending, commands, awaits, chain, lanes, executor, current,
                   pipeline, outcome, forwarding, committed, answer>>

\* The command is admitted, or the channel turns out to be closed.
Admit(c) ==
    /\ c \in sending
    /\ sending' = sending \ {c}
    /\ \/ /\ loop # "stopped"
          /\ Len(commands) < Capacity
          /\ commands' = Append(commands, Request(c))
          /\ UNCHANGED answer
       \/ /\ loop = "stopped"
          /\ answer' = Told({c}, "err")
          /\ UNCHANGED commands
    /\ UNCHANGED <<kind, events, awaits, chain, lanes, executor, current,
                   pipeline, outcome, forwarding, committed>>

\* A caller leaves before its command was admitted: no command stays behind.
Leave(c) ==
    /\ c \in sending
    /\ sending' = sending \ {c}
    /\ answer' = Told({c}, "left")
    /\ UNCHANGED <<kind, inputs, awaits, chain, lanes, executor, current,
                   pipeline, outcome, forwarding, committed>>

----------------------------------------------------------------------------
(* The loop. *)

NextCommand == Head(commands)

\* An operation goes to the regular lane; who observes it is set up first.
HandleOperation ==
    /\ loop = "running" /\ commands # << >>
    /\ NextCommand.type = "request"
    /\ LET c == NextCommand.call IN
       /\ kind[c] \in {"plain", "play", "skip", "reconnect"}
       /\ regular' = Append(regular, c)
       /\ forwarding' = IF kind[c] \in Observed THEN forwarding \cup {c}
                                                ELSE forwarding
       /\ chain' = IF kind[c] = "reconnect" THEN c ELSE chain
    /\ commands' = Tail(commands)
    /\ UNCHANGED <<callers, events, awaits, urgent, executor, current, pipeline,
                   outcome, committed, answer>>

\* The controller refuses the command (nothing to play, no configuration).
HandleRefusal ==
    /\ loop = "running" /\ commands # << >>
    /\ NextCommand.type = "request"
    /\ kind[NextCommand.call] \in {"play", "skip", "reconnect"}
    /\ answer' = Told({NextCommand.call}, "err")
    /\ commands' = Tail(commands)
    /\ UNCHANGED <<callers, events, awaits, chain, lanes, executor, current,
                   pipeline, outcome, forwarding, committed>>

\* Status asks the driver for a snapshot and waits for it.
HandleStatus ==
    /\ loop = "running" /\ commands # << >>
    /\ NextCommand.type = "request"
    /\ kind[NextCommand.call] = "status"
    /\ loop' = "snapshot"
    /\ asking' = NextCommand.call
    /\ driver' = Append(driver, "loop")
    /\ commands' = Tail(commands)
    /\ UNCHANGED <<callers, events, chain, lanes, executor, current, outcome,
                   forwarding, ran, committed, stopped, answer>>

Snapshot ==
    /\ loop = "snapshot"
    /\ driver # << >> /\ Head(driver) = "loop"
    /\ driver' = Tail(driver)
    /\ loop' = "running"
    /\ asking' = None
    /\ answer' = Told({asking}, "ok")
    /\ UNCHANGED <<callers, inputs, chain, lanes, executor, current, outcome,
                   forwarding, ran, committed, stopped>>

\* Skips whose caller is still remembered by the controller.
SkipsInFlight ==
    {c \in Calls : /\ kind[c] = "skip"
                   /\ c \in forwarding \/ Completion(c) \in ToSet(commands)}

\* Mutant: the barrier queues up behind the regular operations.
HandleShutdownRegular ==
    /\ loop = "running" /\ commands # << >>
    /\ NextCommand.type = "request"
    /\ kind[NextCommand.call] = "shutdown"
    /\ loop' = "stopped"
    /\ chain' = None
    /\ regular' = Append(regular, NextCommand.call)
    /\ answer' = Told({m.call : m \in {n \in ToSet(Tail(commands)) : n.type = "request"}}
                        \cup SkipsInFlight, "err")
    /\ commands' = << >>
    /\ events' = << >>
    /\ UNCHANGED <<callers, asking, urgent, executor, current, pipeline,
                   outcome, forwarding, committed>>

\* Shutdown submits the barrier and ends the loop: the channel is closed,
\* what it still holds is dropped, and so are the replies of skips the
\* controller had not committed yet.
HandleShutdown ==
    /\ loop = "running" /\ commands # << >>
    /\ NextCommand.type = "request"
    /\ kind[NextCommand.call] = "shutdown"
    /\ loop' = "stopped"
    /\ chain' = None
    /\ urgent' = Append(urgent, NextCommand.call)
    /\ answer' = Told({m.call : m \in {n \in ToSet(Tail(commands)) : n.type = "request"}}
                        \cup SkipsInFlight, "err")
    /\ commands' = << >>
    /\ events' = << >>
    /\ UNCHANGED <<callers, asking, regular, executor, current, pipeline,
                   outcome, forwarding, committed>>

\* A completion is committed; the caller of a skip is answered from here.
HandleCompletion ==
    /\ loop = "running" /\ commands # << >>
    /\ NextCommand.type = "completion"
    /\ LET c == NextCommand.call IN
       /\ committed' = committed \cup {c}
       /\ answer' = IF kind[c] = "skip" THEN Told({c}, outcome[c]) ELSE answer
    /\ commands' = Tail(commands)
    /\ UNCHANGED <<callers, events, awaits, chain, lanes, executor, current,
                   pipeline, outcome, forwarding>>

\* The operation a pipeline event asks for goes to the urgent lane.
HandleEvent ==
    /\ loop = "running" /\ events # << >>
    /\ urgent' = Append(urgent, Head(events))
    /\ events' = Tail(events)
    /\ UNCHANGED <<callers, commands, awaits, chain, regular, executor, current,
                   pipeline, outcome, forwarding, committed, answer>>

----------------------------------------------------------------------------
(* The executor. *)

\* The urgent lane goes first.
NextTask == IF urgent # << >> THEN Head(urgent) ELSE Head(regular)

Pending == executor = "idle" /\ (urgent # << >> \/ regular # << >>)

TakeTask ==
    /\ urgent' = IF urgent # << >> THEN Tail(urgent) ELSE urgent
    /\ regular' = IF urgent # << >> THEN regular ELSE Tail(regular)

Superseded(c) == kind[c] = "reconnect" /\ chain # c

\* An operation is handed to the driver.
StartOperation ==
    /\ Pending
    /\ kind[NextTask] # "shutdown"
    /\ ~Superseded(NextTask)
    /\ TakeTask
    /\ executor' = "running"
    /\ current' = NextTask
    /\ driver' = Append(driver, "executor")
    /\ UNCHANGED <<callers, inputs, awaits, chain, outcome, forwarding, ran,
                   committed, stopped, answer>>

\* A reconnect whose chain was superseded never touches the pipeline.
SkipSuperseded ==
    /\ Pending
    /\ Superseded(NextTask)
    /\ TakeTask
    /\ answer' = Told({NextTask}, "err")
    /\ UNCHANGED <<callers, inputs, awaits, chain, executor, current, pipeline,
                   outcome, forwarding, committed>>

\* Mutant: what is discarded is acknowledged like a second barrier.
StartStopAcknowledges ==
    /\ Pending
    /\ kind[NextTask] = "shutdown"
    /\ executor' = "stopping"
    /\ current' = NextTask
    /\ driver' = Append(driver, "executor")
    /\ urgent' = << >> /\ regular' = << >>
    /\ LET refused == (ToSet(urgent) \cup ToSet(regular)) \ {NextTask} IN
       /\ outcome' = [c \in Calls |-> IF c \in refused \cap forwarding
                                      THEN "err" ELSE outcome[c]]
       /\ answer' = Told({c \in refused : kind[c] \in {"plain", "reconnect"}}, "ok")
    /\ UNCHANGED <<callers, inputs, awaits, chain, forwarding, ran, committed,
                   stopped>>

\* Mutant: what is discarded is forgotten.
StartStopForgetsCallers ==
    /\ Pending
    /\ kind[NextTask] = "shutdown"
    /\ executor' = "stopping"
    /\ current' = NextTask
    /\ driver' = Append(driver, "executor")
    /\ urgent' = << >> /\ regular' = << >>
    /\ LET refused == (ToSet(urgent) \cup ToSet(regular)) \ {NextTask} IN
       outcome' = [c \in Calls |-> IF c \in refused \cap forwarding
                                   THEN "err" ELSE outcome[c]]
    /\ UNCHANGED <<callers, inputs, awaits, chain, forwarding, ran, committed,
                   stopped, answer>>

\* The barrier: everything buffered on both lanes is refused, then the
\* pipeline is stopped.
StartStop ==
    /\ Pending
    /\ kind[NextTask] = "shutdown"
    /\ executor' = "stopping"
    /\ current' = NextTask
    /\ driver' = Append(driver, "executor")
    /\ urgent' = << >> /\ regular' = << >>
    /\ LET refused == (ToSet(urgent) \cup ToSet(regular)) \ {NextTask} IN
       /\ outcome' = [c \in Calls |-> IF c \in refused \cap forwarding
                                      THEN "err" ELSE outcome[c]]
       /\ answer' = Told({c \in refused : kind[c] \in {"plain", "reconnect"}}, "err")
    /\ UNCHANGED <<callers, inputs, awaits, chain, forwarding, ran, committed,
                   stopped>>

\* The driver answers the executor's operation.
OperationDone(how) ==
    /\ executor = "running"
    /\ driver # << >> /\ Head(driver) = "executor"
    /\ driver' = Tail(driver)
    /\ ran' = ran \cup {current}
    /\ outcome' = [outcome EXCEPT ![current] = how]
    /\ IF kind[current] = "reconnect"
       THEN executor' = "completing" /\ UNCHANGED <<current, answer>>
       ELSE /\ executor' = "idle"
            /\ current' = None
            /\ answer' = IF kind[current] = "plain" THEN Told({current}, how)
                                                    ELSE answer
    /\ UNCHANGED <<callers, inputs, awaits, chain, lanes, forwarding, committed,
                   stopped>>

\* The executor sends the completion of a reconnect itself, waiting for room
\* in the command channel, and only then answers the caller.
CompleteReconnect ==
    /\ executor = "completing"
    /\ \/ /\ loop # "stopped"
          /\ Len(commands) < Capacity
          /\ commands' = Append(commands, Completion(current))
       \/ loop = "stopped" /\ UNCHANGED commands
    /\ answer' = Told({current}, outcome[current])
    /\ executor' = "idle"
    /\ current' = None
    /\ UNCHANGED <<callers, events, awaits, chain, lanes, pipeline, outcome,
                   forwarding, committed>>

\* The pipeline executed the stop; the executor is terminal.
StopDone(how) ==
    /\ executor = "stopping"
    /\ driver # << >> /\ Head(driver) = "executor"
    /\ driver' = Tail(driver)
    /\ stopped' = "yes"
    /\ executor' = "terminal"
    /\ current' = None
    /\ answer' = Told({current}, how)
    /\ UNCHANGED <<callers, inputs, awaits, chain, lanes, outcome, forwarding,
                   ran, committed>>

----------------------------------------------------------------------------
(* Forwarders. *)

\* The outcome becomes a command; the caller of a play is answered after it
\* entered the channel, the caller of a skip by the loop.
Forward(c) ==
    /\ c \in forwarding
    /\ outcome[c] # "none"
    /\ forwarding' = forwarding \ {c}
    /\ \/ /\ loop # "stopped"
          /\ Len(commands) < Capacity
          /\ commands' = Append(commands, Completion(c))
       \/ loop = "stopped" /\ UNCHANGED commands
    /\ answer' = IF kind[c] = "play" THEN Told({c}, outcome[c]) ELSE answer
    /\ UNCHANGED <<callers, events, awaits, chain, lanes, executor, current,
                   pipeline, outcome, committed>>

----------------------------------------------------------------------------
LoopStep ==
    \/ HandleOperation \/ HandleRefusal \/ HandleStatus \/ Snapshot
    \/ HandleShutdown \/ HandleCompletion \/ HandleEvent

ExecutorStep ==
    \/ StartOperation \/ SkipSuperseded \/ StartStop \/ CompleteReconnect
    \/ \E how \in {"ok", "err"} : OperationDone(how) \/ StopDone(how)

\* Everyone was served and nothing is left to do.
Quiet ==
    /\ \A c \in Calls : kind[c] # "none"
    /\ sending = {} /\ forwarding = {} /\ driver = << >>
    /\ commands = << >> /\ events = << >> /\ urgent = << >> /\ regular = << >>
    /\ executor \in {"idle", "terminal"} /\ loop # "snapshot"
    /\ UNCHANGED vars

Next ==
    \/ \E c \in Calls : \/ \E k \in Kinds : Call(c, k)
                        \/ Emit(c) \/ Admit(c) \/ Leave(c) \/ Forward(c)
    \/ LoopStep
    \/ ExecutorStep
    \/ Quiet

Spec == Init /\ [][Next]_vars

\* tokio polls the loop, the executor, the driver and every sender that can
\* make progress, and the pipeline answers every operation.  Each call is made
\* once, so nobody can be overtaken for ever and weak fairness is enough.
Fairness ==
    /\ WF_vars(LoopStep) /\ WF_vars(ExecutorStep)
    /\ \A c \in Calls : WF_vars(Admit(c)) /\ WF_vars(Forward(c))

FairSpec == Spec /\ Fairness

----------------------------------------------------------------------------
(* What callers may rely on. *)

Answered(c) == answer[c] \in {"ok", "err"}

\* A regular operation still buffered when the station is told to shut down
\* is never started: the barrier overtakes it and then discards it.
ShutdownOvertakesCommands ==
    [][loop = "stopped" /\ current' \notin {current, None} =>
          kind[current'] \in {"event", "shutdown"}]_vars

\* Success is only ever reported for what the pipeline did: not for an
\* operation that was discarded, superseded or dropped with its channel.
SuccessMeansRan ==
    \A c \in Calls :
        answer[c] = "ok" /\ kind[c] \in {"plain", "play", "skip", "reconnect"} =>
            c \in ran /\ outcome[c] = "ok"

\* The ordering contract of runtime.rs: when a caller learns what became of
\* its play, skip or reconnect, the completion is already in front of any
\* command it may send next.
CompletionPrecedesAnswer ==
    \A c \in Calls :
        Answered(c) /\ c \in ran /\ kind[c] \in Observed \cup {"reconnect"} =>
            c \in committed \/ Completion(c) \in ToSet(commands) \/ loop = "stopped"

\* "No operation can ever run after the stop": whatever was submitted before
\* or after the barrier is gone when the pipeline has stopped.
ShutdownIsTerminal ==
    stopped = "yes" =>
        /\ loop = "stopped" /\ executor = "terminal"
        /\ urgent = << >> /\ regular = << >> /\ driver = << >>

\* What callers are told is how it is, in front of a shutdown and behind it.
AnswersHold ==
    TypeOK /\ SuccessMeansRan /\ CompletionPrecedesAnswer /\ ShutdownIsTerminal

\* Nobody waits for ever: not in a full channel, not behind a shutdown, not
\* for a completion that was dropped on its way.
EveryCallerAnswered ==
    \A c \in Calls : c \in sending ~> answer[c] # "none"
=============================================================================
