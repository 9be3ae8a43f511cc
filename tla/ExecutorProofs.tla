--------------------------- MODULE ExecutorProofs ---------------------------
(***************************************************************************)
(* What callers of a station's runtime may rely on, for any number of      *)
(* calls and any capacity of the command channel.                          *)
(*                                                                         *)
(* The properties follow from where a call can be: until its outcome is    *)
(* known it is in one place only, on its way from the caller through the   *)
(* channel and a lane to the executor.                                     *)
(***************************************************************************)
EXTENDS Executor, TLAPS

Lane == ToSet(urgent) \cup ToSet(regular)

Requested(c) == Request(c) \in ToSet(commands)

\* Nothing was done for the call yet.
Fresh(c) ==
    /\ c \notin Lane /\ c \notin ran
    /\ current # c
    /\ outcome[c] = "none" /\ answer[c] = "none"

\* No element of T occurs twice.
Unique(s, T) == \A i, j \in DOMAIN s : s[i] = s[j] /\ s[i] \in T => i = j

Requests == [type : {"request"}, call : Calls]

\* A call waits at one place and at one place only, and once.
PlaceInv ==
    \A c \in Calls :
        /\ kind[c] = "none" =>
              Fresh(c) /\ c \notin sending /\ ~Requested(c) /\ c \notin ToSet(events)
        /\ c \in sending =>
              Fresh(c) /\ ~Requested(c) /\ kind[c] \notin {"none", "event"}
        /\ Requested(c) => Fresh(c) /\ kind[c] \notin {"none", "event"}
        /\ c \in ToSet(events) => Fresh(c) /\ kind[c] = "event"

\* Who waits for a completion is past the channel.
UnderwayInv ==
    \A c \in Calls :
        c \in forwarding \/ Completion(c) \in ToSet(commands) =>
            /\ c \notin sending /\ ~Requested(c)
            /\ kind[c] \notin {"none", "event"}

UniqueInv ==
    /\ Unique(commands, Requests)
    /\ Unique(events, Calls)
    /\ Unique(urgent, Calls)
    /\ Unique(regular, Calls)

\* What is buffered on a lane has not been done, and is of that lane.
LaneInv ==
    /\ \A c \in ToSet(urgent) : kind[c] \in {"event", "shutdown"}
    /\ \A c \in ToSet(regular) : kind[c] \in {"plain", "play", "skip", "reconnect"}
    /\ \A c \in Lane : c \notin ran /\ outcome[c] = "none" /\ current # c

\* What the executor is at.
WorkInv ==
    /\ executor \in {"idle", "terminal"} <=> current = None
    /\ executor = "running" =>
          /\ kind[current] \in {"plain", "play", "skip", "reconnect", "event"}
          /\ current \notin ran /\ outcome[current] = "none"
    /\ executor = "completing" => kind[current] = "reconnect"
    /\ executor = "stopping" => kind[current] = "shutdown"

\* Nobody is told before it is done what became of an operation that a
\* completion will report, unless the loop has ended.
SilentInv ==
    \A c \in Calls :
        (c \in Lane \/ c = current) /\ kind[c] \in Observed \cup {"reconnect"} /\ Answered(c)
            => loop = "stopped"

\* An operation that succeeded reached the pipeline.
OutcomeInv == \A c \in Calls : outcome[c] = "ok" => c \in ran

\* The driver serves the executor and the loop at most once at a time.
DriverInv ==
    /\ Unique(driver, {"executor", "loop"})
    /\ "executor" \in ToSet(driver) <=> executor \in {"running", "stopping"}
    /\ "loop" \in ToSet(driver) <=> loop = "snapshot"

\* The status call the loop waits for has left the channel.
AskInv ==
    loop = "snapshot" =>
        /\ asking \in Calls /\ kind[asking] = "status"
        /\ asking \notin sending /\ ~Requested(asking)

\* Once the loop has ended the barrier is on its way, and behind it nothing.
BarrierInv ==
    /\ loop = "stopped" =>
          \/ executor \in {"stopping", "terminal"}
          \/ \E c \in ToSet(urgent) : kind[c] = "shutdown"
    /\ \A c \in ToSet(urgent) : kind[c] = "shutdown" => loop = "stopped"
    /\ executor \in {"stopping", "terminal"} =>
          loop = "stopped" /\ urgent = << >> /\ regular = << >>
    /\ stopped = "yes" => executor = "terminal"

IInv ==
    /\ TypeOK /\ PlaceInv /\ UnderwayInv /\ UniqueInv /\ LaneInv /\ WorkInv /\ SilentInv
    /\ OutcomeInv /\ DriverInv /\ AskInv /\ BarrierInv
    /\ SuccessMeansRan /\ CompletionPrecedesAnswer

----------------------------------------------------------------------------
(* Queues. *)

LEMMA AppendElements ==
    ASSUME NEW S, NEW s \in Seq(S), NEW x \in S
    PROVE  /\ Append(s, x) \in Seq(S)
           /\ ToSet(Append(s, x)) = ToSet(s) \cup {x}
           /\ \A T : Unique(s, T) /\ (x \in T => x \notin ToSet(s)) => Unique(Append(s, x), T)
<1>1. /\ Append(s, x) \in Seq(S)
      /\ DOMAIN s = 1 .. Len(s) /\ DOMAIN Append(s, x) = 1 .. (Len(s) + 1) /\ Len(s) \in Nat
      /\ \A i \in DOMAIN s : Append(s, x)[i] = s[i]
      /\ Append(s, x)[Len(s) + 1] = x
  OBVIOUS
<1>2. /\ Len(s) + 1 \in DOMAIN Append(s, x)
      /\ \A i \in DOMAIN Append(s, x) : i \in DOMAIN s \/ i = Len(s) + 1
      /\ \A i \in DOMAIN s : i \in DOMAIN Append(s, x) /\ i # Len(s) + 1
  BY <1>1
<1>3. ToSet(Append(s, x)) = ToSet(s) \cup {x} BY <1>1, <1>2 DEF ToSet
<1>4. ASSUME NEW T, Unique(s, T), x \in T => x \notin ToSet(s)
      PROVE  Unique(Append(s, x), T)
  BY <1>1, <1>2, <1>4 DEF Unique, ToSet
<1> QED BY <1>1, <1>3, <1>4

LEMMA TailElements ==
    ASSUME NEW S, NEW s \in Seq(S), s # << >>
    PROVE  /\ Head(s) \in S /\ Tail(s) \in Seq(S)
           /\ Len(Tail(s)) + 1 = Len(s)
           /\ ToSet(s) = {Head(s)} \cup ToSet(Tail(s))
           /\ \A T : Unique(s, T) =>
                 Unique(Tail(s), T) /\ (Head(s) \in T => Head(s) \notin ToSet(Tail(s)))
<1>1. Len(s) \in Nat \ {0} /\ Head(s) = s[1] /\ DOMAIN s = 1 .. Len(s)
  OBVIOUS
<1>2. /\ Tail(s) \in Seq(S) /\ Len(Tail(s)) = Len(s) - 1
      /\ DOMAIN Tail(s) = 1 .. (Len(s) - 1)
      /\ \A i \in DOMAIN Tail(s) : Tail(s)[i] = s[i + 1]
  OBVIOUS
<1>3. ASSUME NEW i \in DOMAIN s PROVE i = 1 \/ (i - 1 \in DOMAIN Tail(s) /\ Tail(s)[i - 1] = s[i])
  BY <1>1, <1>2
<1>4. ASSUME NEW i \in DOMAIN Tail(s) PROVE i + 1 \in DOMAIN s /\ Tail(s)[i] = s[i + 1] /\ i + 1 # 1
  BY <1>1, <1>2
<1>5. ToSet(s) = {Head(s)} \cup ToSet(Tail(s))
  <2>1. ToSet(s) \subseteq {Head(s)} \cup ToSet(Tail(s)) BY <1>1, <1>3 DEF ToSet
  <2>2. Head(s) \in ToSet(s) BY <1>1 DEF ToSet
  <2>3. ToSet(Tail(s)) \subseteq ToSet(s) BY <1>4 DEF ToSet
  <2> QED BY <2>1, <2>2, <2>3
<1>6. ASSUME NEW T, Unique(s, T)
      PROVE  Unique(Tail(s), T) /\ (Head(s) \in T => Head(s) \notin ToSet(Tail(s)))
  <2>1. Unique(Tail(s), T)
    <3>1. \A i, j \in DOMAIN Tail(s) : i + 1 = j + 1 => i = j BY <1>1, <1>2
    <3> QED BY <1>4, <1>6, <3>1 DEF Unique
  <2>2. Head(s) \in T => Head(s) \notin ToSet(Tail(s))
    BY <1>1, <1>4, <1>6 DEF Unique, ToSet
  <2> QED BY <2>1, <2>2
<1> QED BY <1>1, <1>2, <1>5, <1>6

LEMMA EmptyElements ==
    /\ ToSet(<< >>) = {}
    /\ \A T : Unique(<< >>, T)
  BY DEF ToSet, Unique

LEMMA NonEmpty ==
    ASSUME NEW S, NEW s \in Seq(S), NEW x \in ToSet(s)
    PROVE  s # << >> /\ x \in S
  BY DEF ToSet

----------------------------------------------------------------------------
USE ExecutorAssumption

LEMMA MessageTypes ==
    \A c \in Calls : /\ Request(c) \in Messages /\ Completion(c) \in Messages
                     /\ Request(c) \in Requests /\ Completion(c) \notin Requests
  BY DEF Request, Completion, Messages, Requests

LEMMA RequestsDiffer ==
    \A c, d \in Calls : /\ Request(c) # Completion(d)
                        /\ Request(c) = Request(d) => c = d
                        /\ Completion(c) = Completion(d) => c = d
  BY DEF Request, Completion

\* A message is a request or a completion.
LEMMA MessageKinds ==
    ASSUME NEW m \in Messages
    PROVE  /\ m.call \in Calls
           /\ m.type = "request" => m = Request(m.call)
           /\ m.type = "completion" => m = Completion(m.call)
           /\ m.type \in {"request", "completion"}
  BY DEF Messages, Request, Completion

LEMMA ToldType ==
    ASSUME answer \in [Calls -> {"none", "ok", "err", "left"}],
           NEW calls, NEW how \in {"none", "ok", "err", "left"}
    PROVE  /\ Told(calls, how) \in [Calls -> {"none", "ok", "err", "left"}]
           /\ \A c \in Calls : Told(calls, how)[c] =
                 IF c \in calls /\ answer[c] = "none" THEN how ELSE answer[c]
  BY DEF Told

LEMMA InitIInv == Init => IInv
  BY ExecutorAssumption, EmptyElements
     DEF Init, IInv, TypeOK, PlaceInv, UnderwayInv, UniqueInv, LaneInv, WorkInv, SilentInv,
         OutcomeInv, DriverInv, AskInv, BarrierInv, SuccessMeansRan, CompletionPrecedesAnswer, Lane,
         Requested, Fresh, Answered, Messages

LEMMA CallIInv ==
    ASSUME IInv, NEW c \in Calls, NEW k \in Kinds, Call(c, k)
    PROVE  IInv'
<1> USE DEF IInv, Call, callers, inputs, awaits, lanes, pipeline
<1>1. TypeOK' BY DEF TypeOK
<1>2. kind[c] = "none" /\ kind'[c] = k /\ k \notin {"none", "event"}
      /\ \A d \in Calls \ {c} : kind'[d] = kind[d]
  BY DEF TypeOK, Kinds
<1>3. PlaceInv' BY <1>2 DEF PlaceInv, Fresh, Lane, Requested
<1>4. UniqueInv' BY DEF UniqueInv
<1>5. Fresh(c) /\ c \notin ToSet(events) /\ ~Requested(c) BY <1>2 DEF PlaceInv
<1>6. ToSet(urgent) \subseteq Calls /\ ToSet(regular) \subseteq Calls BY DEF TypeOK, ToSet
<1>7. LaneInv' /\ BarrierInv' BY <1>2, <1>5, <1>6 DEF LaneInv, Lane, BarrierInv, Fresh
<1>8. current \in Calls \cup {None} /\ asking \in Calls \cup {None} BY DEF TypeOK
<1>9. WorkInv' BY <1>2, <1>5, <1>8 DEF WorkInv, Fresh
<1>10. SilentInv' /\ SuccessMeansRan' /\ CompletionPrecedesAnswer'
  BY <1>2, <1>5, <1>8
     DEF SilentInv, SuccessMeansRan, CompletionPrecedesAnswer, Fresh, Lane, Answered
<1>11. OutcomeInv' /\ DriverInv' BY DEF OutcomeInv, DriverInv
<1>12. AskInv' BY <1>2, <1>8 DEF AskInv, Requested
<1>13. UnderwayInv' BY <1>2, <1>5 DEF UnderwayInv, Requested
<1> QED BY <1>1, <1>3, <1>4, <1>7, <1>9, <1>10, <1>11, <1>12, <1>13

LEMMA EmitIInv ==
    ASSUME IInv, NEW c \in Calls, Emit(c)
    PROVE  IInv'
<1> USE DEF IInv, Emit, callers, inputs, awaits, lanes, pipeline
<1>1. kind[c] = "none" /\ kind'[c] = "event" /\ \A d \in Calls \ {c} : kind'[d] = kind[d]
  BY DEF TypeOK
<1>2. Fresh(c) /\ c \notin ToSet(events) /\ ~Requested(c) /\ c \notin sending
  BY <1>1 DEF PlaceInv
<1>3. /\ events' \in Seq(Calls)
      /\ ToSet(events') \subseteq ToSet(events) \cup {c}
      /\ Unique(events', Calls)
  BY <1>2, AppendElements DEF TypeOK, UniqueInv
<1>4. TypeOK' BY <1>3 DEF TypeOK, Kinds
<1>5. PlaceInv' BY <1>1, <1>2, <1>3 DEF PlaceInv, Fresh, Lane, Requested
<1>6. UniqueInv' BY <1>3 DEF UniqueInv
<1>7. ToSet(urgent) \subseteq Calls /\ ToSet(regular) \subseteq Calls BY DEF TypeOK, ToSet
<1>8. LaneInv' /\ BarrierInv' BY <1>1, <1>2, <1>7 DEF LaneInv, Lane, BarrierInv, Fresh
<1>9. current \in Calls \cup {None} /\ asking \in Calls \cup {None} BY DEF TypeOK
<1>10. WorkInv' BY <1>1, <1>2, <1>9 DEF WorkInv, Fresh
<1>11. SilentInv' /\ SuccessMeansRan' /\ CompletionPrecedesAnswer'
  BY <1>1, <1>2, <1>9
     DEF SilentInv, SuccessMeansRan, CompletionPrecedesAnswer, Fresh, Lane, Answered, Observed
<1>12. OutcomeInv' /\ DriverInv' BY DEF OutcomeInv, DriverInv
<1>13. AskInv' BY <1>1, <1>9 DEF AskInv, Requested
<1>14. UnderwayInv' BY <1>1, <1>2 DEF UnderwayInv, Requested
<1> QED BY <1>4, <1>5, <1>6, <1>8, <1>10, <1>11, <1>12, <1>13, <1>14

\* A caller that was not admitted, or went away, is told so.
LEMMA AdmitLeaveIInv ==
    ASSUME IInv, NEW c \in Calls, Admit(c) \/ Leave(c)
    PROVE  IInv'
<1> USE DEF IInv, callers, inputs, awaits, lanes, pipeline
<1>1. c \in sending /\ sending' = sending \ {c}
      /\ UNCHANGED <<kind, events, awaits, chain, lanes, executor, current, pipeline,
                     outcome, forwarding, committed>>
  BY DEF Admit, Leave
<1>2. Fresh(c) /\ ~Requested(c) /\ kind[c] \notin {"none", "event"} /\ c \notin ToSet(events)
  BY <1>1 DEF PlaceInv
<1>3. /\ commands' \in Seq(Messages) /\ Len(commands') <= Capacity
      /\ \/ /\ ToSet(commands') = ToSet(commands) \cup {Request(c)}
            /\ answer' = answer
         \/ /\ commands' = commands
            /\ answer' \in [Calls -> {"none", "ok", "err", "left"}]
            /\ answer'[c] # "ok" /\ \A d \in Calls \ {c} : answer'[d] = answer[d]
            /\ loop = "stopped" \/ answer'[c] = "left"
      /\ Unique(commands', Requests)
  <2>1. CASE Leave(c) BY <1>2, <2>1, ToldType DEF Leave, TypeOK, UniqueInv, Fresh
  <2>2. CASE Admit(c) /\ loop = "stopped"
    BY <1>2, <2>2, ToldType DEF Admit, TypeOK, UniqueInv, Fresh
  <2>3. CASE Admit(c) /\ loop # "stopped"
    <3>1. /\ commands \in Seq(Messages) /\ Request(c) \in Messages
          /\ commands' = Append(commands, Request(c)) /\ answer' = answer
          /\ Len(commands) < Capacity
      BY <2>3, MessageTypes DEF Admit, TypeOK
    <3>2. Request(c) \notin ToSet(commands) /\ Unique(commands, Requests)
      BY <1>2 DEF Requested, UniqueInv
    <3> QED BY <3>1, <3>2, AppendElements
  <2> QED BY <2>1, <2>2, <2>3
<1>4. TypeOK' BY <1>1, <1>3 DEF TypeOK
<1>5. \A d \in Calls \ {c} : Request(d) # Request(c) BY RequestsDiffer
<1>6. PlaceInv' BY <1>1, <1>2, <1>3, <1>5 DEF PlaceInv, Fresh, Lane, Requested
<1>7. UniqueInv' BY <1>1, <1>3 DEF UniqueInv
<1>8. LaneInv' /\ BarrierInv' /\ WorkInv' /\ OutcomeInv' /\ DriverInv'
  BY <1>1 DEF LaneInv, Lane, BarrierInv, WorkInv, OutcomeInv, DriverInv
<1>9. SilentInv' /\ SuccessMeansRan' /\ CompletionPrecedesAnswer'
  BY <1>1, <1>2, <1>3
     DEF SilentInv, SuccessMeansRan, CompletionPrecedesAnswer, Fresh, Lane, Answered
<1>10. AskInv' BY <1>1, <1>3, <1>5 DEF AskInv, Requested
<1>11. UnderwayInv'
  BY <1>1, <1>3, <1>5, RequestsDiffer DEF UnderwayInv, Requested
<1> QED BY <1>4, <1>6, <1>7, <1>8, <1>9, <1>10, <1>11

\* A forwarder, and the executor for a reconnect, puts the completion into
\* the channel, unless it was closed, before it answers.
LEMMA CompletionIInv ==
    ASSUME IInv, NEW c \in Calls,
           \/ Forward(c)
           \/ CompleteReconnect /\ c = current
    PROVE  IInv'
<1> USE DEF IInv, callers, inputs, awaits, lanes, pipeline
<1>1. UNCHANGED <<kind, sending, events, awaits, chain, lanes, pipeline, outcome, committed>>
  BY DEF Forward, CompleteReconnect
<1>2. /\ commands' \in Seq(Messages) /\ Len(commands') <= Capacity
      /\ ToSet(commands') \in {ToSet(commands), ToSet(commands) \cup {Completion(c)}}
      /\ loop = "stopped" \/ Completion(c) \in ToSet(commands')
      /\ Unique(commands', Requests)
  <2>1. CASE commands' = commands /\ loop = "stopped" BY <2>1 DEF TypeOK, UniqueInv
  <2>2. CASE commands' = Append(commands, Completion(c)) /\ Len(commands) < Capacity
    <3>1. commands \in Seq(Messages) /\ Completion(c) \in Messages /\ Completion(c) \notin Requests
      BY MessageTypes DEF TypeOK
    <3>2. Unique(commands, Requests) BY DEF UniqueInv
    <3> QED BY <2>2, <3>1, <3>2, AppendElements DEF TypeOK
  <2> QED BY <2>1, <2>2 DEF Forward, CompleteReconnect
<1>3. /\ answer' \in [Calls -> {"none", "ok", "err", "left"}]
      /\ \A d \in Calls \ {c} : answer'[d] = answer[d]
      /\ answer'[c] # answer[c] => answer[c] = "none" /\ answer'[c] = outcome[c]
      /\ Forward(c) => answer' = answer \/ kind[c] = "play"
  <2>1. /\ outcome[c] \in {"none", "ok", "err", "left"}
        /\ answer \in [Calls -> {"none", "ok", "err", "left"}]
    BY DEF TypeOK
  <2>2. CASE answer' = answer BY <2>1, <2>2
  <2>3. CASE answer' = Told({c}, outcome[c]) /\ (Forward(c) => kind[c] = "play")
    BY <2>1, <2>3, ToldType
  <2> QED BY <2>2, <2>3 DEF Forward, CompleteReconnect
<1>4. ~Fresh(c) /\ c \notin Lane
  <2>1. CASE Forward(c) BY <2>1 DEF Forward, Fresh, LaneInv
  <2>2. CASE CompleteReconnect /\ c = current BY <2>2 DEF Fresh, LaneInv
  <2> QED BY <2>1, <2>2
<1>5. /\ \/ Forward(c) /\ executor' = executor /\ current' = current
         \/ /\ executor = "completing" /\ executor' = "idle"
            /\ current = c /\ current' = None /\ kind[c] = "reconnect"
      /\ forwarding' \subseteq forwarding
  BY DEF Forward, CompleteReconnect, WorkInv
<1>6. TypeOK' BY <1>1, <1>2, <1>3, <1>5 DEF TypeOK
<1>7. PlaceInv'
  <2>1. \A d \in Calls : Requested(d)' <=> Requested(d)
    BY <1>2, RequestsDiffer DEF Requested
  <2>2. \A d \in Calls \ {c} : Fresh(d) => Fresh(d)'
    BY <1>1, <1>3, <1>5 DEF Fresh, Lane
  <2> QED BY <1>1, <1>4, <2>1, <2>2 DEF PlaceInv
<1>8. UniqueInv' BY <1>1, <1>2 DEF UniqueInv
<1>9. LaneInv' BY <1>1, <1>5 DEF LaneInv, Lane, TypeOK, ToSet
<1>10. WorkInv' BY <1>1, <1>5 DEF WorkInv, TypeOK
<1>11. SilentInv'
  <2>1. CASE Forward(c)
    <3>1. c = current => kind[c] # "play" \/ answer' = answer
      BY <2>1 DEF Forward, WorkInv, TypeOK
    <3> QED BY <1>1, <1>3, <1>4, <1>5, <2>1, <3>1 DEF SilentInv, Lane, Answered
  <2>2. CASE current' = None BY <1>1, <1>3, <1>4, <1>5, <2>2 DEF SilentInv, Lane, Answered
  <2> QED BY <1>5, <2>1, <2>2
<1>12. OutcomeInv' BY <1>1 DEF OutcomeInv
<1>13. DriverInv' /\ BarrierInv' BY <1>1, <1>5 DEF DriverInv, BarrierInv
<1>14. SuccessMeansRan' BY <1>1, <1>3 DEF SuccessMeansRan, OutcomeInv
<1>15. CompletionPrecedesAnswer'
  BY <1>1, <1>2, <1>3 DEF CompletionPrecedesAnswer, Answered
<1>16. AskInv' BY <1>1, <1>2, RequestsDiffer DEF AskInv, Requested
<1>17. UnderwayInv'
  <2>1. c \notin sending /\ ~Requested(c) /\ kind[c] \notin {"none", "event"}
    BY <1>4, <1>5 DEF PlaceInv, UnderwayInv, Forward
  <2> QED BY <1>1, <1>2, <1>5, <2>1, RequestsDiffer DEF UnderwayInv, Requested
<1> QED
  BY <1>6, <1>7, <1>8, <1>9, <1>10, <1>11, <1>12, <1>13, <1>14, <1>15, <1>16, <1>17

----------------------------------------------------------------------------
(* The loop. *)

LEMMA HeadOfChannel ==
    ASSUME IInv, commands # << >>
    PROVE  /\ Tail(commands) \in Seq(Messages) /\ Len(Tail(commands)) <= Capacity
           /\ Unique(Tail(commands), Requests)
           /\ NextCommand \in Messages
           /\ ToSet(commands) = {NextCommand} \cup ToSet(Tail(commands))
           /\ NextCommand \in Requests => NextCommand \notin ToSet(Tail(commands))
<1>1. commands \in Seq(Messages) /\ Len(commands) <= Capacity /\ Len(commands) \in Nat
      /\ Unique(commands, Requests)
  BY DEF IInv, TypeOK, UniqueInv
<1>2. Len(Tail(commands)) + 1 = Len(commands) BY <1>1, TailElements
<1>3. Len(Tail(commands)) <= Capacity
  <2>1. Tail(commands) \in Seq(Messages) BY <1>1, TailElements
  <2> QED BY <1>1, <1>2, <2>1
<1> QED BY <1>1, <1>3, TailElements DEF NextCommand

LEMMA HeadRequest ==
    ASSUME IInv, commands # << >>, NextCommand.type = "request",
           NEW c, c = NextCommand.call
    PROVE  /\ c \in Calls /\ NextCommand = Request(c)
           /\ Fresh(c) /\ kind[c] \notin {"none", "event"}
           /\ c \notin sending /\ c \notin ToSet(events)
           /\ Request(c) \notin ToSet(Tail(commands))
           /\ ToSet(commands) = {Request(c)} \cup ToSet(Tail(commands))
<1>1. c \in Calls /\ NextCommand = Request(c) BY HeadOfChannel, MessageKinds
<1>2. Requested(c) /\ Request(c) \in Requests
  BY <1>1, HeadOfChannel, MessageTypes DEF Requested
<1> QED BY <1>1, <1>2, HeadOfChannel DEF IInv, PlaceInv

\* A request goes to its lane.
LEMMA OperationIInv ==
    ASSUME IInv, HandleOperation
    PROVE  IInv'
<1> DEFINE c == NextCommand.call
<1>1. /\ commands # << >> /\ NextCommand.type = "request" /\ loop = "running"
      /\ kind[c] \in {"plain", "play", "skip", "reconnect"}
      /\ commands' = Tail(commands)
      /\ regular' = Append(regular, c)
      /\ forwarding' \in {forwarding, forwarding \cup {c}}
      /\ chain' \in {chain, c}
      /\ UNCHANGED <<callers, events, awaits, urgent, executor, current, pipeline,
                     outcome, committed, answer>>
  BY DEF HandleOperation
<1>2. /\ c \in Calls /\ Fresh(c) /\ c \notin sending /\ c \notin ToSet(events)
      /\ Request(c) \notin ToSet(commands')
      /\ ToSet(commands) = {Request(c)} \cup ToSet(commands')
  BY <1>1, HeadRequest
<1> HIDE DEF c
<1>3. /\ commands' \in Seq(Messages) /\ Len(commands') <= Capacity
      /\ Unique(commands', Requests)
  BY <1>1, HeadOfChannel
<1>4. regular \in Seq(Calls) /\ Unique(regular, Calls) /\ c \notin ToSet(regular)
  BY <1>2 DEF IInv, TypeOK, UniqueInv, Fresh, Lane
<1>5. /\ regular' \in Seq(Calls) /\ Unique(regular', Calls)
      /\ ToSet(regular') = ToSet(regular) \cup {c}
  BY <1>1, <1>2, <1>4, AppendElements
<1> USE DEF IInv, callers, awaits, pipeline
<1>6. TypeOK' BY <1>1, <1>2, <1>3, <1>5 DEF TypeOK
<1>7. PlaceInv' BY <1>1, <1>2, <1>5 DEF PlaceInv, Requested, Fresh, Lane
<1>8. UniqueInv' BY <1>1, <1>3, <1>5 DEF UniqueInv
<1>9. LaneInv' BY <1>1, <1>2, <1>5 DEF LaneInv, Lane, Fresh
<1>10. WorkInv' /\ OutcomeInv' /\ DriverInv' /\ AskInv' /\ SuccessMeansRan'
  BY <1>1, <1>2 DEF WorkInv, OutcomeInv, DriverInv, AskInv, SuccessMeansRan, Requested
<1>11. SilentInv' BY <1>1, <1>2, <1>5 DEF SilentInv, Lane, Fresh, Answered
<1>12. BarrierInv' BY <1>1 DEF BarrierInv
<1>13. CompletionPrecedesAnswer'
  BY <1>1, <1>2, RequestsDiffer DEF CompletionPrecedesAnswer, Answered
<1>14. UnderwayInv' BY <1>1, <1>2, RequestsDiffer DEF UnderwayInv, Requested
<1> QED BY <1>6, <1>7, <1>8, <1>9, <1>10, <1>11, <1>12, <1>13, <1>14

\* A request that the controller refuses.
LEMMA RefusalIInv ==
    ASSUME IInv, HandleRefusal
    PROVE  IInv'
<1> DEFINE c == NextCommand.call
<1>1. /\ commands # << >> /\ NextCommand.type = "request"
      /\ commands' = Tail(commands)
      /\ answer' = Told({c}, "err")
      /\ UNCHANGED <<callers, events, awaits, chain, lanes, executor, current, pipeline,
                     outcome, forwarding, committed>>
  BY DEF HandleRefusal
<1>2. /\ c \in Calls /\ Fresh(c) /\ c \notin sending /\ c \notin ToSet(events)
      /\ Request(c) \notin ToSet(commands') /\ kind[c] # "none"
      /\ ToSet(commands) = {Request(c)} \cup ToSet(commands')
  BY <1>1, HeadRequest
<1> HIDE DEF c
<1>3. /\ commands' \in Seq(Messages) /\ Len(commands') <= Capacity
      /\ Unique(commands', Requests)
  BY <1>1, HeadOfChannel
<1>4. answer \in [Calls -> {"none", "ok", "err", "left"}] BY DEF IInv, TypeOK
<1>5. /\ answer' \in [Calls -> {"none", "ok", "err", "left"}] /\ answer'[c] # "ok"
      /\ \A d \in Calls \ {c} : answer'[d] = answer[d]
  BY <1>1, <1>2, <1>4, ToldType DEF Fresh
<1> USE DEF IInv, callers, awaits, pipeline, lanes
<1>6. TypeOK' BY <1>1, <1>3, <1>5 DEF TypeOK
<1>7. PlaceInv' BY <1>1, <1>2, <1>5 DEF PlaceInv, Requested, Fresh, Lane
<1>8. UniqueInv' BY <1>1, <1>3 DEF UniqueInv
<1>9. LaneInv' /\ BarrierInv' /\ WorkInv' /\ OutcomeInv' /\ DriverInv' /\ AskInv'
  BY <1>1, <1>2 DEF LaneInv, Lane, BarrierInv, WorkInv, OutcomeInv, DriverInv, AskInv, Requested
<1>10. SuccessMeansRan' BY <1>1, <1>5 DEF SuccessMeansRan
<1>11. SilentInv' BY <1>1, <1>2, <1>5 DEF SilentInv, Lane, Fresh, Answered
<1>12. CompletionPrecedesAnswer'
  BY <1>1, <1>2, <1>5, RequestsDiffer DEF CompletionPrecedesAnswer, Answered, Fresh
<1>13. UnderwayInv' BY <1>1, <1>2, RequestsDiffer DEF UnderwayInv, Requested
<1> QED BY <1>6, <1>7, <1>8, <1>9, <1>10, <1>11, <1>12, <1>13

\* The loop asks the driver for a snapshot and waits.
LEMMA StatusIInv ==
    ASSUME IInv, HandleStatus
    PROVE  IInv'
<1> DEFINE c == NextCommand.call
<1>1. /\ commands # << >> /\ NextCommand.type = "request" /\ kind[c] = "status"
      /\ loop = "running" /\ loop' = "snapshot" /\ asking' = c
      /\ driver' = Append(driver, "loop")
      /\ commands' = Tail(commands)
      /\ UNCHANGED <<callers, events, chain, lanes, executor, current, outcome,
                     forwarding, ran, committed, stopped, answer>>
  BY DEF HandleStatus
<1>2. /\ c \in Calls /\ c \notin sending
      /\ Request(c) \notin ToSet(commands')
      /\ ToSet(commands) = {Request(c)} \cup ToSet(commands')
  BY <1>1, HeadRequest
<1> HIDE DEF c
<1>3. /\ commands' \in Seq(Messages) /\ Len(commands') <= Capacity
      /\ Unique(commands', Requests)
  BY <1>1, HeadOfChannel
<1>4. /\ driver \in Seq({"executor", "loop"}) /\ Unique(driver, {"executor", "loop"})
      /\ "loop" \notin ToSet(driver)
  BY <1>1 DEF IInv, TypeOK, DriverInv
<1>5. /\ driver' \in Seq({"executor", "loop"}) /\ Unique(driver', {"executor", "loop"})
      /\ ToSet(driver') = ToSet(driver) \cup {"loop"}
  BY <1>1, <1>4, AppendElements
<1> USE DEF IInv, callers, lanes
<1>6. TypeOK' BY <1>1, <1>2, <1>3, <1>5 DEF TypeOK
<1>7. PlaceInv' BY <1>1, <1>2 DEF PlaceInv, Requested, Fresh, Lane
<1>8. UniqueInv' BY <1>1, <1>3 DEF UniqueInv
<1>9. LaneInv' /\ WorkInv' /\ OutcomeInv' /\ SuccessMeansRan'
  BY <1>1 DEF LaneInv, Lane, WorkInv, OutcomeInv, SuccessMeansRan
<1>10. DriverInv' BY <1>1, <1>5 DEF DriverInv
<1>11. AskInv' BY <1>1, <1>2 DEF AskInv, Requested
<1>12. BarrierInv' BY <1>1 DEF BarrierInv
<1>13. SilentInv' BY <1>1 DEF SilentInv, Lane, Answered
<1>14. CompletionPrecedesAnswer'
  BY <1>1, <1>2, RequestsDiffer DEF CompletionPrecedesAnswer, Answered
<1>15. UnderwayInv' BY <1>1, <1>2, RequestsDiffer DEF UnderwayInv, Requested
<1> QED BY <1>6, <1>7, <1>8, <1>9, <1>10, <1>11, <1>12, <1>13, <1>14, <1>15

LEMMA SnapshotIInv ==
    ASSUME IInv, Snapshot
    PROVE  IInv'
<1>1. /\ loop = "snapshot" /\ loop' = "running" /\ asking' = None
      /\ driver # << >> /\ Head(driver) = "loop" /\ driver' = Tail(driver)
      /\ answer' = Told({asking}, "ok")
      /\ UNCHANGED <<callers, inputs, chain, lanes, executor, current, outcome,
                     forwarding, ran, committed, stopped>>
  BY DEF Snapshot
<1>2. /\ asking \in Calls /\ kind[asking] = "status"
      /\ asking \notin sending /\ ~Requested(asking)
  BY <1>1 DEF IInv, AskInv
<1>3. driver \in Seq({"executor", "loop"}) /\ Unique(driver, {"executor", "loop"})
  BY DEF IInv, TypeOK, DriverInv
<1>4. /\ driver' \in Seq({"executor", "loop"}) /\ Unique(driver', {"executor", "loop"})
      /\ ToSet(driver) = {"loop"} \cup ToSet(driver') /\ "loop" \notin ToSet(driver')
  BY <1>1, <1>3, TailElements
<1>5. answer \in [Calls -> {"none", "ok", "err", "left"}] BY DEF IInv, TypeOK
<1>6. /\ answer' \in [Calls -> {"none", "ok", "err", "left"}]
      /\ \A d \in Calls \ {asking} : answer'[d] = answer[d]
  BY <1>1, <1>2, <1>5, ToldType
<1> USE DEF IInv, callers, lanes, inputs
<1>7. TypeOK' BY <1>1, <1>4, <1>6 DEF TypeOK
<1>8. PlaceInv' BY <1>1, <1>2, <1>6 DEF PlaceInv, Requested, Fresh, Lane
<1>9. UniqueInv' BY <1>1 DEF UniqueInv
<1>10. LaneInv' /\ WorkInv' /\ OutcomeInv' /\ AskInv'
  BY <1>1 DEF LaneInv, Lane, WorkInv, OutcomeInv, AskInv
<1>11. DriverInv' BY <1>1, <1>4 DEF DriverInv
<1>12. BarrierInv' BY <1>1 DEF BarrierInv
<1>13. SilentInv' /\ CompletionPrecedesAnswer' /\ SuccessMeansRan'
  BY <1>1, <1>2, <1>6
     DEF SilentInv, Lane, Answered, CompletionPrecedesAnswer, SuccessMeansRan, Observed
<1>14. UnderwayInv' BY <1>1 DEF UnderwayInv, Requested
<1> QED BY <1>7, <1>8, <1>9, <1>10, <1>11, <1>12, <1>13, <1>14

\* The barrier overtakes what is buffered; the channel is closed.
LEMMA ShutdownIInv ==
    ASSUME IInv, HandleShutdown
    PROVE  IInv'
<1> DEFINE c == NextCommand.call
           dropped == {m.call : m \in {n \in ToSet(Tail(commands)) : n.type = "request"}}
                         \cup SkipsInFlight
<1>1. /\ commands # << >> /\ NextCommand.type = "request" /\ kind[c] = "shutdown"
      /\ loop = "running" /\ loop' = "stopped" /\ chain' = None
      /\ urgent' = Append(urgent, c)
      /\ commands' = << >> /\ events' = << >>
      /\ UNCHANGED <<callers, asking, regular, executor, current, pipeline,
                     outcome, forwarding, committed>>
  BY DEF HandleShutdown
<1>2. answer' = Told(dropped, "err") BY DEF HandleShutdown
<1>3. c \in Calls /\ Fresh(c) /\ c \notin sending /\ c \notin ToSet(events)
  BY <1>1, HeadRequest
<1>4. \A d \in dropped : kind[d] # "none" /\ d \notin sending
  <2>1. ASSUME NEW m \in ToSet(Tail(commands)), m.type = "request"
        PROVE  kind[m.call] # "none" /\ m.call \notin sending
    <3>1. m \in ToSet(commands) BY <1>1, HeadOfChannel
    <3>2. m \in Messages BY <3>1, NonEmpty DEF IInv, TypeOK
    <3>3. m.call \in Calls /\ Requested(m.call) BY <2>1, <3>1, <3>2, MessageKinds DEF Requested
    <3> QED BY <3>3 DEF IInv, PlaceInv
  <2>2. ASSUME NEW d \in SkipsInFlight PROVE kind[d] # "none" /\ d \notin sending
    BY DEF SkipsInFlight, IInv, UnderwayInv
  <2> QED BY <2>1, <2>2
<1> HIDE DEF c, dropped
<1>5. urgent \in Seq(Calls) /\ Unique(urgent, Calls) /\ c \notin ToSet(urgent)
  BY <1>3 DEF IInv, TypeOK, UniqueInv, Fresh, Lane
<1>6. /\ urgent' \in Seq(Calls) /\ Unique(urgent', Calls)
      /\ ToSet(urgent') = ToSet(urgent) \cup {c}
  BY <1>1, <1>3, <1>5, AppendElements
<1>7. answer \in [Calls -> {"none", "ok", "err", "left"}] BY DEF IInv, TypeOK
<1>8. /\ answer' \in [Calls -> {"none", "ok", "err", "left"}]
      /\ \A d \in Calls : answer'[d] = "ok" => answer[d] = "ok"
      /\ \A d \in Calls : d \in dropped \/ answer'[d] = answer[d]
  BY <1>2, <1>7, ToldType
<1> USE DEF IInv, callers, pipeline
<1>9. ToSet(commands') = {} /\ ToSet(events') = {} /\ Unique(commands', Requests)
      /\ Unique(events', Calls) /\ commands' \in Seq(Messages) /\ events' \in Seq(Calls)
      /\ Len(commands') = 0
  BY <1>1, EmptyElements
<1>10. TypeOK' BY <1>1, <1>6, <1>8, <1>9 DEF TypeOK
<1>11. PlaceInv'
  <2>1. \A d \in Calls : kind[d] = "none" \/ d \in sending => Fresh(d)'
    BY <1>1, <1>3, <1>4, <1>6, <1>8 DEF PlaceInv, Fresh, Lane
  <2> QED BY <1>1, <1>9, <2>1 DEF PlaceInv, Requested
<1>12. UniqueInv' BY <1>1, <1>6, <1>9 DEF UniqueInv
<1>13. LaneInv' BY <1>1, <1>3, <1>6 DEF LaneInv, Lane, Fresh
<1>14. WorkInv' /\ OutcomeInv' BY <1>1 DEF WorkInv, OutcomeInv
<1>15. DriverInv' /\ AskInv' BY <1>1 DEF DriverInv, AskInv
<1>16. BarrierInv' BY <1>1, <1>6 DEF BarrierInv
<1>17. SilentInv' /\ CompletionPrecedesAnswer' BY <1>1 DEF SilentInv, CompletionPrecedesAnswer
<1>18. SuccessMeansRan' BY <1>1, <1>8 DEF SuccessMeansRan
<1>19. UnderwayInv' BY <1>1, <1>9 DEF UnderwayInv, Requested
<1> QED
  BY <1>10, <1>11, <1>12, <1>13, <1>14, <1>15, <1>16, <1>17, <1>18, <1>19

\* A completion is committed.
LEMMA CommitIInv ==
    ASSUME IInv, HandleCompletion
    PROVE  IInv'
<1> DEFINE c == NextCommand.call
<1>1. /\ commands # << >> /\ NextCommand.type = "completion"
      /\ committed' = committed \cup {c}
      /\ commands' = Tail(commands)
      /\ answer' = IF kind[c] = "skip" THEN Told({c}, outcome[c]) ELSE answer
      /\ UNCHANGED <<callers, events, awaits, chain, lanes, executor, current, pipeline,
                     outcome, forwarding>>
  BY DEF HandleCompletion
<1>2. /\ c \in Calls
      /\ ToSet(commands) = {Completion(c)} \cup ToSet(commands')
  BY <1>1, HeadOfChannel, MessageKinds
<1> HIDE DEF c
<1>3. c \notin sending /\ ~Requested(c) /\ kind[c] \notin {"none", "event"}
  BY <1>2 DEF IInv, UnderwayInv
<1>4. /\ commands' \in Seq(Messages) /\ Len(commands') <= Capacity
      /\ Unique(commands', Requests)
  BY <1>1, HeadOfChannel
<1>5. /\ answer \in [Calls -> {"none", "ok", "err", "left"}]
      /\ outcome[c] \in {"none", "ok", "err", "left"}
  BY <1>2 DEF IInv, TypeOK
<1>6. /\ answer' \in [Calls -> {"none", "ok", "err", "left"}]
      /\ \A d \in Calls \ {c} : answer'[d] = answer[d]
      /\ answer'[c] # answer[c] => kind[c] = "skip" /\ answer'[c] = outcome[c]
  BY <1>1, <1>2, <1>5, ToldType
<1> USE DEF IInv, callers, awaits, pipeline, lanes
<1>7. TypeOK' BY <1>1, <1>2, <1>4, <1>6 DEF TypeOK
<1>8. \A d \in Calls : Requested(d)' <=> Requested(d)
  BY <1>2, RequestsDiffer DEF Requested
<1>9. PlaceInv'
  <2> SUFFICES ASSUME NEW d \in Calls
               PROVE  /\ kind[d] = "none" =>
                           Fresh(d)' /\ d \notin sending /\ ~Requested(d) /\ d \notin ToSet(events)
                      /\ d \in sending =>
                           Fresh(d)' /\ ~Requested(d) /\ kind[d] \notin {"none", "event"}
                      /\ Requested(d) => Fresh(d)' /\ kind[d] \notin {"none", "event"}
                      /\ d \in ToSet(events) => Fresh(d)' /\ kind[d] = "event"
    BY <1>1, <1>8 DEF PlaceInv
  <2>1. PlaceInv OBVIOUS
  <2>2. CASE d = c
    <3>1. c \notin ToSet(events) BY <1>2, <1>3, <2>1 DEF PlaceInv
    <3> QED BY <1>3, <2>2, <3>1
  <2>3. CASE d # c
    <3>1. Fresh(d) => Fresh(d)' BY <1>1, <1>6, <2>3 DEF Fresh, Lane
    <3> QED BY <2>1, <3>1 DEF PlaceInv
  <2> QED BY <2>2, <2>3
<1>10. UniqueInv' BY <1>1, <1>4 DEF UniqueInv
<1>11. LaneInv' /\ BarrierInv' /\ WorkInv' /\ OutcomeInv' /\ DriverInv' /\ AskInv'
  BY <1>1, <1>8 DEF LaneInv, Lane, BarrierInv, WorkInv, OutcomeInv, DriverInv, AskInv
<1>12. SuccessMeansRan' BY <1>1, <1>6 DEF SuccessMeansRan, OutcomeInv
<1>13. CompletionPrecedesAnswer'
  BY <1>1, <1>2, <1>6, RequestsDiffer DEF CompletionPrecedesAnswer, Answered
<1>14. UnderwayInv' BY <1>1, <1>2, <1>8 DEF UnderwayInv
<1>15. SilentInv'
  <2>1. (c \in Lane \/ c = current) /\ kind[c] = "skip" => outcome[c] = "none"
    BY <1>2 DEF LaneInv, WorkInv, TypeOK
  <2>2. ASSUME NEW d \in Calls, d \in Lane \/ d = current, Answered(d)' PROVE Answered(d)
    BY <1>1, <1>2, <1>6, <2>1, <2>2 DEF Answered
  <2> QED BY <1>1, <2>2 DEF SilentInv, Lane
<1> QED BY <1>7, <1>9, <1>10, <1>11, <1>12, <1>13, <1>14, <1>15

\* The operation an event asks for goes to the urgent lane.
LEMMA EventIInv ==
    ASSUME IInv, HandleEvent
    PROVE  IInv'
<1> DEFINE c == Head(events)
<1>1. /\ loop = "running" /\ events # << >>
      /\ urgent' = Append(urgent, c)
      /\ events' = Tail(events)
      /\ UNCHANGED <<callers, commands, awaits, chain, regular, executor, current,
                     pipeline, outcome, forwarding, committed, answer>>
  BY DEF HandleEvent
<1>2. events \in Seq(Calls) /\ Unique(events, Calls) BY DEF IInv, TypeOK, UniqueInv
<1>3. /\ c \in Calls /\ events' \in Seq(Calls) /\ Unique(events', Calls)
      /\ ToSet(events) = {c} \cup ToSet(events') /\ c \notin ToSet(events')
  BY <1>1, <1>2, TailElements
<1> HIDE DEF c
<1>4. Fresh(c) /\ kind[c] = "event" /\ c \notin sending /\ ~Requested(c)
  BY <1>3 DEF IInv, PlaceInv
<1>5. urgent \in Seq(Calls) /\ Unique(urgent, Calls) /\ c \notin ToSet(urgent)
  BY <1>4 DEF IInv, TypeOK, UniqueInv, Fresh, Lane
<1>6. /\ urgent' \in Seq(Calls) /\ Unique(urgent', Calls)
      /\ ToSet(urgent') = ToSet(urgent) \cup {c}
  BY <1>1, <1>3, <1>5, AppendElements
<1> USE DEF IInv, callers, awaits, pipeline
<1>7. TypeOK' BY <1>1, <1>3, <1>6 DEF TypeOK
<1>8. PlaceInv' BY <1>1, <1>3, <1>4, <1>6 DEF PlaceInv, Requested, Fresh, Lane
<1>9. UniqueInv' BY <1>1, <1>3, <1>6 DEF UniqueInv
<1>10. LaneInv' BY <1>1, <1>4, <1>6 DEF LaneInv, Lane, Fresh
<1>11. WorkInv' /\ OutcomeInv' /\ DriverInv' /\ AskInv' /\ SuccessMeansRan' /\ UnderwayInv'
  BY <1>1 DEF WorkInv, OutcomeInv, DriverInv, AskInv, SuccessMeansRan, UnderwayInv, Requested
<1>12. SilentInv' BY <1>1, <1>4, <1>6 DEF SilentInv, Lane, Answered, Observed
<1>13. BarrierInv' BY <1>1, <1>4, <1>6 DEF BarrierInv
<1>14. CompletionPrecedesAnswer' BY <1>1 DEF CompletionPrecedesAnswer, Answered
<1> QED BY <1>7, <1>8, <1>9, <1>10, <1>11, <1>12, <1>13, <1>14

----------------------------------------------------------------------------
(* The executor. *)

\* The task the executor takes leaves its lane; nothing else moves.
LEMMA TakenFromLane ==
    ASSUME IInv, Pending, TakeTask, NEW c, c = NextTask
    PROVE  /\ c \in Calls /\ c \in Lane
           /\ urgent' \in Seq(Calls) /\ regular' \in Seq(Calls)
           /\ Unique(urgent', Calls) /\ Unique(regular', Calls)
           /\ \/ /\ ToSet(urgent) = {c} \cup ToSet(urgent') /\ c \notin ToSet(urgent')
                 /\ regular' = regular /\ c \notin ToSet(regular)
              \/ /\ ToSet(regular) = {c} \cup ToSet(regular') /\ c \notin ToSet(regular')
                 /\ urgent' = urgent /\ ToSet(urgent) = {}
<1>1. /\ urgent \in Seq(Calls) /\ regular \in Seq(Calls)
      /\ Unique(urgent, Calls) /\ Unique(regular, Calls)
  BY DEF IInv, TypeOK, UniqueInv
<1>2. CASE urgent # << >>
  <2>1. c = Head(urgent) /\ urgent' = Tail(urgent) /\ regular' = regular
    BY <1>2 DEF NextTask, TakeTask
  <2>2. /\ c \in Calls /\ urgent' \in Seq(Calls) /\ Unique(urgent', Calls)
        /\ ToSet(urgent) = {c} \cup ToSet(urgent') /\ c \notin ToSet(urgent')
    BY <1>1, <1>2, <2>1, TailElements
  <2>3. c \notin ToSet(regular) BY <2>2 DEF IInv, LaneInv
  <2> QED BY <1>1, <2>1, <2>2, <2>3 DEF Lane
<1>3. CASE urgent = << >>
  <2>1. c = Head(regular) /\ regular' = Tail(regular) /\ urgent' = urgent /\ regular # << >>
    BY <1>3 DEF NextTask, TakeTask, Pending
  <2>2. /\ c \in Calls /\ regular' \in Seq(Calls) /\ Unique(regular', Calls)
        /\ ToSet(regular) = {c} \cup ToSet(regular') /\ c \notin ToSet(regular')
    BY <1>1, <2>1, TailElements
  <2> QED BY <1>1, <1>3, <2>1, <2>2, EmptyElements DEF Lane
<1> QED BY <1>2, <1>3

LEMMA StartIInv ==
    ASSUME IInv, StartOperation
    PROVE  IInv'
<1> DEFINE c == NextTask
<1>1. /\ Pending /\ TakeTask /\ executor = "idle" /\ kind[c] # "shutdown"
      /\ executor' = "running" /\ current' = c
      /\ driver' = Append(driver, "executor")
      /\ UNCHANGED <<callers, inputs, awaits, chain, outcome, forwarding, ran,
                     committed, stopped, answer>>
  BY DEF StartOperation, Pending
<1>2. /\ c \in Calls /\ c \in Lane
      /\ urgent' \in Seq(Calls) /\ regular' \in Seq(Calls)
      /\ Unique(urgent', Calls) /\ Unique(regular', Calls)
      /\ ToSet(urgent') \subseteq ToSet(urgent) /\ ToSet(regular') \subseteq ToSet(regular)
      /\ \A d \in ToSet(urgent) : d = c \/ d \in ToSet(urgent')
      /\ c \notin ToSet(urgent') /\ c \notin ToSet(regular')
  BY <1>1, TakenFromLane DEF IInv, LaneInv
<1> HIDE DEF c
<1>3. /\ driver \in Seq({"executor", "loop"}) /\ Unique(driver, {"executor", "loop"})
      /\ "executor" \notin ToSet(driver)
  BY <1>1 DEF IInv, TypeOK, DriverInv
<1>4. /\ driver' \in Seq({"executor", "loop"}) /\ Unique(driver', {"executor", "loop"})
      /\ ToSet(driver') = ToSet(driver) \cup {"executor"}
  BY <1>1, <1>3, AppendElements
<1>5. c \notin ran /\ outcome[c] = "none"
      /\ kind[c] \in {"plain", "play", "skip", "reconnect", "event"}
  BY <1>1, <1>2 DEF IInv, LaneInv, Lane
<1> USE DEF IInv, callers, inputs, awaits
<1>6. TypeOK' BY <1>1, <1>2, <1>4 DEF TypeOK
<1>7. PlaceInv' BY <1>1, <1>2 DEF PlaceInv, Requested, Fresh, Lane
<1>8. UniqueInv' BY <1>1, <1>2 DEF UniqueInv
<1>9. LaneInv' BY <1>1, <1>2 DEF LaneInv, Lane
<1>10. WorkInv' BY <1>1, <1>2, <1>5 DEF WorkInv
<1>11. OutcomeInv' /\ AskInv' /\ SuccessMeansRan' /\ UnderwayInv'
  BY <1>1 DEF OutcomeInv, AskInv, SuccessMeansRan, UnderwayInv, Requested
<1>12. DriverInv' BY <1>1, <1>4 DEF DriverInv
<1>13. SilentInv' BY <1>1, <1>2 DEF SilentInv, Lane, Answered
<1>14. BarrierInv' BY <1>1, <1>2 DEF BarrierInv
<1>15. CompletionPrecedesAnswer' BY <1>1 DEF CompletionPrecedesAnswer, Answered
<1> QED
  BY <1>6, <1>7, <1>8, <1>9, <1>10, <1>11, <1>12, <1>13, <1>14, <1>15

\* A superseded reconnect is discarded.
LEMMA SupersededIInv ==
    ASSUME IInv, SkipSuperseded
    PROVE  IInv'
<1> DEFINE c == NextTask
<1>1. /\ Pending /\ TakeTask /\ executor = "idle" /\ kind[c] = "reconnect"
      /\ answer' = Told({c}, "err")
      /\ UNCHANGED <<callers, inputs, awaits, chain, executor, current, pipeline,
                     outcome, forwarding, committed>>
  BY DEF SkipSuperseded, Pending, Superseded
<1>2. /\ c \in Calls /\ c \in Lane
      /\ urgent' \in Seq(Calls) /\ regular' \in Seq(Calls)
      /\ Unique(urgent', Calls) /\ Unique(regular', Calls)
      /\ ToSet(urgent') \subseteq ToSet(urgent) /\ ToSet(regular') \subseteq ToSet(regular)
      /\ \A d \in ToSet(urgent) : d = c \/ d \in ToSet(urgent')
      /\ c \notin ToSet(urgent') /\ c \notin ToSet(regular')
  BY <1>1, TakenFromLane DEF IInv, LaneInv
<1> HIDE DEF c
<1>3. answer \in [Calls -> {"none", "ok", "err", "left"}] BY DEF IInv, TypeOK
<1>4. /\ answer' \in [Calls -> {"none", "ok", "err", "left"}]
      /\ \A d \in Calls : answer'[d] # answer[d] => d = c /\ answer'[d] = "err"
  BY <1>1, <1>2, <1>3, ToldType
<1>5. c \notin ran /\ current # c /\ ~Fresh(c)
  BY <1>1, <1>2 DEF IInv, LaneInv, Fresh
<1> USE DEF IInv, callers, inputs, awaits, pipeline
<1>6. TypeOK' BY <1>1, <1>2, <1>4 DEF TypeOK
<1>7. PlaceInv' BY <1>1, <1>2, <1>4, <1>5 DEF PlaceInv, Requested, Fresh, Lane
<1>8. UniqueInv' BY <1>1, <1>2 DEF UniqueInv
<1>9. LaneInv' BY <1>1, <1>2 DEF LaneInv, Lane
<1>10. WorkInv' /\ OutcomeInv' /\ AskInv' /\ UnderwayInv' /\ DriverInv'
  BY <1>1 DEF WorkInv, OutcomeInv, AskInv, UnderwayInv, Requested, DriverInv
<1>11. SuccessMeansRan' BY <1>1, <1>4 DEF SuccessMeansRan
<1>12. SilentInv' BY <1>1, <1>2, <1>4, <1>5 DEF SilentInv, Lane, Answered
<1>13. BarrierInv' BY <1>1, <1>2 DEF BarrierInv
<1>14. CompletionPrecedesAnswer' BY <1>1, <1>4, <1>5 DEF CompletionPrecedesAnswer, Answered
<1> QED BY <1>6, <1>7, <1>8, <1>9, <1>10, <1>11, <1>12, <1>13, <1>14

\* The barrier refuses what is buffered.
LEMMA StartStopIInv ==
    ASSUME IInv, StartStop
    PROVE  IInv'
<1> DEFINE c == NextTask
           refused == Lane \ {c}
<1>1. /\ Pending /\ executor = "idle" /\ kind[c] = "shutdown"
      /\ executor' = "stopping" /\ current' = c
      /\ driver' = Append(driver, "executor")
      /\ urgent' = << >> /\ regular' = << >>
      /\ outcome' = [d \in Calls |-> IF d \in refused \cap forwarding
                                     THEN "err" ELSE outcome[d]]
      /\ answer' = Told({d \in refused : kind[d] \in {"plain", "reconnect"}}, "err")
      /\ UNCHANGED <<callers, inputs, awaits, chain, forwarding, ran, committed, stopped>>
  BY DEF StartStop, Pending, Lane
<1>2. c \in Lane /\ c \in Calls /\ Lane \subseteq Calls
  <2>1. urgent \in Seq(Calls) /\ regular \in Seq(Calls) BY DEF IInv, TypeOK
  <2>2. c = IF urgent # << >> THEN Head(urgent) ELSE Head(regular) BY DEF NextTask
  <2>3. urgent # << >> \/ regular # << >> BY <1>1 DEF Pending
  <2> HIDE DEF c
  <2>4. c \in Lane BY <2>1, <2>2, <2>3, TailElements DEF Lane
  <2>5. Lane \subseteq Calls BY <2>1, NonEmpty DEF Lane
  <2> QED BY <2>4, <2>5
<1>3. c \in ToSet(urgent) /\ loop = "stopped"
  BY <1>1, <1>2 DEF IInv, LaneInv, Lane, BarrierInv
<1>4. \A d \in refused : d \notin ran /\ outcome[d] = "none" /\ ~Fresh(d)
  BY DEF IInv, LaneInv, Fresh
<1> HIDE DEF c, refused
<1>5. answer \in [Calls -> {"none", "ok", "err", "left"}]
      /\ outcome \in [Calls -> {"none", "ok", "err"}]
  BY DEF IInv, TypeOK
<1>6. /\ answer' \in [Calls -> {"none", "ok", "err", "left"}]
      /\ \A d \in Calls : answer'[d] # answer[d] => d \in refused /\ answer'[d] = "err"
  BY <1>1, <1>5, ToldType
<1>7. /\ outcome' \in [Calls -> {"none", "ok", "err"}]
      /\ \A d \in Calls : outcome'[d] # outcome[d] => d \in refused /\ outcome'[d] = "err"
      /\ outcome'[c] = outcome[c]
  BY <1>1, <1>2, <1>5 DEF refused
<1>8. /\ driver \in Seq({"executor", "loop"}) /\ Unique(driver, {"executor", "loop"})
      /\ "executor" \notin ToSet(driver)
  BY <1>1 DEF IInv, TypeOK, DriverInv
<1>9. /\ driver' \in Seq({"executor", "loop"}) /\ Unique(driver', {"executor", "loop"})
      /\ ToSet(driver') = ToSet(driver) \cup {"executor"}
  BY <1>1, <1>8, AppendElements
<1>10. /\ ToSet(urgent') = {} /\ ToSet(regular') = {} /\ Lane' = {}
       /\ urgent' \in Seq(Calls) /\ regular' \in Seq(Calls)
       /\ Unique(urgent', Calls) /\ Unique(regular', Calls)
  BY <1>1, EmptyElements DEF Lane
<1> USE DEF IInv, callers, inputs, awaits
<1>11. TypeOK' BY <1>1, <1>2, <1>6, <1>7, <1>9, <1>10 DEF TypeOK
<1>12. PlaceInv'
  <2>1. \A d \in Calls : Fresh(d) => Fresh(d)'
    BY <1>1, <1>2, <1>4, <1>6, <1>7, <1>10 DEF Fresh
  <2> QED BY <1>1, <2>1 DEF PlaceInv, Requested
<1>13. UniqueInv' BY <1>1, <1>10 DEF UniqueInv
<1>14. LaneInv' BY <1>10 DEF LaneInv
<1>15. WorkInv' BY <1>1, <1>2 DEF WorkInv
<1>16. OutcomeInv' BY <1>1, <1>7 DEF OutcomeInv
<1>17. AskInv' /\ UnderwayInv' BY <1>1 DEF AskInv, UnderwayInv, Requested
<1>18. SuccessMeansRan' BY <1>1, <1>4, <1>6, <1>7 DEF SuccessMeansRan
<1>19. DriverInv' BY <1>1, <1>9 DEF DriverInv
<1>20. BarrierInv' BY <1>1, <1>3, <1>10 DEF BarrierInv
<1>21. SilentInv' /\ CompletionPrecedesAnswer'
  BY <1>1, <1>3 DEF SilentInv, CompletionPrecedesAnswer
<1> QED
  BY <1>11, <1>12, <1>13, <1>14, <1>15, <1>16, <1>17, <1>18, <1>19, <1>20, <1>21

\* The driver serves the executor: its operation is what current names.
LEMMA ServedByDriver ==
    ASSUME IInv, driver # << >>, Head(driver) = "executor", driver' = Tail(driver)
    PROVE  /\ driver' \in Seq({"executor", "loop"}) /\ Unique(driver', {"executor", "loop"})
           /\ ToSet(driver) = {"executor"} \cup ToSet(driver')
           /\ "executor" \notin ToSet(driver')
           /\ executor \in {"running", "stopping"}
           /\ current \in Calls
<1>1. driver \in Seq({"executor", "loop"}) /\ Unique(driver, {"executor", "loop"})
  BY DEF IInv, TypeOK, DriverInv
<1>2. /\ driver' \in Seq({"executor", "loop"}) /\ Unique(driver', {"executor", "loop"})
      /\ ToSet(driver) = {"executor"} \cup ToSet(driver')
      /\ "executor" \notin ToSet(driver')
  BY <1>1, TailElements
<1>3. executor \in {"running", "stopping"} BY <1>2 DEF IInv, DriverInv
<1>4. current \in Calls BY <1>3 DEF IInv, WorkInv, TypeOK
<1> QED BY <1>2, <1>3, <1>4

LEMMA DoneIInv ==
    ASSUME IInv, NEW how \in {"ok", "err"}, OperationDone(how)
    PROVE  IInv'
<1> DEFINE c == current
<1>1. /\ executor = "running" /\ driver # << >> /\ Head(driver) = "executor"
      /\ driver' = Tail(driver)
      /\ ran' = ran \cup {c}
      /\ outcome' = [outcome EXCEPT ![c] = how]
      /\ \/ /\ kind[c] = "reconnect" /\ executor' = "completing"
            /\ UNCHANGED <<current, answer>>
         \/ /\ kind[c] # "reconnect" /\ executor' = "idle" /\ current' = None
            /\ answer' = IF kind[c] = "plain" THEN Told({c}, how) ELSE answer
      /\ UNCHANGED <<callers, inputs, awaits, chain, lanes, forwarding, committed,
                     stopped>>
  BY DEF OperationDone
<1>2. /\ c \in Calls /\ driver' \in Seq({"executor", "loop"})
      /\ Unique(driver', {"executor", "loop"})
      /\ ToSet(driver) = {"executor"} \cup ToSet(driver')
      /\ "executor" \notin ToSet(driver')
  BY <1>1, ServedByDriver
<1>3. ~Fresh(c) /\ c \notin Lane /\ c \notin ran BY <1>1 DEF IInv, Fresh, LaneInv, WorkInv
<1>4. answer \in [Calls -> {"none", "ok", "err", "left"}]
      /\ outcome \in [Calls -> {"none", "ok", "err"}]
  BY DEF IInv, TypeOK
<1>5. /\ answer' \in [Calls -> {"none", "ok", "err", "left"}]
      /\ \A d \in Calls : answer'[d] # answer[d] => d = c /\ kind[c] = "plain" /\ answer'[c] = how
  BY <1>1, <1>2, <1>4, ToldType
<1>6. /\ outcome' \in [Calls -> {"none", "ok", "err"}] /\ outcome'[c] = how
      /\ \A d \in Calls \ {c} : outcome'[d] = outcome[d]
  BY <1>1, <1>2, <1>4
<1> USE DEF IInv, callers, inputs, awaits, lanes
<1>7. TypeOK' BY <1>1, <1>2, <1>5, <1>6 DEF TypeOK
<1>8. PlaceInv'
  <2>1. \A d \in Calls : Fresh(d) => Fresh(d)'
    BY <1>1, <1>3, <1>5, <1>6 DEF Fresh, Lane
  <2> QED BY <1>1, <2>1 DEF PlaceInv, Requested
<1>9. UniqueInv' BY <1>1 DEF UniqueInv
<1>10. LaneInv' BY <1>1, <1>3, <1>6 DEF LaneInv, Lane, TypeOK, ToSet
<1>11. WorkInv' BY <1>1, <1>2 DEF WorkInv
<1>12. OutcomeInv' BY <1>1, <1>6 DEF OutcomeInv
<1>13. AskInv' /\ UnderwayInv' BY <1>1 DEF AskInv, UnderwayInv, Requested
<1>14. SuccessMeansRan' BY <1>1, <1>3, <1>5, <1>6 DEF SuccessMeansRan
<1>15. DriverInv' BY <1>1, <1>2 DEF DriverInv
<1>16. BarrierInv' BY <1>1 DEF BarrierInv
<1>17. SilentInv' BY <1>1, <1>3, <1>5 DEF SilentInv, Lane, Answered, Observed
<1>18. CompletionPrecedesAnswer'
  BY <1>1, <1>2, <1>5 DEF CompletionPrecedesAnswer, SilentInv, Answered, Observed
<1> QED
  BY <1>7, <1>8, <1>9, <1>10, <1>11, <1>12, <1>13, <1>14, <1>15, <1>16, <1>17, <1>18

LEMMA StopDoneIInv ==
    ASSUME IInv, NEW how \in {"ok", "err"}, StopDone(how)
    PROVE  IInv'
<1> DEFINE c == current
<1>1. /\ executor = "stopping" /\ driver # << >> /\ Head(driver) = "executor"
      /\ driver' = Tail(driver)
      /\ stopped' = "yes" /\ executor' = "terminal" /\ current' = None
      /\ answer' = Told({c}, how)
      /\ UNCHANGED <<callers, inputs, awaits, chain, lanes, outcome, forwarding,
                     ran, committed>>
  BY DEF StopDone
<1>2. /\ c \in Calls /\ driver' \in Seq({"executor", "loop"})
      /\ Unique(driver', {"executor", "loop"})
      /\ ToSet(driver) = {"executor"} \cup ToSet(driver')
      /\ "executor" \notin ToSet(driver')
  BY <1>1, ServedByDriver
<1>3. ~Fresh(c) /\ kind[c] = "shutdown" BY <1>1 DEF IInv, Fresh, WorkInv
<1>4. answer \in [Calls -> {"none", "ok", "err", "left"}] BY DEF IInv, TypeOK
<1>5. /\ answer' \in [Calls -> {"none", "ok", "err", "left"}]
      /\ \A d \in Calls : answer'[d] # answer[d] => d = c
  BY <1>1, <1>2, <1>4, ToldType
<1> USE DEF IInv, callers, inputs, awaits, lanes
<1>6. TypeOK' BY <1>1, <1>2, <1>5 DEF TypeOK
<1>7. PlaceInv'
  <2>1. \A d \in Calls : Fresh(d) => Fresh(d)'
    BY <1>1, <1>3, <1>5 DEF Fresh, Lane, TypeOK
  <2> QED BY <1>1, <2>1 DEF PlaceInv, Requested
<1>8. UniqueInv' BY <1>1 DEF UniqueInv
<1>9. LaneInv' BY <1>1 DEF LaneInv, Lane, TypeOK, ToSet
<1>10. WorkInv' BY <1>1 DEF WorkInv
<1>11. OutcomeInv' /\ AskInv' /\ UnderwayInv'
  BY <1>1 DEF OutcomeInv, AskInv, UnderwayInv, Requested
<1>12. SuccessMeansRan' BY <1>1, <1>3, <1>5 DEF SuccessMeansRan
<1>13. DriverInv' BY <1>1, <1>2 DEF DriverInv
<1>14. BarrierInv' BY <1>1 DEF BarrierInv
<1>15. SilentInv' /\ CompletionPrecedesAnswer'
  BY <1>1, <1>3, <1>5 DEF SilentInv, CompletionPrecedesAnswer, Lane, Answered, Observed
<1> QED BY <1>6, <1>7, <1>8, <1>9, <1>10, <1>11, <1>12, <1>13, <1>14, <1>15

----------------------------------------------------------------------------
LEMMA NextIInv == IInv /\ [Next]_vars => IInv'
<1> SUFFICES ASSUME IInv, [Next]_vars PROVE IInv'
  OBVIOUS
<1>1. CASE UNCHANGED vars
  BY <1>1
     DEF vars, IInv, TypeOK, PlaceInv, UnderwayInv, UniqueInv, LaneInv, WorkInv, SilentInv,
         OutcomeInv, DriverInv, AskInv, BarrierInv, SuccessMeansRan, CompletionPrecedesAnswer,
         Lane, Requested, Fresh, Answered
<1>2. ASSUME NEW c \in Calls,
             \/ \E k \in Kinds : Call(c, k)
             \/ Emit(c) \/ Admit(c) \/ Leave(c) \/ Forward(c)
      PROVE  IInv'
  BY <1>2, CallIInv, EmitIInv, AdmitLeaveIInv, CompletionIInv
<1>3. CASE LoopStep
  BY <1>3, OperationIInv, RefusalIInv, StatusIInv, SnapshotIInv, ShutdownIInv, CommitIInv,
     EventIInv
     DEF LoopStep
<1>4. CASE ExecutorStep
  <2>1. CASE CompleteReconnect
    <3>1. current \in Calls BY <2>1 DEF CompleteReconnect, IInv, WorkInv, TypeOK
    <3> QED BY <2>1, <3>1, CompletionIInv
  <2> QED
    BY <1>4, <2>1, StartIInv, SupersededIInv, StartStopIInv, DoneIInv, StopDoneIInv
       DEF ExecutorStep
<1>5. CASE Quiet BY <1>1, <1>5 DEF Quiet
<1> QED BY <1>1, <1>2, <1>3, <1>4, <1>5 DEF Next

\* A call waits in one place, the barrier is in front of what it overtakes, and
\* what callers were told is true: this is what every step keeps.
THEOREM InvariantHolds == Spec => []IInv
  BY InitIInv, NextIInv, PTL DEF Spec

LEMMA IInvImpliesAnswersHold == IInv => AnswersHold
<1> SUFFICES ASSUME IInv PROVE AnswersHold
  OBVIOUS
<1>1. ShutdownIsTerminal
  <2>1. SUFFICES ASSUME stopped = "yes" PROVE driver = << >> /\ executor = "terminal"
    BY DEF ShutdownIsTerminal, IInv, BarrierInv
  <2>2. executor = "terminal" /\ loop = "stopped" BY <2>1 DEF IInv, BarrierInv
  <2>3. driver \in Seq({"executor", "loop"}) BY DEF IInv, TypeOK
  <2>4. "executor" \notin ToSet(driver) /\ "loop" \notin ToSet(driver)
    BY <2>2 DEF IInv, DriverInv
  <2> QED BY <2>2, <2>3, <2>4, TailElements
<1> QED BY <1>1 DEF AnswersHold, IInv

\* Callers are told the truth, in front of a shutdown and behind it.
THEOREM CallersAreToldTheTruth == Spec => []AnswersHold
  BY InvariantHolds, IInvImpliesAnswersHold, PTL

\* No command that was still buffered runs after the barrier.
THEOREM BarrierOvertakes == Spec => ShutdownOvertakesCommands
<1>1. ASSUME IInv, [Next]_vars, loop = "stopped", current' \notin {current, None}
      PROVE  kind[current'] \in {"event", "shutdown"}
  <2>1. StartOperation \/ StartStop
    BY <1>1
       DEF Next, vars, Call, Emit, Admit, Leave, Forward, LoopStep, HandleOperation,
           HandleRefusal, HandleStatus, Snapshot, HandleShutdown, HandleCompletion,
           HandleEvent, ExecutorStep, SkipSuperseded, CompleteReconnect, OperationDone,
           StopDone, Quiet, pipeline
  <2>2. Pending /\ current' = NextTask BY <2>1 DEF StartOperation, StartStop
  <2>3. urgent \in Seq(Calls) /\ urgent # << >>
    BY <1>1, <2>2, NonEmpty DEF IInv, TypeOK, BarrierInv, Pending
  <2>4. current' \in ToSet(urgent) BY <2>2, <2>3, TailElements DEF NextTask
  <2> QED BY <1>1, <2>4 DEF IInv, LaneInv
<1> QED BY <1>1, InvariantHolds, PTL DEF Spec, ShutdownOvertakesCommands

============================================================================
