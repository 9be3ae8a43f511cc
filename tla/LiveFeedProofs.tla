--------------------------- MODULE LiveFeedProofs ---------------------------
(***************************************************************************)
(* What the client of a connection is told, for any number of transitions, *)
(* changes, faults and polls and channels of any capacity: first of its    *)
(* station, then of the listeners.                                         *)
(*                                                                         *)
(* The task never compares what it told with what is.  It is current       *)
(* because whatever changes leaves something behind for it: a message in   *)
(* the channel it reads from, another runtime than the one it is attached  *)
(* to, or a synchronization that somebody owes.                            *)
(***************************************************************************)
EXTENDS Listeners, SequenceTheorems, TLAPS

Playing == <<"playing", runtime, track>>

Rx(messages) == [msgs : Seq(messages), lagged : BOOLEAN]
PlayingMsgs == {"playing"} \X Nat \X Nat

Shape ==
  /\ row \in {"stopped", "started", "gone"}
  /\ lock \in {"free", "play", "stop", "delete", "restart", "drain", "create", "erase"}
  /\ runtime \in Nat /\ runtimes \in Nat /\ track \in Nat /\ queue \in Nat
  /\ unpushed \in BOOLEAN /\ owed \in BOOLEAN
  /\ client \in {"open", "revoked", "gone"}
  /\ feed \in [at : {"none", "top", "ended"} \cup Watching \cup Attached, target : Nat,
               last : {"none", "stopped", "started"}, seen : {"none", "stopped", "started"},
               force : BOOLEAN]
  /\ notes \in Rx({"lifecycle", "queue"})
  /\ statuses \in Rx(PlayingMsgs)
  /\ queues \in Rx(Nat)
  /\ Len(notes.msgs) <= Capacity /\ Len(statuses.msgs) <= Capacity /\ Len(queues.msgs) <= Capacity
  /\ view = [status |-> view.status, queue |-> view.queue]
  /\ lost \subseteq {"status", "queue", "reply"}

(* Runtimes are numbered: one that is not mapped any more never is again.  *)
RuntimeInv ==
  /\ runtime <= runtimes
  /\ feed.at \in Attached => feed.target \in 1..runtimes
  /\ unpushed => runtime # 0

(* A task that is attached has been told the status, or will be. *)
StatusInv ==
  feed.at \in Attached /\ feed.target = runtime =>
    /\ statuses.msgs # <<>> => statuses.msgs[Len(statuses.msgs)] = Playing
    /\ statuses.msgs = <<>> /\ feed.at # "attach" => Told(Playing)

QueueShown == view.queue \in {<<queue>>, <<>>} \/ "queue" \in lost

QueueInv ==
  feed.at \in Attached /\ feed.target = runtime /\ ~ owed /\ ~ unpushed /\ "queue" \notin lost =>
    /\ queues.msgs # <<>> => queues.msgs[Len(queues.msgs)] = queue
    /\ queues.msgs = <<>> /\ feed.at = "live" => view.queue \in {<<queue>>, <<>>}

(* What a watching task compares with is what it told last, except when it *)
(* could not complete a snapshot.  The row is the one it has seen, unless  *)
(* a notification says otherwise, a reply was lost or an error was told.   *)
Settled(r) == Told(Label(r)) \/ ("status" \in lost /\ r = feed.last)

SeenInv ==
  /\ feed.at \in {"observe", "wait"} /\ feed.last # "none" =>
       Told(Label(feed.last)) \/ "status" \in lost
  /\ feed.at = "snapshot" => feed.seen # "none"
  /\ feed.at \in {"snapshot", "wait"} =>
       /\ feed.seen # "none" => Settled(feed.seen)
       /\ feed.seen = "none" => view.status = <<"error">>
       /\ notes.msgs = <<>> =>
            row = feed.seen \/ "reply" \in lost \/ view.status = <<"error">>

QueueNoted == notes.lagged \/ \E i \in DOMAIN notes.msgs : notes.msgs[i] = "queue"

WatchInv ==
  runtime = 0 /\ ~ owed /\ ~ QueueNoted =>
    /\ feed.at = "wait" => QueueShown
    /\ feed.at = "observe" => feed.force \/ feed.last = "none" \/ QueueShown

FeedInv == Shape /\ RuntimeInv /\ StatusInv /\ QueueInv /\ SeenInv /\ WatchInv

-----------------------------------------------------------------------------
(* A channel after a message: it has room, the message is the last one,    *)
(* and what was in it is still there or is known to be missing.            *)
LEMMA SentIsLast ==
  ASSUME NEW T, NEW rx \in Rx(T), NEW m \in T, Len(rx.msgs) <= Capacity
  PROVE  LET new == Sent(rx, m)
         IN  /\ new \in Rx(T)
             /\ Len(new.msgs) <= Capacity
             /\ new.msgs # <<>>
             /\ new.msgs[Len(new.msgs)] = m
             /\ rx.lagged => new.lagged
             /\ \A x : (\E i \in DOMAIN rx.msgs : rx.msgs[i] = x)
                  => new.lagged \/ \E i \in DOMAIN new.msgs : new.msgs[i] = x
  <1> DEFINE new == Sent(rx, m)
  <1>0. Capacity \in Nat \ {0} /\ rx.msgs \in Seq(T) /\ rx.lagged \in BOOLEAN
        /\ rx = [msgs |-> rx.msgs, lagged |-> rx.lagged]
    BY LiveFeedAssumption DEF Rx
  <1>1. CASE Len(rx.msgs) < Capacity
    <2>1. new = [msgs |-> Append(rx.msgs, m), lagged |-> rx.lagged]
      BY <1>0, <1>1 DEF Sent
    <2>2. Append(rx.msgs, m) \in Seq(T) /\ Len(Append(rx.msgs, m)) = Len(rx.msgs) + 1
      BY <1>0
    <2>3. /\ Append(rx.msgs, m)[Len(rx.msgs) + 1] = m
          /\ \A i \in DOMAIN rx.msgs : /\ i \in DOMAIN Append(rx.msgs, m)
                                       /\ Append(rx.msgs, m)[i] = rx.msgs[i]
      BY <1>0
    <2> QED
      BY <1>0, <1>1, <2>1, <2>2, <2>3 DEF Rx
  <1>2. CASE ~ (Len(rx.msgs) < Capacity)
    <2>1. new = [msgs |-> Append(Tail(rx.msgs), m), lagged |-> TRUE]
      BY <1>0, <1>2 DEF Sent
    <2>2. rx.msgs # <<>> /\ Len(rx.msgs) = Capacity
      BY <1>0, <1>2
    <2>3. Tail(rx.msgs) \in Seq(T) /\ Len(Tail(rx.msgs)) = Len(rx.msgs) - 1
      BY <1>0, <2>2
    <2>4. /\ Append(Tail(rx.msgs), m) \in Seq(T)
          /\ Len(Append(Tail(rx.msgs), m)) = Len(rx.msgs)
          /\ Append(Tail(rx.msgs), m)[Len(rx.msgs)] = m
      BY <1>0, <2>2, <2>3
    <2> QED
      BY <1>0, <2>1, <2>2, <2>4 DEF Rx
  <1> QED
    BY <1>1, <1>2

(* A receiver that reads: it learns that it lagged, or it takes the oldest *)
(* message.                                                                *)
LEMMA NextIsOldest ==
  ASSUME NEW T, NEW rx \in Rx(T), Len(rx.msgs) <= Capacity, rx # Empty
  PROVE  LET new == NextMessage(rx)
         IN  /\ new \in Rx(T)
             /\ Len(new.msgs) <= Capacity
             /\ rx.lagged => new.msgs = rx.msgs
             /\ ~ rx.lagged =>
                  /\ rx.msgs # <<>> /\ Head(rx.msgs) \in T
                  /\ Head(rx.msgs) = rx.msgs[1]
                  /\ new.msgs = Tail(rx.msgs) /\ new.lagged = FALSE
                  /\ new.msgs = <<>> => Head(rx.msgs) = rx.msgs[Len(rx.msgs)]
                  /\ new.msgs # <<>> => new.msgs[Len(new.msgs)] = rx.msgs[Len(rx.msgs)]
                  /\ \A i \in DOMAIN rx.msgs : i # 1 =>
                       i - 1 \in DOMAIN new.msgs /\ new.msgs[i - 1] = rx.msgs[i]
  <1> DEFINE new == NextMessage(rx)
  <1>0. Capacity \in Nat \ {0} /\ rx.msgs \in Seq(T) /\ rx.lagged \in BOOLEAN
        /\ rx = [msgs |-> rx.msgs, lagged |-> rx.lagged]
    BY LiveFeedAssumption DEF Rx
  <1>1. CASE rx.lagged
    <2>1. new = [msgs |-> rx.msgs, lagged |-> FALSE]
      BY <1>0, <1>1 DEF NextMessage
    <2> QED
      BY <1>0, <1>1, <2>1 DEF Rx
  <1>2. CASE ~ rx.lagged
    <2>1. new = [msgs |-> Tail(rx.msgs), lagged |-> FALSE]
      BY <1>0, <1>2 DEF NextMessage
    <2>2. rx.msgs # <<>>
      BY <1>0, <1>2 DEF Empty
    <2>3. /\ Tail(rx.msgs) \in Seq(T) /\ Len(Tail(rx.msgs)) = Len(rx.msgs) - 1
          /\ Head(rx.msgs) = rx.msgs[1] /\ Head(rx.msgs) \in T
          /\ \A i \in DOMAIN rx.msgs : i # 1 =>
               i - 1 \in DOMAIN Tail(rx.msgs) /\ Tail(rx.msgs)[i - 1] = rx.msgs[i]
      BY <1>0, <2>2
    <2>4. Tail(rx.msgs) = <<>> => Len(rx.msgs) = 1
      <3>1. Len(<<>>) = 0
        OBVIOUS
      <3>2. Tail(rx.msgs) = <<>> => Len(rx.msgs) - 1 = 0
        BY <2>3, <3>1
      <3> QED
        BY <1>0, <3>2
    <2>5. Tail(rx.msgs) # <<>> => Tail(rx.msgs)[Len(Tail(rx.msgs))] = rx.msgs[Len(rx.msgs)]
      <3> SUFFICES ASSUME Tail(rx.msgs) # <<>>
                   PROVE  Tail(rx.msgs)[Len(rx.msgs) - 1] = rx.msgs[Len(rx.msgs)]
        BY <2>3
      <3>1. Len(rx.msgs) \in DOMAIN rx.msgs /\ Len(rx.msgs) # 1
        BY <1>0, <2>2, <2>3
      <3> QED
        BY <2>3, <3>1
    <2> QED
      BY <1>0, <1>2, <2>1, <2>2, <2>3, <2>4, <2>5 DEF Rx
  <1> QED
    BY <1>1, <1>2

-----------------------------------------------------------------------------
LEMMA EmptyIsFresh ==
  /\ Empty \in Rx({"lifecycle", "queue"}) /\ Empty \in Rx(PlayingMsgs) /\ Empty \in Rx(Nat)
  /\ Len(Empty.msgs) <= Capacity
  <1>1. Len(<<>>) = 0
    OBVIOUS
  <1> QED
    BY <1>1, LiveFeedAssumption DEF Empty, Rx

LEMMA InitFeed == Init => FeedInv
  <1> SUFFICES ASSUME Init PROVE FeedInv
    OBVIOUS
  <1>1. Shape
    <2>1. feed \in [at : {"none", "top", "ended"} \cup Watching \cup Attached, target : Nat,
                    last : {"none", "stopped", "started"}, seen : {"none", "stopped", "started"},
                    force : BOOLEAN]
      BY DEF Init, NoFeed
    <2>2. view = [status |-> view.status, queue |-> view.queue]
      BY DEF Init
    <2> QED
      BY EmptyIsFresh, <2>1, <2>2 DEF Init, Shape
  <1>2. RuntimeInv /\ StatusInv /\ QueueInv /\ SeenInv /\ WatchInv
    BY DEF Init, RuntimeInv, StatusInv, QueueInv, SeenInv, WatchInv, NoFeed, Attached
  <1> QED
    BY <1>1, <1>2 DEF FeedInv

(* A notification reaches a task that watches, and no other.               *)
LEMMA NotifyReaches ==
  ASSUME Shape, NEW kind \in {"lifecycle", "queue"}, Notify(kind)
  PROVE  /\ notes' \in Rx({"lifecycle", "queue"})
         /\ Len(notes'.msgs) <= Capacity
         /\ feed.at \notin Watching => notes' = notes
         /\ feed.at \in Watching =>
              /\ notes'.msgs # <<>>
              /\ QueueNoted \/ kind = "queue" =>
                   notes'.lagged \/ \E i \in DOMAIN notes'.msgs : notes'.msgs[i] = "queue"
  <1>1. notes \in Rx({"lifecycle", "queue"}) /\ Len(notes.msgs) <= Capacity
    BY DEF Shape
  <1>2. CASE feed.at \in Watching
    <2> DEFINE new == Sent(notes, kind)
               Kinds == {"lifecycle", "queue"}
    <2>1. notes' = new
      BY <1>2 DEF Notify
    <2>k. notes \in Rx(Kinds) /\ kind \in Kinds
      BY <1>1
    <2> HIDE DEF Kinds
    <2>s. /\ new \in Rx(Kinds)
          /\ Len(new.msgs) <= Capacity
          /\ new.msgs # <<>>
          /\ new.msgs[Len(new.msgs)] = kind
          /\ notes.lagged => new.lagged
          /\ \A x : (\E i \in DOMAIN notes.msgs : notes.msgs[i] = x)
               => new.lagged \/ \E i \in DOMAIN new.msgs : new.msgs[i] = x
      BY <1>1, <2>k, SentIsLast
    <2> HIDE DEF new
    <2>2. /\ new \in Rx({"lifecycle", "queue"})
          /\ Len(new.msgs) <= Capacity
          /\ new.msgs # <<>>
          /\ new.msgs[Len(new.msgs)] = kind
          /\ notes.lagged => new.lagged
          /\ (\E i \in DOMAIN notes.msgs : notes.msgs[i] = "queue")
               => new.lagged \/ \E i \in DOMAIN new.msgs : new.msgs[i] = "queue"
      BY <2>s DEF Kinds
    <2>3. Len(new.msgs) \in DOMAIN new.msgs
      BY <2>2 DEF Rx
    <2>4. QueueNoted \/ kind = "queue" =>
            new.lagged \/ \E i \in DOMAIN new.msgs : new.msgs[i] = "queue"
      <3>1. CASE QueueNoted
        BY <2>2, <3>1 DEF QueueNoted
      <3>2. CASE kind = "queue"
        BY <2>2, <2>3, <3>2
      <3> QED
        BY <3>1, <3>2
    <2> QED
      BY <1>2, <2>1, <2>2, <2>4
  <1>3. CASE feed.at \notin Watching
    BY <1>1, <1>3 DEF Notify
  <1> QED
    BY <1>2, <1>3

(* A broadcast reaches the task that is attached to its runtime.           *)
LEMMA BroadcastReaches ==
  ASSUME NEW T, NEW rx \in Rx(T), NEW m \in T, Len(rx.msgs) <= Capacity
  PROVE  LET new == Broadcast(rx, m)
         IN  /\ new \in Rx(T)
             /\ Len(new.msgs) <= Capacity
             /\ feed.at \in Attached /\ feed.target = runtime =>
                  new.msgs # <<>> /\ new.msgs[Len(new.msgs)] = m
             /\ ~ (feed.at \in Attached /\ feed.target = runtime) => new = rx
  <1> DEFINE new == Sent(rx, m)
  <1>1. /\ new \in Rx(T)
        /\ Len(new.msgs) <= Capacity
        /\ new.msgs # <<>>
        /\ new.msgs[Len(new.msgs)] = m
    BY SentIsLast
  <1> HIDE DEF new
  <1>2. Broadcast(rx, m) = IF feed.at \in Attached /\ feed.target = runtime THEN new ELSE rx
    BY DEF Broadcast, new
  <1> QED
    BY <1>1, <1>2

(* Whatever is told, the view has its two parts.                           *)
LEMMA TellShape ==
  ASSUME Shape, NEW what \in {"status", "queue"}, NEW m, Tell(what, m)
  PROVE  view' = [status |-> view'.status, queue |-> view'.queue]
  <1>1. view = [status |-> view.status, queue |-> view.queue]
    BY DEF Shape
  <1> QED
    BY <1>1 DEF Tell

LEMMA TakeLockKeeps == FeedInv /\ TakeLock => FeedInv'
  <1> SUFFICES ASSUME FeedInv, TakeLock PROVE FeedInv'
    OBVIOUS
  <1>0. Shape /\ RuntimeInv /\ StatusInv /\ QueueInv /\ SeenInv /\ WatchInv
    BY DEF FeedInv
  <1>1. Shape'
    BY <1>0 DEF TakeLock, Shape, Watching, Attached, station
  <1>2. RuntimeInv'
    BY <1>0 DEF TakeLock, RuntimeInv, Shape, Watching, Attached, station
  <1>3. StatusInv'
    BY <1>0 DEF TakeLock, StatusInv, RuntimeInv, Shape, Playing, Told, Attached, station
  <1>4. QueueInv'
    BY <1>0 DEF TakeLock, QueueInv, RuntimeInv, Shape, Attached, station
  <1>5. SeenInv'
    BY <1>0 DEF TakeLock, SeenInv, Settled, Shape, Told, Label, Watching, station
  <1>6. WatchInv'
    BY <1>0 DEF TakeLock, WatchInv, RuntimeInv, Shape, QueueShown, QueueNoted, Watching, station
  <1> QED
    BY <1>1, <1>2, <1>3, <1>4, <1>5, <1>6 DEF FeedInv

(* A transition that ends without a notification: what a watching task was *)
(* not told of the row is written down.                                    *)
LEMMA UnheardKeeps ==
  ASSUME FeedInv, NEW changed \in {"stopped", "started", "gone"}, Unheard(changed),
         UNCHANGED <<runtime, runtimes, track, queue, unpushed, owed, client, feed, statuses,
                     queues, view>>
  PROVE  FeedInv'
  <1>0. Shape /\ RuntimeInv /\ StatusInv /\ QueueInv /\ SeenInv /\ WatchInv
    BY DEF FeedInv
  <1>1. /\ row' \in {"stopped", "started", "gone"} /\ lock' = "free" /\ notes' = notes
        /\ lost \subseteq lost' /\ lost' \subseteq lost \cup {"reply"}
        /\ row' # row /\ feed.at \in Watching => "reply" \in lost'
    BY <1>0 DEF Unheard, Shape
  <1>2. Shape'
    BY <1>0, <1>1 DEF Shape
  <1>3. RuntimeInv'
    BY <1>0, <1>1 DEF RuntimeInv
  <1>4. StatusInv'
    BY <1>0, <1>1 DEF StatusInv, Playing, Told
  <1>5. QueueInv'
    BY <1>0, <1>1 DEF QueueInv
  <1>6. SeenInv'
    BY <1>0, <1>1 DEF SeenInv, Settled, Told, Label, Watching
  <1>7. WatchInv'
    BY <1>0, <1>1 DEF WatchInv, QueueShown, QueueNoted
  <1> QED
    BY <1>2, <1>3, <1>4, <1>5, <1>6, <1>7 DEF FeedInv

LEMMA PersistKeeps == FeedInv /\ Persist => FeedInv'
  <1> SUFFICES ASSUME FeedInv, Persist PROVE FeedInv'
    OBVIOUS
  <1> DEFINE desired == IF lock = "play" THEN "started" ELSE "stopped"
  <1>u. UNCHANGED <<runtime, runtimes, track, queue, unpushed, owed, client, feed, statuses,
                    queues, view>>
    BY DEF Persist
  <1>h. \/ /\ row' = desired /\ Notify("lifecycle") /\ UNCHANGED lost
           /\ lock' = IF lock = "stop" THEN "drain" ELSE IF runtime = 0 THEN "create" ELSE "free"
        \/ Unheard(desired)
    BY DEF Persist
  <1>s. desired \in {"stopped", "started", "gone"}
    OBVIOUS
  <1> HIDE DEF desired
  <1>f. CASE Unheard(desired)
    BY <1>f, <1>s, <1>u, UnheardKeeps
  <1>n. CASE /\ row' = desired /\ Notify("lifecycle") /\ UNCHANGED lost
             /\ lock' = IF lock = "stop" THEN "drain" ELSE IF runtime = 0 THEN "create" ELSE "free"
    <2>0. Shape /\ RuntimeInv /\ StatusInv /\ QueueInv /\ SeenInv /\ WatchInv
      BY DEF FeedInv
    <2>r. row' \in {"stopped", "started", "gone"} /\ lock' \in {"drain", "create", "free"}
      BY <1>n, <1>s
    <2>e. /\ notes' \in Rx({"lifecycle", "queue"}) /\ Len(notes'.msgs) <= Capacity
          /\ feed.at \notin Watching => notes' = notes
          /\ feed.at \in Watching =>
               notes'.msgs # <<>> /\ (QueueNoted => QueueNoted')
      BY <1>n, <2>0, NotifyReaches DEF QueueNoted
    <2>1. Shape'
      BY <1>n, <1>u, <2>0, <2>r, <2>e DEF Shape
    <2>2. RuntimeInv'
      BY <1>u, <2>0 DEF RuntimeInv
    <2>3. StatusInv'
      BY <1>u, <2>0 DEF StatusInv, Playing, Told
    <2>4. QueueInv'
      BY <1>n, <1>u, <2>0 DEF QueueInv
    <2>5. SeenInv'
      BY <1>n, <1>u, <2>0, <2>e DEF SeenInv, Settled, Told, Label, Watching
    <2>6. WatchInv'
      BY <1>n, <1>u, <2>0, <2>e DEF WatchInv, QueueShown, Watching
    <2> QED
      BY <2>1, <2>2, <2>3, <2>4, <2>5, <2>6 DEF FeedInv
  <1> QED
    BY <1>h, <1>f, <1>n

LEMMA RemoveRuntimeKeeps == FeedInv /\ RemoveRuntime => FeedInv'
  <1> SUFFICES ASSUME FeedInv, RemoveRuntime PROVE FeedInv'
    OBVIOUS
  <1>0. Shape /\ RuntimeInv /\ StatusInv /\ QueueInv /\ SeenInv /\ WatchInv
    BY DEF FeedInv
  <1>1. Shape'
    <2>1. lock' \in {"free", "play", "erase"} /\ lost' \subseteq {"status", "queue", "reply"}
      BY <1>0 DEF RemoveRuntime, Shape
    <2>2. unpushed' \in BOOLEAN
      BY DEF RemoveRuntime
    <2> QED
      BY <1>0, <2>1, <2>2 DEF RemoveRuntime, Shape
  <1>2. RuntimeInv'
    BY <1>0 DEF RemoveRuntime, RuntimeInv, Shape, Watching, Attached, station
  <1>3. StatusInv'
    BY <1>0 DEF RemoveRuntime, StatusInv, RuntimeInv, Shape, Playing, Told, Attached, station
  <1>4. QueueInv'
    BY <1>0 DEF RemoveRuntime, QueueInv, RuntimeInv, Shape, Attached, station
  <1>5. SeenInv'
    BY <1>0 DEF RemoveRuntime, SeenInv, Settled, Shape, Told, Label, Watching, station
  <1>6. WatchInv'
    BY <1>0
       DEF RemoveRuntime, WatchInv, RuntimeInv, Shape, QueueShown, QueueNoted, Watching, station
  <1> QED
    BY <1>1, <1>2, <1>3, <1>4, <1>5, <1>6 DEF FeedInv

LEMMA CreateRuntimeKeeps == FeedInv /\ CreateRuntime => FeedInv'
  <1> SUFFICES ASSUME FeedInv, CreateRuntime PROVE FeedInv'
    OBVIOUS
  <1>0. Shape /\ RuntimeInv /\ StatusInv /\ QueueInv /\ SeenInv /\ WatchInv
    BY DEF FeedInv
  <1>1. Shape'
    BY <1>0 DEF CreateRuntime, Shape, Watching, Attached, station
  <1>2. RuntimeInv'
    BY <1>0 DEF CreateRuntime, RuntimeInv, Shape, Watching, Attached, station
  <1>3. StatusInv'
    BY <1>0 DEF CreateRuntime, StatusInv, RuntimeInv, Shape, Playing, Told, Attached, station
  <1>4. QueueInv'
    BY <1>0 DEF CreateRuntime, QueueInv, RuntimeInv, Shape, Attached, station
  <1>5. SeenInv'
    BY <1>0 DEF CreateRuntime, SeenInv, Settled, Shape, Told, Label, Watching, station
  <1>6. WatchInv'
    BY <1>0
       DEF CreateRuntime, WatchInv, RuntimeInv, Shape, QueueShown, QueueNoted, Watching, station
  <1> QED
    BY <1>1, <1>2, <1>3, <1>4, <1>5, <1>6 DEF FeedInv

LEMMA EraseRowKeeps == FeedInv /\ EraseRow => FeedInv'
  <1> SUFFICES ASSUME FeedInv, EraseRow PROVE FeedInv'
    OBVIOUS
  <1>u. UNCHANGED <<runtime, runtimes, track, queue, unpushed, owed, client, feed, statuses,
                    queues, view>>
    BY DEF EraseRow
  <1>h. \/ row' = "gone" /\ lock' = "free" /\ Notify("lifecycle") /\ UNCHANGED lost
        \/ Unheard("gone")
    BY DEF EraseRow
  <1>f. CASE Unheard("gone")
    BY <1>f, <1>u, UnheardKeeps
  <1>n. CASE row' = "gone" /\ lock' = "free" /\ Notify("lifecycle") /\ UNCHANGED lost
    <2>0. Shape /\ RuntimeInv /\ StatusInv /\ QueueInv /\ SeenInv /\ WatchInv
      BY DEF FeedInv
    <2>r. row' \in {"stopped", "started", "gone"} /\ lock' = "free"
      BY <1>n
    <2>e. /\ notes' \in Rx({"lifecycle", "queue"}) /\ Len(notes'.msgs) <= Capacity
          /\ feed.at \notin Watching => notes' = notes
          /\ feed.at \in Watching =>
               notes'.msgs # <<>> /\ (QueueNoted => QueueNoted')
      BY <1>n, <2>0, NotifyReaches DEF QueueNoted
    <2>1. Shape'
      BY <1>n, <1>u, <2>0, <2>r, <2>e DEF Shape
    <2>2. RuntimeInv'
      BY <1>u, <2>0 DEF RuntimeInv
    <2>3. StatusInv'
      BY <1>u, <2>0 DEF StatusInv, Playing, Told
    <2>4. QueueInv'
      BY <1>n, <1>u, <2>0 DEF QueueInv
    <2>5. SeenInv'
      BY <1>n, <1>u, <2>0, <2>e DEF SeenInv, Settled, Told, Label, Watching
    <2>6. WatchInv'
      BY <1>n, <1>u, <2>0, <2>e DEF WatchInv, QueueShown, Watching
    <2> QED
      BY <2>1, <2>2, <2>3, <2>4, <2>5, <2>6 DEF FeedInv
  <1> QED
    BY <1>h, <1>f, <1>n

LEMMA AdvanceKeeps == FeedInv /\ Advance => FeedInv'
  <1> SUFFICES ASSUME FeedInv, Advance PROVE FeedInv'
    OBVIOUS
  <1>0. Shape /\ RuntimeInv /\ StatusInv /\ QueueInv /\ SeenInv /\ WatchInv
    BY DEF FeedInv
  <1>e. /\ Playing' \in PlayingMsgs
        /\ statuses' \in Rx(PlayingMsgs) /\ Len(statuses'.msgs) <= Capacity
        /\ feed.at \in Attached /\ feed.target = runtime =>
             statuses'.msgs # <<>> /\ statuses'.msgs[Len(statuses'.msgs)] = Playing'
        /\ ~ (feed.at \in Attached /\ feed.target = runtime) => statuses' = statuses
    <2>1. Playing' \in PlayingMsgs
      BY <1>0 DEF Advance, Playing, PlayingMsgs, Shape
    <2>2. statuses' = Broadcast(statuses, Playing')
      BY DEF Advance, Playing
    <2> QED
      BY <1>0, <2>1, <2>2, BroadcastReaches DEF Shape
  <1>1. Shape'
    <2>1. /\ track' = track + 1 /\ queue' = queue + 1 /\ unpushed' = TRUE
          /\ UNCHANGED <<row, lock, runtime, runtimes, owed, client, feed, notes, queues, view,
                         lost>>
      BY DEF Advance
    <2>2. track' \in Nat /\ queue' \in Nat
      BY <1>0, <2>1 DEF Shape
    <2> QED
      BY <1>0, <1>e, <2>1, <2>2 DEF Shape
  <1>2. RuntimeInv'
    BY <1>0, <1>e DEF Advance, RuntimeInv, Shape, Watching, Attached, station
  <1>3. StatusInv'
    BY <1>0, <1>e DEF Advance, StatusInv, RuntimeInv, Shape, Playing, Told, Attached, station
  <1>4. QueueInv'
    BY <1>0, <1>e DEF Advance, QueueInv, RuntimeInv, Shape, Attached, station
  <1>5. SeenInv'
    BY <1>0, <1>e DEF Advance, SeenInv, Settled, Shape, Told, Label, Watching, station
  <1>6. WatchInv'
    BY <1>0, <1>e
       DEF Advance, WatchInv, RuntimeInv, Shape, QueueShown, QueueNoted, Watching, station
  <1> QED
    BY <1>1, <1>2, <1>3, <1>4, <1>5, <1>6 DEF FeedInv

LEMMA PushAfterCommitKeeps == FeedInv /\ PushAfterCommit => FeedInv'
  <1> SUFFICES ASSUME FeedInv, PushAfterCommit PROVE FeedInv'
    OBVIOUS
  <1>0. Shape /\ RuntimeInv /\ StatusInv /\ QueueInv /\ SeenInv /\ WatchInv
    BY DEF FeedInv
  <1>p. /\ Broadcast(queues, queue) \in Rx(Nat) /\ Len(Broadcast(queues, queue).msgs) <= Capacity
        /\ feed.at \in Attached /\ feed.target = runtime =>
             /\ Broadcast(queues, queue).msgs # <<>>
             /\ Broadcast(queues, queue).msgs[Len(Broadcast(queues, queue).msgs)] = queue
        /\ ~ (feed.at \in Attached /\ feed.target = runtime) => Broadcast(queues, queue) = queues
    BY <1>0, BroadcastReaches DEF Shape
  <1>1. Shape'
    <2>1. /\ queues' \in Rx(Nat) /\ Len(queues'.msgs) <= Capacity
          /\ lost' \subseteq {"status", "queue", "reply"}
      BY <1>0, <1>p DEF PushAfterCommit, PushQueue, Shape
    <2>2. unpushed' \in BOOLEAN
      BY DEF PushAfterCommit
    <2> QED
      BY <1>0, <2>1, <2>2 DEF PushAfterCommit, Shape
  <1>2. RuntimeInv'
    BY <1>0, <1>p DEF PushAfterCommit, PushQueue, RuntimeInv, Shape, Watching, Attached, station
  <1>3. StatusInv'
    BY <1>0, <1>p
       DEF PushAfterCommit, PushQueue, StatusInv, RuntimeInv, Shape, Playing, Told, Attached,
           station
  <1>4. QueueInv'
    BY <1>0, <1>p DEF PushAfterCommit, PushQueue, QueueInv, RuntimeInv, Shape, Attached, station
  <1>5. SeenInv'
    BY <1>0, <1>p
       DEF PushAfterCommit, PushQueue, SeenInv, Settled, Shape, Told, Label, Watching, station
  <1>6. WatchInv'
    BY <1>0, <1>p
       DEF PushAfterCommit, PushQueue, WatchInv, RuntimeInv, Shape, QueueShown, QueueNoted,
           Watching, station
  <1> QED
    BY <1>1, <1>2, <1>3, <1>4, <1>5, <1>6 DEF FeedInv

LEMMA EditKeeps == FeedInv /\ Edit => FeedInv'
  <1> SUFFICES ASSUME FeedInv, Edit PROVE FeedInv'
    OBVIOUS
  <1>0. Shape /\ RuntimeInv /\ StatusInv /\ QueueInv /\ SeenInv /\ WatchInv
    BY DEF FeedInv
  <1>1. Shape'
    BY <1>0 DEF Edit, Shape, Watching, Attached, station
  <1>2. RuntimeInv'
    BY <1>0 DEF Edit, RuntimeInv, Shape, Watching, Attached, station
  <1>3. StatusInv'
    BY <1>0 DEF Edit, StatusInv, RuntimeInv, Shape, Playing, Told, Attached, station
  <1>4. QueueInv'
    BY <1>0 DEF Edit, QueueInv, RuntimeInv, Shape, Attached, station
  <1>5. SeenInv'
    BY <1>0 DEF Edit, SeenInv, Settled, Shape, Told, Label, Watching, station
  <1>6. WatchInv'
    BY <1>0 DEF Edit, WatchInv, RuntimeInv, Shape, QueueShown, QueueNoted, Watching, station
  <1> QED
    BY <1>1, <1>2, <1>3, <1>4, <1>5, <1>6 DEF FeedInv

LEMMA SynchronizeKeeps == FeedInv /\ Synchronize => FeedInv'
  <1> SUFFICES ASSUME FeedInv, Synchronize PROVE FeedInv'
    OBVIOUS
  <1>0. Shape /\ RuntimeInv /\ StatusInv /\ QueueInv /\ SeenInv /\ WatchInv
    BY DEF FeedInv
  <1>p. /\ Broadcast(queues, queue) \in Rx(Nat) /\ Len(Broadcast(queues, queue).msgs) <= Capacity
        /\ feed.at \in Attached /\ feed.target = runtime =>
             /\ Broadcast(queues, queue).msgs # <<>>
             /\ Broadcast(queues, queue).msgs[Len(Broadcast(queues, queue).msgs)] = queue
        /\ ~ (feed.at \in Attached /\ feed.target = runtime) => Broadcast(queues, queue) = queues
    BY <1>0, BroadcastReaches DEF Shape
  <1>e. runtime = 0 /\ Notify("queue") =>
          /\ notes' \in Rx({"lifecycle", "queue"}) /\ Len(notes'.msgs) <= Capacity
          /\ feed.at \notin Watching => notes' = notes
          /\ feed.at \in Watching => notes'.msgs # <<>> /\ QueueNoted'
    BY <1>0, NotifyReaches DEF QueueNoted
  <1>1. Shape'
    <2>1. /\ queues' \in Rx(Nat) /\ Len(queues'.msgs) <= Capacity
          /\ lost' \subseteq {"status", "queue", "reply"}
      BY <1>0, <1>p DEF Synchronize, PushQueue, Shape
    <2>2. notes' \in Rx({"lifecycle", "queue"}) /\ Len(notes'.msgs) <= Capacity
      BY <1>0, <1>e DEF Synchronize, Shape
    <2>3. /\ owed' = FALSE
          /\ UNCHANGED <<row, lock, runtime, runtimes, track, queue, unpushed, client, feed,
                         statuses, view>>
      BY DEF Synchronize
    <2>4. feed \in [at : {"none", "top", "ended"} \cup Watching \cup Attached, target : Nat,
                    last : {"none", "stopped", "started"}, seen : {"none", "stopped", "started"},
                    force : BOOLEAN]
          /\ view = [status |-> view.status, queue |-> view.queue]
          /\ statuses \in Rx(PlayingMsgs) /\ Len(statuses.msgs) <= Capacity
      BY <1>0 DEF Shape
    <2>5. /\ row' \in {"stopped", "started", "gone"}
          /\ lock' \in {"free", "play", "stop", "delete", "restart", "drain", "create", "erase"}
          /\ runtime' \in Nat /\ runtimes' \in Nat /\ track' \in Nat /\ queue' \in Nat
          /\ unpushed' \in BOOLEAN /\ owed' \in BOOLEAN
          /\ client' \in {"open", "revoked", "gone"}
      BY <1>0, <2>3 DEF Shape
    <2>6. feed' = feed /\ view' = view /\ statuses' = statuses
      BY <2>3
    <2> QED
      BY <2>1, <2>2, <2>4, <2>5, <2>6 DEF Shape
  <1>2. RuntimeInv'
    BY <1>0, <1>p, <1>e
       DEF Synchronize, PushQueue, RuntimeInv, Shape, Watching, Attached, station
  <1>3. StatusInv'
    BY <1>0, <1>p, <1>e
       DEF Synchronize, PushQueue, StatusInv, RuntimeInv, Shape, Playing, Told, Attached,
           station
  <1>4. QueueInv'
    BY <1>0, <1>p, <1>e
       DEF Synchronize, PushQueue, QueueInv, RuntimeInv, Shape, Attached, station
  <1>5. SeenInv'
    BY <1>0, <1>p, <1>e
       DEF Synchronize, PushQueue, SeenInv, Settled, Shape, Told, Label, Watching, station
  <1>6. WatchInv'
    BY <1>0, <1>p, <1>e
       DEF Synchronize, PushQueue, WatchInv, RuntimeInv, Shape, QueueShown, QueueNoted,
           Watching, station
  <1> QED
    BY <1>1, <1>2, <1>3, <1>4, <1>5, <1>6 DEF FeedInv

LEMMA AbandonKeeps == FeedInv /\ Abandon => FeedInv'
  <1> SUFFICES ASSUME FeedInv, Abandon PROVE FeedInv'
    OBVIOUS
  <1>0. Shape /\ RuntimeInv /\ StatusInv /\ QueueInv /\ SeenInv /\ WatchInv
    BY DEF FeedInv
  <1>e. /\ lost \subseteq lost' /\ lost' \subseteq lost \cup {"queue"}
        /\ feed.at \in Watching \cup Attached => "queue" \in lost'
        /\ owed' = FALSE
        /\ UNCHANGED <<row, lock, runtime, runtimes, track, queue, unpushed, client, feed,
                       notes, statuses, queues, view>>
    BY DEF Abandon
  <1>1. Shape'
    <2>1. lost' \subseteq {"status", "queue", "reply"}
      <3>1. lost \subseteq {"status", "queue", "reply"}
        BY <1>0 DEF Shape
      <3> QED
        BY <1>e, <3>1
    <2>2. owed' \in BOOLEAN
      BY <1>e
    <2> QED
      BY <1>0, <1>e, <2>1, <2>2 DEF Shape
  <1>2. RuntimeInv'
    BY <1>0, <1>e DEF RuntimeInv
  <1>3. StatusInv'
    BY <1>0, <1>e DEF StatusInv, Playing, Told
  <1>4. QueueInv'
    BY <1>0, <1>e DEF QueueInv
  <1>5. SeenInv'
    BY <1>0, <1>e DEF SeenInv, Settled, Told
  <1>6. WatchInv'
    BY <1>0, <1>e DEF WatchInv, QueueShown, Watching
  <1> QED
    BY <1>1, <1>2, <1>3, <1>4, <1>5, <1>6 DEF FeedInv

LEMMA SubscribeKeeps == FeedInv /\ Subscribe => FeedInv'
  <1> SUFFICES ASSUME FeedInv, Subscribe PROVE FeedInv'
    OBVIOUS
  <1>0. Shape /\ RuntimeInv /\ StatusInv /\ QueueInv /\ SeenInv /\ WatchInv
    BY DEF FeedInv
  <1>1. Shape'
    BY <1>0 DEF Subscribe, NoFeed, Shape, Watching, Attached, station
  <1>2. RuntimeInv'
    BY <1>0 DEF Subscribe, NoFeed, RuntimeInv, Shape, Watching, Attached, station
  <1>3. StatusInv'
    BY <1>0
       DEF Subscribe, NoFeed, StatusInv, RuntimeInv, Shape, Playing, Told, Attached, station
  <1>4. QueueInv'
    BY <1>0 DEF Subscribe, NoFeed, QueueInv, RuntimeInv, Shape, Attached, station
  <1>5. SeenInv'
    BY <1>0 DEF Subscribe, NoFeed, SeenInv, Settled, Shape, Told, Label, Watching, station
  <1>6. WatchInv'
    BY <1>0
       DEF Subscribe, NoFeed, WatchInv, RuntimeInv, Shape, QueueShown, QueueNoted, Watching,
           station
  <1> QED
    BY <1>1, <1>2, <1>3, <1>4, <1>5, <1>6 DEF FeedInv

LEMMA UnsubscribeKeeps == FeedInv /\ Unsubscribe => FeedInv'
  <1> SUFFICES ASSUME FeedInv, Unsubscribe PROVE FeedInv'
    OBVIOUS
  <1>0. Shape /\ RuntimeInv /\ StatusInv /\ QueueInv /\ SeenInv /\ WatchInv
    BY DEF FeedInv
  <1>1. Shape'
    <2>1. notes' = Empty /\ statuses' = Empty /\ queues' = Empty
      BY DEF Unsubscribe, Drop
    <2>2. feed' \in [at : {"none", "top", "ended"} \cup Watching \cup Attached, target : Nat,
                     last : {"none", "stopped", "started"},
                     seen : {"none", "stopped", "started"}, force : BOOLEAN]
      BY <1>0 DEF Unsubscribe, Drop, NoFeed, Watching, Attached, Shape
    <2> QED
      BY <1>0, <2>1, <2>2, EmptyIsFresh DEF Unsubscribe, Shape, station
  <1>2. RuntimeInv'
    BY <1>0 DEF Unsubscribe, Drop, NoFeed, Empty, RuntimeInv, Shape, Watching, Attached, station
  <1>3. StatusInv'
    BY <1>0
       DEF Unsubscribe, Drop, NoFeed, Empty, StatusInv, RuntimeInv, Shape, Playing, Told,
           Attached, station
  <1>4. QueueInv'
    BY <1>0 DEF Unsubscribe, Drop, NoFeed, Empty, QueueInv, RuntimeInv, Shape, Attached, station
  <1>5. SeenInv'
    BY <1>0
       DEF Unsubscribe, Drop, NoFeed, Empty, SeenInv, Settled, Shape, Told, Label, Watching, station
  <1>6. WatchInv'
    BY <1>0
       DEF Unsubscribe, Drop, NoFeed, Empty, WatchInv, RuntimeInv, Shape, QueueShown,
           QueueNoted, Watching, station
  <1> QED
    BY <1>1, <1>2, <1>3, <1>4, <1>5, <1>6 DEF FeedInv

LEMMA RevokeKeeps == FeedInv /\ Revoke => FeedInv'
  <1> SUFFICES ASSUME FeedInv, Revoke PROVE FeedInv'
    OBVIOUS
  <1>0. Shape /\ RuntimeInv /\ StatusInv /\ QueueInv /\ SeenInv /\ WatchInv
    BY DEF FeedInv
  <1>1. Shape'
    BY <1>0 DEF Revoke, Shape, Watching, Attached, station
  <1>2. RuntimeInv'
    BY <1>0 DEF Revoke, RuntimeInv, Shape, Watching, Attached, station
  <1>3. StatusInv'
    BY <1>0 DEF Revoke, StatusInv, RuntimeInv, Shape, Playing, Told, Attached, station
  <1>4. QueueInv'
    BY <1>0 DEF Revoke, QueueInv, RuntimeInv, Shape, Attached, station
  <1>5. SeenInv'
    BY <1>0 DEF Revoke, SeenInv, Settled, Shape, Told, Label, Watching, station
  <1>6. WatchInv'
    BY <1>0 DEF Revoke, WatchInv, RuntimeInv, Shape, QueueShown, QueueNoted, Watching, station
  <1> QED
    BY <1>1, <1>2, <1>3, <1>4, <1>5, <1>6 DEF FeedInv

LEMMA DisconnectKeeps == FeedInv /\ Disconnect => FeedInv'
  <1> SUFFICES ASSUME FeedInv, Disconnect PROVE FeedInv'
    OBVIOUS
  <1>0. Shape /\ RuntimeInv /\ StatusInv /\ QueueInv /\ SeenInv /\ WatchInv
    BY DEF FeedInv
  <1>1. Shape'
    BY <1>0 DEF Disconnect, Shape, Watching, Attached, station
  <1>2. RuntimeInv'
    BY <1>0 DEF Disconnect, RuntimeInv, Shape, Watching, Attached, station
  <1>3. StatusInv'
    BY <1>0 DEF Disconnect, StatusInv, RuntimeInv, Shape, Playing, Told, Attached, station
  <1>4. QueueInv'
    BY <1>0 DEF Disconnect, QueueInv, RuntimeInv, Shape, Attached, station
  <1>5. SeenInv'
    BY <1>0 DEF Disconnect, SeenInv, Settled, Shape, Told, Label, Watching, station
  <1>6. WatchInv'
    BY <1>0
       DEF Disconnect, WatchInv, RuntimeInv, Shape, QueueShown, QueueNoted, Watching, station
  <1> QED
    BY <1>1, <1>2, <1>3, <1>4, <1>5, <1>6 DEF FeedInv

LEMMA AbortFeedKeeps == FeedInv /\ AbortFeed => FeedInv'
  <1> SUFFICES ASSUME FeedInv, AbortFeed PROVE FeedInv'
    OBVIOUS
  <1>0. Shape /\ RuntimeInv /\ StatusInv /\ QueueInv /\ SeenInv /\ WatchInv
    BY DEF FeedInv
  <1>1. Shape'
    <2>1. notes' = Empty /\ statuses' = Empty /\ queues' = Empty
      BY DEF AbortFeed, Drop
    <2>2. feed' \in [at : {"none", "top", "ended"} \cup Watching \cup Attached, target : Nat,
                     last : {"none", "stopped", "started"},
                     seen : {"none", "stopped", "started"}, force : BOOLEAN]
      BY <1>0 DEF AbortFeed, Drop, NoFeed, Watching, Attached, Shape
    <2> QED
      BY <1>0, <2>1, <2>2, EmptyIsFresh DEF AbortFeed, Shape, station
  <1>2. RuntimeInv'
    BY <1>0 DEF AbortFeed, Drop, NoFeed, Empty, RuntimeInv, Shape, Watching, Attached, station
  <1>3. StatusInv'
    BY <1>0
       DEF AbortFeed, Drop, NoFeed, Empty, StatusInv, RuntimeInv, Shape, Playing, Told,
           Attached, station
  <1>4. QueueInv'
    BY <1>0 DEF AbortFeed, Drop, NoFeed, Empty, QueueInv, RuntimeInv, Shape, Attached, station
  <1>5. SeenInv'
    BY <1>0
       DEF AbortFeed, Drop, NoFeed, Empty, SeenInv, Settled, Shape, Told, Label, Watching, station
  <1>6. WatchInv'
    BY <1>0
       DEF AbortFeed, Drop, NoFeed, Empty, WatchInv, RuntimeInv, Shape, QueueShown, QueueNoted,
           Watching, station
  <1> QED
    BY <1>1, <1>2, <1>3, <1>4, <1>5, <1>6 DEF FeedInv

LEMMA EnterKeeps == FeedInv /\ Enter => FeedInv'
  <1> SUFFICES ASSUME FeedInv, Enter PROVE FeedInv'
    OBVIOUS
  <1>0. Shape /\ RuntimeInv /\ StatusInv /\ QueueInv /\ SeenInv /\ WatchInv
    BY DEF FeedInv
  <1>1. Shape'
    <2>1. notes' = Empty /\ statuses' = Empty /\ queues' = Empty
      BY DEF Enter
    <2>2. feed' \in [at : {"none", "top", "ended"} \cup Watching \cup Attached, target : Nat,
                     last : {"none", "stopped", "started"},
                     seen : {"none", "stopped", "started"}, force : BOOLEAN]
      BY <1>0 DEF Enter, NoFeed, Watching, Attached, Shape
    <2> QED
      BY <1>0, <2>1, <2>2, EmptyIsFresh DEF Enter, Shape, station
  <1>2. RuntimeInv'
    BY <1>0 DEF Enter, NoFeed, Empty, RuntimeInv, Shape, Watching, Attached, station
  <1>3. StatusInv'
    BY <1>0
       DEF Enter, NoFeed, Empty, StatusInv, RuntimeInv, Shape, Playing, Told, Attached, station
  <1>4. QueueInv'
    BY <1>0 DEF Enter, NoFeed, Empty, QueueInv, RuntimeInv, Shape, Attached, station
  <1>5. SeenInv'
    BY <1>0 DEF Enter, NoFeed, Empty, SeenInv, Settled, Shape, Told, Label, Watching, station
  <1>6. WatchInv'
    BY <1>0
       DEF Enter, NoFeed, Empty, WatchInv, RuntimeInv, Shape, QueueShown, QueueNoted, Watching,
           station
  <1> QED
    BY <1>1, <1>2, <1>3, <1>4, <1>5, <1>6 DEF FeedInv

LEMMA ObservationKeeps == FeedInv /\ Observation => FeedInv'
  <1> SUFFICES ASSUME FeedInv, Observation PROVE FeedInv'
    OBVIOUS
  <1>0. Shape /\ RuntimeInv /\ StatusInv /\ QueueInv /\ SeenInv /\ WatchInv
    BY DEF FeedInv
  <1>1. Shape'
    <2>1. view' = [status |-> view'.status, queue |-> view'.queue]
      <3>1. view = [status |-> view.status, queue |-> view.queue]
        BY <1>0 DEF Shape
      <3>2. \/ view' = view
            \/ Tell("status", <<"not found">>)
            \/ view' = [status |-> <<"error">>, queue |-> <<>>]
            \/ Tell("status", Label(row))
        BY DEF Observation
      <3> QED
        BY <1>0, <3>1, <3>2, TellShape
    <2>2. \/ feed' = [feed EXCEPT !.at = "top"]
          \/ feed' = [feed EXCEPT !.at = "ended"]
          \/ feed' = [feed EXCEPT !.at = "wait"]
          \/ /\ row # "gone"
             /\ feed' = [feed EXCEPT !.at = IF feed.last # row \/ feed.force THEN "snapshot"
                                            ELSE "wait",
                                     !.seen = row]
      BY DEF Observation
    <2>3. feed' \in [at : {"none", "top", "ended"} \cup Watching \cup Attached, target : Nat,
                     last : {"none", "stopped", "started"},
                     seen : {"none", "stopped", "started"}, force : BOOLEAN]
      BY <1>0, <2>2 DEF Shape, Watching
    <2>4. lost' \subseteq {"status", "queue", "reply"}
      BY <1>0 DEF Observation, Shape
    <2>5. UNCHANGED <<row, lock, runtime, runtimes, track, queue, unpushed, owed, client, notes,
                      statuses, queues>>
      BY DEF Observation, station
    <2> QED
      BY <1>0, <2>1, <2>3, <2>4, <2>5 DEF Shape
  <1>2. RuntimeInv'
    BY <1>0 DEF Observation, Tell, RuntimeInv, Shape, Watching, Attached, station
  <1>3. StatusInv'
    BY <1>0
       DEF Observation, Tell, StatusInv, RuntimeInv, Shape, Playing, Told, Attached, station
  <1>4. QueueInv'
    BY <1>0 DEF Observation, Tell, QueueInv, RuntimeInv, Shape, Attached, station
  <1>5. SeenInv'
    <2>1. CASE runtime # 0
      BY <1>0, <2>1 DEF Observation, SeenInv, Settled, Shape, Told, Label, Watching, station
    <2>2. CASE runtime = 0 /\ feed'.at = "ended"
      BY <1>0, <2>2 DEF Observation, SeenInv, Settled, Shape, Told, Label, Watching, station
    <2>3. CASE /\ runtime = 0 /\ feed' = [feed EXCEPT !.at = "wait"]
               /\ view' = [status |-> <<"error">>, queue |-> <<>>]
      BY <1>0, <2>3 DEF Observation, SeenInv, Settled, Shape, Told, Label, Watching, station
    <2>4. CASE /\ runtime = 0 /\ row # "gone"
               /\ feed' = [feed EXCEPT !.at = IF feed.last # row \/ feed.force THEN "snapshot"
                                              ELSE "wait",
                                       !.seen = row]
               /\ IF feed.last = row THEN UNCHANGED view ELSE Tell("status", Label(row))
               /\ lost' = lost \ (IF feed.last = row THEN {"reply"} ELSE {"reply", "status"})
      <3>1. notes' = notes /\ row' = row /\ row \in {"stopped", "started"}
            /\ view = [status |-> view.status, queue |-> view.queue]
        BY <1>0, <2>4 DEF Observation, Shape, station
      <3>2. /\ feed'.at = IF feed.last # row \/ feed.force THEN "snapshot" ELSE "wait"
            /\ feed'.last = feed.last /\ feed'.seen = row
        BY <1>0, <2>4 DEF Shape
      <3>3. feed.at = "observe"
        BY DEF Observation
      <3>4. CASE feed.last = row
        <4>1. Told(Label(row)) \/ "status" \in lost
          BY <1>0, <3>1, <3>3, <3>4 DEF SeenInv
        <4>2. view' = view /\ ("status" \in lost => "status" \in lost')
          BY <2>4, <3>4
        <4> QED
          BY <3>1, <3>2, <3>4, <4>1, <4>2 DEF SeenInv, Settled, Told, Label
      <3>5. CASE feed.last # row
        <4>1. view'.status = Label(row)
          BY <2>4, <3>1, <3>5 DEF Tell
        <4> QED
          BY <3>1, <3>2, <3>5, <4>1 DEF SeenInv, Settled, Told, Label
      <3> QED
        BY <3>4, <3>5
    <2> QED
      BY <1>0, <2>1, <2>2, <2>3, <2>4 DEF Observation, Label, Shape
  <1>6. WatchInv'
    <2>1. CASE runtime # 0
      BY <1>0, <2>1 DEF Observation, WatchInv, Shape, QueueShown, QueueNoted, station
    <2>2. CASE runtime = 0 /\ feed'.at = "ended"
      BY <1>0, <2>2 DEF Observation, WatchInv, Shape, QueueShown, QueueNoted, station
    <2>3. CASE /\ runtime = 0 /\ feed' = [feed EXCEPT !.at = "wait"]
               /\ view' = [status |-> <<"error">>, queue |-> <<>>]
      BY <1>0, <2>3 DEF Observation, WatchInv, Shape, QueueShown, QueueNoted, station
    <2>4. CASE /\ runtime = 0 /\ row # "gone"
               /\ feed' = [feed EXCEPT !.at = IF feed.last # row \/ feed.force THEN "snapshot"
                                              ELSE "wait",
                                       !.seen = row]
               /\ IF feed.last = row THEN UNCHANGED view ELSE Tell("status", Label(row))
               /\ lost' = lost \ (IF feed.last = row THEN {"reply"} ELSE {"reply", "status"})
      BY <1>0, <2>4 DEF Observation, Tell, WatchInv, Shape, QueueShown, QueueNoted, station
    <2> QED
      BY <1>0, <2>1, <2>2, <2>3, <2>4 DEF Observation, Label, Shape
  <1> QED
    BY <1>1, <1>2, <1>3, <1>4, <1>5, <1>6 DEF FeedInv

LEMMA SnapshotQueueKeeps == FeedInv /\ SnapshotQueue => FeedInv'
  <1> SUFFICES ASSUME FeedInv, SnapshotQueue PROVE FeedInv'
    OBVIOUS
  <1>0. Shape /\ RuntimeInv /\ StatusInv /\ QueueInv /\ SeenInv /\ WatchInv
    BY DEF FeedInv
  <1>1. Shape'
    <2>1. view' = [status |-> view'.status, queue |-> view'.queue]
      BY <1>0, TellShape DEF SnapshotQueue
    <2>2. feed' \in [at : {"none", "top", "ended"} \cup Watching \cup Attached, target : Nat,
                     last : {"none", "stopped", "started"},
                     seen : {"none", "stopped", "started"}, force : BOOLEAN]
      BY <1>0 DEF SnapshotQueue, Shape, Watching
    <2>3. lost' \subseteq {"status", "queue", "reply"}
      BY <1>0 DEF SnapshotQueue, Shape
    <2>4. UNCHANGED <<row, lock, runtime, runtimes, track, queue, unpushed, owed, client, notes,
                      statuses, queues>>
      BY DEF SnapshotQueue, station
    <2> QED
      BY <1>0, <2>1, <2>2, <2>3, <2>4 DEF Shape
  <1>2. RuntimeInv'
    BY <1>0 DEF SnapshotQueue, Tell, RuntimeInv, Shape, Watching, Attached, station
  <1>3. StatusInv'
    BY <1>0
       DEF SnapshotQueue, Tell, StatusInv, RuntimeInv, Shape, Playing, Told, Attached, station
  <1>4. QueueInv'
    BY <1>0 DEF SnapshotQueue, Tell, QueueInv, RuntimeInv, Shape, Attached, station
  <1>5. SeenInv'
    <2>1. /\ notes' = notes /\ row' = row /\ feed'.at = "wait"
          /\ feed.at = "snapshot" /\ feed.seen \in {"stopped", "started"}
      BY <1>0 DEF SnapshotQueue, SeenInv, Shape, station
    <2>2. view'.status = view.status
      BY <1>0 DEF SnapshotQueue, Tell, Shape
    <2>3. /\ feed'.seen = feed.seen
          /\ \/ feed'.last = feed.seen /\ lost' = lost \ {"queue"}
             \/ /\ feed'.last = feed.last
                /\ lost' = lost \cup (IF feed.last \notin {"none", feed.seen} THEN {"status"}
                                     ELSE {})
      BY <1>0 DEF SnapshotQueue, Shape
    <2>4. /\ Settled(feed.seen)
          /\ notes.msgs = <<>> =>
               row = feed.seen \/ "reply" \in lost \/ view.status = <<"error">>
      BY <1>0, <2>1 DEF SeenInv
    <2>5. feed'.last # "none" => Told(Label(feed'.last)) \/ "status" \in lost'
      BY <2>1, <2>3, <2>4 DEF Settled
    <2>6. Told(Label(feed.seen)) \/ ("status" \in lost' /\ feed.seen = feed'.last)
      BY <2>1, <2>3, <2>4 DEF Settled
    <2>7. "reply" \in lost => "reply" \in lost'
      BY <2>3
    <2> QED
      BY <2>1, <2>2, <2>3, <2>4, <2>5, <2>6, <2>7 DEF SeenInv, Settled, Told, Label
  <1>6. WatchInv'
    BY <1>0
       DEF SnapshotQueue, Tell, WatchInv, RuntimeInv, Shape, QueueShown, QueueNoted, Watching,
           station
  <1> QED
    BY <1>1, <1>2, <1>3, <1>4, <1>5, <1>6 DEF FeedInv

LEMMA HearKeeps == FeedInv /\ Hear => FeedInv'
  <1> SUFFICES ASSUME FeedInv, Hear PROVE FeedInv'
    OBVIOUS
  <1>0. Shape /\ RuntimeInv /\ StatusInv /\ QueueInv /\ SeenInv /\ WatchInv
    BY DEF FeedInv
  <1>e. /\ notes' = NextMessage(notes)
        /\ notes' \in Rx({"lifecycle", "queue"}) /\ Len(notes'.msgs) <= Capacity
        /\ QueueNoted /\ ~ (notes.lagged \/ Head(notes.msgs) = "queue") => QueueNoted'
    <2>1. notes' = NextMessage(notes)
      BY DEF Hear, NextMessage
    <2>2. /\ notes' \in Rx({"lifecycle", "queue"}) /\ Len(notes'.msgs) <= Capacity
          /\ ~ notes.lagged =>
               /\ Head(notes.msgs) = notes.msgs[1]
               /\ \A i \in DOMAIN notes.msgs : i # 1 =>
                    i - 1 \in DOMAIN notes'.msgs /\ notes'.msgs[i - 1] = notes.msgs[i]
      <3> DEFINE T == {"lifecycle", "queue"}
      <3>1. notes \in Rx(T) /\ Len(notes.msgs) <= Capacity /\ notes # Empty
        BY <1>0 DEF Shape, Hear
      <3> HIDE DEF T
      <3>2. LET new == NextMessage(notes)
            IN  /\ new \in Rx(T)
                /\ Len(new.msgs) <= Capacity
                /\ ~ notes.lagged =>
                     /\ Head(notes.msgs) = notes.msgs[1]
                     /\ \A i \in DOMAIN notes.msgs : i # 1 =>
                          i - 1 \in DOMAIN new.msgs /\ new.msgs[i - 1] = notes.msgs[i]
        BY <3>1, NextIsOldest
      <3> QED
        BY <2>1, <3>2 DEF T
    <2> QED
      BY <2>1, <2>2 DEF QueueNoted
  <1>1. Shape'
    BY <1>0, <1>e DEF Hear, Shape, Watching, Attached, station
  <1>2. RuntimeInv'
    BY <1>0, <1>e DEF Hear, RuntimeInv, Shape, Watching, Attached, station
  <1>3. StatusInv'
    BY <1>0, <1>e DEF Hear, StatusInv, RuntimeInv, Shape, Playing, Told, Attached, station
  <1>4. QueueInv'
    BY <1>0, <1>e DEF Hear, QueueInv, RuntimeInv, Shape, Attached, station
  <1>5. SeenInv'
    BY <1>0, <1>e DEF Hear, SeenInv, Settled, Shape, Told, Label, Watching, station
  <1>6. WatchInv'
    BY <1>0, <1>e
       DEF Hear, WatchInv, RuntimeInv, Shape, QueueShown, QueueNoted, Watching, station
  <1> QED
    BY <1>1, <1>2, <1>3, <1>4, <1>5, <1>6 DEF FeedInv

LEMMA PollMapKeeps == FeedInv /\ PollMap => FeedInv'
  <1> SUFFICES ASSUME FeedInv, PollMap PROVE FeedInv'
    OBVIOUS
  <1>0. Shape /\ RuntimeInv /\ StatusInv /\ QueueInv /\ SeenInv /\ WatchInv
    BY DEF FeedInv
  <1>1. Shape'
    BY <1>0 DEF PollMap, Shape, Watching, Attached, station
  <1>2. RuntimeInv'
    BY <1>0 DEF PollMap, RuntimeInv, Shape, Watching, Attached, station
  <1>3. StatusInv'
    BY <1>0 DEF PollMap, StatusInv, RuntimeInv, Shape, Playing, Told, Attached, station
  <1>4. QueueInv'
    BY <1>0 DEF PollMap, QueueInv, RuntimeInv, Shape, Attached, station
  <1>5. SeenInv'
    BY <1>0 DEF PollMap, SeenInv, Settled, Shape, Told, Label, Watching, station
  <1>6. WatchInv'
    BY <1>0 DEF PollMap, WatchInv, RuntimeInv, Shape, QueueShown, QueueNoted, Watching, station
  <1> QED
    BY <1>1, <1>2, <1>3, <1>4, <1>5, <1>6 DEF FeedInv

LEMMA AttachStatusKeeps == FeedInv /\ AttachStatus => FeedInv'
  <1> SUFFICES ASSUME FeedInv, AttachStatus PROVE FeedInv'
    OBVIOUS
  <1>0. Shape /\ RuntimeInv /\ StatusInv /\ QueueInv /\ SeenInv /\ WatchInv
    BY DEF FeedInv
  <1>1. Shape'
    <2>1. view' = [status |-> view'.status, queue |-> view'.queue]
      BY <1>0, TellShape DEF AttachStatus
    <2>2. feed' \in [at : {"none", "top", "ended"} \cup Watching \cup Attached, target : Nat,
                     last : {"none", "stopped", "started"},
                     seen : {"none", "stopped", "started"}, force : BOOLEAN]
      BY <1>0 DEF AttachStatus, Shape, Attached
    <2>3. lost' \subseteq {"status", "queue", "reply"}
      BY <1>0 DEF AttachStatus, Shape
    <2>4. UNCHANGED <<row, lock, runtime, runtimes, track, queue, unpushed, owed, client, notes,
                      statuses, queues>>
      BY DEF AttachStatus, station
    <2> QED
      BY <1>0, <2>1, <2>2, <2>3, <2>4 DEF Shape
  <1>2. RuntimeInv'
    BY <1>0 DEF AttachStatus, Tell, RuntimeInv, Shape, Watching, Attached, station
  <1>3. StatusInv'
    BY <1>0
       DEF AttachStatus, Tell, StatusInv, RuntimeInv, Shape, Playing, Told, Attached, station
  <1>4. QueueInv'
    BY <1>0 DEF AttachStatus, Tell, QueueInv, RuntimeInv, Shape, Attached, station
  <1>5. SeenInv'
    BY <1>0 DEF AttachStatus, Tell, SeenInv, Settled, Shape, Told, Label, Watching, station
  <1>6. WatchInv'
    BY <1>0
       DEF AttachStatus, Tell, WatchInv, RuntimeInv, Shape, QueueShown, QueueNoted, Watching,
           station
  <1> QED
    BY <1>1, <1>2, <1>3, <1>4, <1>5, <1>6 DEF FeedInv

LEMMA AttachQueueKeeps == FeedInv /\ AttachQueue => FeedInv'
  <1> SUFFICES ASSUME FeedInv, AttachQueue PROVE FeedInv'
    OBVIOUS
  <1>0. Shape /\ RuntimeInv /\ StatusInv /\ QueueInv /\ SeenInv /\ WatchInv
    BY DEF FeedInv
  <1>1. Shape'
    <2>1. view' = [status |-> view'.status, queue |-> view'.queue]
      BY <1>0, TellShape DEF AttachQueue
    <2>2. feed' \in [at : {"none", "top", "ended"} \cup Watching \cup Attached, target : Nat,
                     last : {"none", "stopped", "started"},
                     seen : {"none", "stopped", "started"}, force : BOOLEAN]
      BY <1>0 DEF AttachQueue, Shape, Attached
    <2>3. lost' \subseteq {"status", "queue", "reply"}
      BY <1>0 DEF AttachQueue, Shape
    <2>4. UNCHANGED <<row, lock, runtime, runtimes, track, queue, unpushed, owed, client, notes,
                      statuses, queues>>
      BY DEF AttachQueue, station
    <2> QED
      BY <1>0, <2>1, <2>2, <2>3, <2>4 DEF Shape
  <1>2. RuntimeInv'
    BY <1>0 DEF AttachQueue, Tell, RuntimeInv, Shape, Watching, Attached, station
  <1>3. StatusInv'
    BY <1>0
       DEF AttachQueue, Tell, StatusInv, RuntimeInv, Shape, Playing, Told, Attached, station
  <1>4. QueueInv'
    BY <1>0 DEF AttachQueue, Tell, Empty, QueueInv, RuntimeInv, Shape, Attached, station
  <1>5. SeenInv'
    BY <1>0 DEF AttachQueue, Tell, SeenInv, Settled, Shape, Told, Label, Watching, station
  <1>6. WatchInv'
    BY <1>0
       DEF AttachQueue, Tell, WatchInv, RuntimeInv, Shape, QueueShown, QueueNoted, Watching,
           station
  <1> QED
    BY <1>1, <1>2, <1>3, <1>4, <1>5, <1>6 DEF FeedInv

LEMMA ForwardStatusKeeps == FeedInv /\ ForwardStatus => FeedInv'
  <1> SUFFICES ASSUME FeedInv, ForwardStatus PROVE FeedInv'
    OBVIOUS
  <1>0. Shape /\ RuntimeInv /\ StatusInv /\ QueueInv /\ SeenInv /\ WatchInv
    BY DEF FeedInv
  <1>e. /\ statuses' \in Rx(PlayingMsgs) /\ Len(statuses'.msgs) <= Capacity
        /\ statuses.lagged => statuses'.msgs = statuses.msgs
        /\ ~ statuses.lagged =>
             /\ statuses.msgs # <<>> /\ Head(statuses.msgs) \in PlayingMsgs
             /\ statuses'.msgs = <<>> => Head(statuses.msgs) = statuses.msgs[Len(statuses.msgs)]
             /\ statuses'.msgs # <<>> =>
                  statuses'.msgs[Len(statuses'.msgs)] = statuses.msgs[Len(statuses.msgs)]
    <2>1. /\ statuses \in Rx(PlayingMsgs) /\ Len(statuses.msgs) <= Capacity
          /\ statuses # Empty /\ statuses' = NextMessage(statuses)
      BY <1>0 DEF Shape, ForwardStatus
    <2> QED
      BY <2>1, NextIsOldest
  <1>1. Shape'
    <2>1. view' = [status |-> view'.status, queue |-> view'.queue]
      <3>1. view = [status |-> view.status, queue |-> view.queue]
        BY <1>0 DEF Shape
      <3>2. view' = view \/ Tell("status", Head(statuses.msgs))
        BY DEF ForwardStatus
      <3> QED
        BY <1>0, <3>1, <3>2, TellShape
    <2>2. UNCHANGED <<row, lock, runtime, runtimes, track, queue, unpushed, owed, client, feed,
                      notes, queues, lost>>
      BY DEF ForwardStatus, station
    <2> QED
      BY <1>0, <1>e, <2>1, <2>2 DEF Shape
  <1>2. RuntimeInv'
    BY <1>0, <1>e DEF ForwardStatus, Tell, RuntimeInv, Shape, Watching, Attached, station
  <1>3. StatusInv'
    BY <1>0, <1>e
       DEF ForwardStatus, Tell, StatusInv, RuntimeInv, Shape, Playing, Told, Attached, station
  <1>4. QueueInv'
    BY <1>0, <1>e DEF ForwardStatus, Tell, QueueInv, RuntimeInv, Shape, Attached, station
  <1>5. SeenInv'
    BY <1>0, <1>e DEF ForwardStatus, Tell, SeenInv, Settled, Shape, Told, Label, Watching, station
  <1>6. WatchInv'
    BY <1>0, <1>e
       DEF ForwardStatus, Tell, WatchInv, RuntimeInv, Shape, QueueShown, QueueNoted, Watching,
           station
  <1> QED
    BY <1>1, <1>2, <1>3, <1>4, <1>5, <1>6 DEF FeedInv

LEMMA ForwardQueueKeeps == FeedInv /\ ForwardQueue => FeedInv'
  <1> SUFFICES ASSUME FeedInv, ForwardQueue PROVE FeedInv'
    OBVIOUS
  <1>0. Shape /\ RuntimeInv /\ StatusInv /\ QueueInv /\ SeenInv /\ WatchInv
    BY DEF FeedInv
  <1>e. /\ queues' \in Rx(Nat) /\ Len(queues'.msgs) <= Capacity
        /\ queues.lagged => queues'.msgs = queues.msgs
        /\ ~ queues.lagged =>
             /\ queues.msgs # <<>> /\ Head(queues.msgs) \in Nat
             /\ queues'.msgs = <<>> => Head(queues.msgs) = queues.msgs[Len(queues.msgs)]
             /\ queues'.msgs # <<>> =>
                  queues'.msgs[Len(queues'.msgs)] = queues.msgs[Len(queues.msgs)]
    <2>1. /\ queues \in Rx(Nat) /\ Len(queues.msgs) <= Capacity
          /\ queues # Empty /\ queues' = NextMessage(queues)
      BY <1>0 DEF Shape, ForwardQueue
    <2> QED
      BY <2>1, NextIsOldest
  <1>1. Shape'
    <2>1. view' = [status |-> view'.status, queue |-> view'.queue]
      <3>1. view = [status |-> view.status, queue |-> view.queue]
        BY <1>0 DEF Shape
      <3>2. view' = view \/ Tell("queue", <<Head(queues.msgs)>>)
        BY DEF ForwardQueue
      <3> QED
        BY <1>0, <3>1, <3>2, TellShape
    <2>2. UNCHANGED <<row, lock, runtime, runtimes, track, queue, unpushed, owed, client, feed,
                      notes, statuses, lost>>
      BY DEF ForwardQueue, station
    <2> QED
      BY <1>0, <1>e, <2>1, <2>2 DEF Shape
  <1>2. RuntimeInv'
    BY <1>0, <1>e DEF ForwardQueue, Tell, RuntimeInv, Shape, Watching, Attached, station
  <1>3. StatusInv'
    BY <1>0, <1>e
       DEF ForwardQueue, Tell, StatusInv, RuntimeInv, Shape, Playing, Told, Attached, station
  <1>4. QueueInv'
    BY <1>0, <1>e DEF ForwardQueue, Tell, QueueInv, RuntimeInv, Shape, Attached, station
  <1>5. SeenInv'
    BY <1>0, <1>e DEF ForwardQueue, Tell, SeenInv, Settled, Shape, Told, Label, Watching, station
  <1>6. WatchInv'
    BY <1>0, <1>e
       DEF ForwardQueue, Tell, WatchInv, RuntimeInv, Shape, QueueShown, QueueNoted, Watching,
           station
  <1> QED
    BY <1>1, <1>2, <1>3, <1>4, <1>5, <1>6 DEF FeedInv

LEMMA RecheckKeeps == FeedInv /\ Recheck => FeedInv'
  <1> SUFFICES ASSUME FeedInv, Recheck PROVE FeedInv'
    OBVIOUS
  <1>0. Shape /\ RuntimeInv /\ StatusInv /\ QueueInv /\ SeenInv /\ WatchInv
    BY DEF FeedInv
  <1>1. Shape'
    BY <1>0 DEF Recheck, Shape, Watching, Attached, station
  <1>2. RuntimeInv'
    BY <1>0 DEF Recheck, RuntimeInv, Shape, Watching, Attached, station
  <1>3. StatusInv'
    BY <1>0 DEF Recheck, StatusInv, RuntimeInv, Shape, Playing, Told, Attached, station
  <1>4. QueueInv'
    BY <1>0 DEF Recheck, QueueInv, RuntimeInv, Shape, Attached, station
  <1>5. SeenInv'
    BY <1>0 DEF Recheck, SeenInv, Settled, Shape, Told, Label, Watching, station
  <1>6. WatchInv'
    BY <1>0 DEF Recheck, WatchInv, RuntimeInv, Shape, QueueShown, QueueNoted, Watching, station
  <1> QED
    BY <1>1, <1>2, <1>3, <1>4, <1>5, <1>6 DEF FeedInv

LEMMA StillKeeps == FeedInv /\ UNCHANGED Connection => FeedInv'
  <1> SUFFICES ASSUME FeedInv, UNCHANGED Connection PROVE FeedInv'
    OBVIOUS
  <1>0. Shape /\ RuntimeInv /\ StatusInv /\ QueueInv /\ SeenInv /\ WatchInv
    BY DEF FeedInv
  <1>e. UNCHANGED <<row, lock, runtime, runtimes, track, queue, unpushed, owed, client, feed,
                    notes, statuses, queues, view, lost>>
    BY DEF Connection, station
  <1>1. Shape' /\ RuntimeInv'
    BY <1>0, <1>e DEF Shape, RuntimeInv
  <1>2. StatusInv' /\ QueueInv'
    BY <1>0, <1>e DEF StatusInv, QueueInv, Playing, Told
  <1>3. SeenInv'
    BY <1>0, <1>e DEF SeenInv, Settled, Told, Label
  <1>4. WatchInv'
    BY <1>0, <1>e DEF WatchInv, QueueNoted, QueueShown
  <1> QED
    BY <1>1, <1>2, <1>3, <1>4 DEF FeedInv

LEMMA FeedStep == FeedInv /\ [ConnectionNext]_allVars => FeedInv'
  <1> SUFFICES ASSUME FeedInv, [ConnectionNext]_allVars PROVE FeedInv'
    OBVIOUS
  <1>1. CASE Next
    BY <1>1, TakeLockKeeps, PersistKeeps, RemoveRuntimeKeeps, CreateRuntimeKeeps, EraseRowKeeps,
       AdvanceKeeps, PushAfterCommitKeeps, EditKeeps, SynchronizeKeeps, AbandonKeeps,
       SubscribeKeeps, UnsubscribeKeeps, RevokeKeeps, DisconnectKeeps, AbortFeedKeeps, EnterKeeps,
       ObservationKeeps, SnapshotQueueKeeps, HearKeeps, PollMapKeeps, AttachStatusKeeps,
       AttachQueueKeeps, ForwardStatusKeeps, ForwardQueueKeeps, RecheckKeeps
       DEF Next, Transition, Forward, Observe
  <1>2. CASE UNCHANGED Connection
    BY <1>2, StillKeeps
  <1> QED
    BY <1>1, <1>2 DEF ConnectionNext, allVars, vars, Connection

LEMMA FeedAlways == ConnectionSpec => []FeedInv
  <1>1. ConnectionInit => FeedInv
    BY InitFeed DEF ConnectionInit
  <1> QED
    BY <1>1, FeedStep, PTL DEF ConnectionSpec

(* Between snapshot and live feed no change slips through, however far the *)
(* task fell behind: forward_station, at rest, has told its client the     *)
(* status and the queue of now or that they could not be read, except in   *)
(* the windows of the history lost.                                        *)
THEOREM ClientIsCurrent == ConnectionSpec => []ViewIsCurrent
  <1>1. FeedInv => ViewIsCurrent
    <2> SUFFICES ASSUME FeedInv PROVE ViewIsCurrent
      OBVIOUS
    <2>0. Shape /\ RuntimeInv /\ StatusInv /\ QueueInv /\ SeenInv /\ WatchInv
      BY DEF FeedInv
    <2>1. TypeOK
      BY <2>0 DEF Shape, TypeOK, Rx
    <2>2. ASSUME Quiet, feed.at = "wait" PROVE Current
      <3>1. runtime = 0 /\ ~ owed /\ ~ QueueNoted /\ notes.msgs = <<>>
        BY <2>2 DEF Quiet, Empty, QueueNoted
      <3>2. QueueShown
        BY <2>0, <2>2, <3>1 DEF WatchInv
      <3>3. \/ Told(Label(row))
            \/ "status" \in lost /\ row = feed.last
            \/ "reply" \in lost /\ row # feed.seen
        <4>1. CASE row = feed.seen
          BY <2>0, <2>2, <4>1 DEF SeenInv, Settled, Shape
        <4>2. CASE row # feed.seen
          BY <2>0, <2>2, <3>1, <4>2 DEF SeenInv, Told
        <4> QED
          BY <4>1, <4>2
      <3> QED
        BY <2>0, <3>1, <3>2, <3>3 DEF Current, Told, Label, QueueShown, Shape
    <2>3. ASSUME Quiet, feed.at = "live" PROVE Current
      <3>1. /\ feed.target = runtime /\ runtime # 0 /\ ~ owed /\ ~ unpushed
            /\ statuses.msgs = <<>> /\ queues.msgs = <<>>
        BY <2>0, <2>3 DEF Quiet, Empty, RuntimeInv, Attached
      <3>2. Told(Playing)
        BY <2>0, <2>3, <3>1 DEF StatusInv, Attached
      <3>3. view.queue \in {<<queue>>, <<>>} \/ "queue" \in lost
        BY <2>0, <2>3, <3>1 DEF QueueInv, Attached
      <3> QED
        BY <3>1, <3>2, <3>3 DEF Current, Playing
    <2> QED
      BY <2>1, <2>2, <2>3 DEF ViewIsCurrent, Quiet
  <1> QED
    BY <1>1, FeedAlways, PTL

(* A client hears that a started station has no runtime only while nobody  *)
(* holds the station's lock: no_runtime_snapshot reads map and row         *)
(* together, and nothing the task forwards says so.                        *)
THEOREM NoAlarmAtWork == ConnectionSpec => NoFalseAlarm
  <1> DEFINE Alarm == view'.status = <<"no runtime">> /\ view.status # <<"no runtime">>
  <1>1. FeedInv /\ [ConnectionNext]_allVars => [Alarm => lock = "free" /\ row = "started"]_vars
    <2> SUFFICES ASSUME FeedInv, [ConnectionNext]_allVars, Alarm
                 PROVE  lock = "free" /\ row = "started"
      OBVIOUS
    <2>0. Shape
      BY DEF FeedInv
    <2>1. /\ \A r, t : <<"playing", r, t>> # <<"no runtime">>
          /\ <<"error">> # <<"no runtime">>
          /\ <<"stopped">> # <<"no runtime">>
          /\ <<"not found">> # <<"no runtime">>
      OBVIOUS
    <2>2. CASE UNCHANGED view
      BY <2>2
    <2>t. ASSUME NEW msg, Tell("status", msg) PROVE msg = <<"no runtime">>
      BY <2>0, <2>t DEF Tell, Shape
    <2>3. CASE Observe
      <3>1. CASE Tell("status", Label(row)) /\ row # "gone" /\ lock = "free"
        BY <2>0, <2>1, <2>t, <3>1 DEF Label, Shape
      <3>2. CASE Tell("status", <<"not found">>)
        BY <2>1, <2>t, <3>2
      <3>3. CASE view' = [status |-> <<"error">>, queue |-> <<>>]
        BY <2>1, <3>3
      <3> QED
        BY <2>2, <2>3, <3>1, <3>2, <3>3 DEF Observe, Observation
    <2>4. CASE AttachStatus
      BY <2>1, <2>t, <2>4 DEF AttachStatus
    <2>5. CASE ForwardStatus
      <3>1. ~ statuses.lagged => Head(statuses.msgs) \in PlayingMsgs
        BY <2>0, <2>5, NextIsOldest DEF Shape, ForwardStatus
      <3>2. ASSUME ~ statuses.lagged PROVE Head(statuses.msgs) # <<"no runtime">>
        <4>1. Head(statuses.msgs) \in PlayingMsgs
          BY <3>1, <3>2
        <4>2. Head(statuses.msgs)[1] = "playing"
          BY <4>1 DEF PlayingMsgs
        <4>3. <<"no runtime">>[1] = "no runtime"
          OBVIOUS
        <4> QED
          BY <4>2, <4>3
      <3>3. statuses.lagged \/ Tell("status", Head(statuses.msgs)) \/ UNCHANGED view
        BY <2>5 DEF ForwardStatus
      <3>4. CASE statuses.lagged
        BY <2>2, <2>5, <3>4 DEF ForwardStatus
      <3> QED
        BY <2>2, <2>t, <3>2, <3>3, <3>4
    <2>6. CASE SnapshotQueue \/ AttachQueue \/ ForwardQueue
      BY <2>0, <2>6 DEF SnapshotQueue, AttachQueue, ForwardQueue, Tell, Shape
    <2> QED
      BY <2>2, <2>3, <2>4, <2>5, <2>6
         DEF ConnectionNext, allVars, vars, Connection, Next, Transition, Forward, TakeLock,
             Persist, RemoveRuntime, CreateRuntime, EraseRow, Advance, PushAfterCommit, Edit,
             Synchronize, Abandon, Subscribe, Unsubscribe, Revoke, Disconnect, AbortFeed, Enter,
             Hear, PollMap, Recheck
  <1> QED
    BY <1>1, FeedAlways, PTL DEF ConnectionSpec, NoFalseAlarm

-----------------------------------------------------------------------------
(* The listener counts: a count is as old as the poll that found it, no    *)
(* poll tells a station twice, and two counts of a station of the same     *)
(* poll are the same count.                                                *)

CountsOf == [listeners : Nat, online : BOOLEAN, at : Nat]
CountMsgs == Stations \X CountsOf

PollIsRecord ==
  poll = [at |-> poll.at, sample |-> poll.sample, found |-> poll.found,
          listed |-> poll.listed, todo |-> poll.todo, update |-> poll.update]

CountShape ==
  /\ clock \in Nat /\ sampled \in Nat
  /\ poll.at \in {"idle", "ask", "publish"} /\ poll.sample \in BOOLEAN
  /\ poll.listed \subseteq Stations /\ poll.todo \subseteq Stations
  /\ poll.update \subseteq Stations
  /\ PollIsRecord
  /\ poll.at = "publish" => poll.found \in [Stations -> CountsOf]
  /\ poll.at # "publish" => poll.update = {}
  /\ cache \in [Stations -> CountsOf]
  /\ shown \in [Stations -> CountsOf]
  /\ samples \in [Stations -> Nat]
  /\ listening \in {"none", "snapshot", "live", "ended"}
  /\ counts \in Rx(CountMsgs) /\ Len(counts.msgs) <= Capacity
  /\ dropped \subseteq Stations

(* The poll under way is newer than all that is kept. *)
PollInv ==
  /\ \A s \in Stations : cache[s].at <= clock
  /\ poll.at = "ask" => \A s \in Stations : cache[s].at < clock
  /\ poll.at = "publish" =>
       /\ \A s \in Stations : poll.found[s].at = clock
       /\ \A s \in poll.todo : cache[s].at < clock /\ s \notin poll.update
       /\ \A s \in poll.update : cache[s] = poll.found[s]
  /\ \A s, u \in poll.update : s = u

(* What the client was told, or is about to be, is what the cache held. *)
Held(s, m) == m.at <= cache[s].at /\ (m.at = cache[s].at => m = cache[s])

OldInv ==
  /\ \A s \in Stations : Held(s, shown[s])
  /\ \A i \in DOMAIN counts.msgs :
       LET s == counts.msgs[i][1]  m == counts.msgs[i][2]
       IN  Held(s, m) /\ (m.at = cache[s].at => s \notin poll.update)
  /\ \A i, j \in DOMAIN counts.msgs :
       i < j /\ counts.msgs[i][1] = counts.msgs[j][1] => counts.msgs[i][2].at < counts.msgs[j][2].at
  /\ ~ Subscribed => counts = Empty

LastOf(s, i) ==
  /\ i \in DOMAIN counts.msgs
  /\ counts.msgs[i][1] = s
  /\ \A j \in DOMAIN counts.msgs : j > i => counts.msgs[j][1] # s

(* The client was told all that is in the channel, or newer. *)
Ahead(s) ==
  \A i \in DOMAIN counts.msgs : counts.msgs[i][1] = s => shown[s].at >= counts.msgs[i][2].at

(* The last message of a station has its count, or the cache was read      *)
(* after it.                                                               *)
CountInv ==
  Subscribed => \A s \in Stations \ (dropped \cup poll.update) :
    /\ \A i \in DOMAIN counts.msgs : LastOf(s, i) => ~ Differs(counts.msgs[i][2], cache[s])
    /\ listening = "live" /\ Ahead(s) => ~ Differs(shown[s], cache[s])

SampleInv ==
  /\ sampled <= clock
  /\ \A s \in Stations :
       /\ samples[s] <= sampled
       /\ poll.sample /\ samples[s] # 0 => samples[s] + SampleEvery <= clock
  /\ poll.sample => sampled = clock

ListenerInv == CountShape /\ PollInv /\ OldInv /\ CountInv /\ SampleInv

LEMMA NothingIsWaiting ==
  /\ Empty \in Rx(CountMsgs) /\ Empty.msgs = <<>>
  /\ Len(Empty.msgs) <= Capacity /\ DOMAIN Empty.msgs = {}
  <1>1. Len(<<>>) = 0
    OBVIOUS
  <1> QED
    BY <1>1, LiveFeedAssumption DEF Empty, Rx

LEMMA InitCounts == ListenersInit => ListenerInv
  <1> SUFFICES ASSUME ListenersInit PROVE ListenerInv
    OBVIOUS
  <1>1. Empty \in Rx(CountMsgs) /\ Empty.msgs = <<>> /\ Len(Empty.msgs) <= Capacity
    BY NothingIsWaiting
  <1>2. Unknown \in CountsOf /\ Unknown.at = 0
    BY DEF Unknown, CountsOf
  <1>3. CountShape
    BY <1>1, <1>2 DEF ListenersInit, CountShape, Resting, CountsOf, PollIsRecord
  <1>4. PollInv /\ OldInv /\ CountInv /\ SampleInv
    BY <1>1, <1>2
       DEF ListenersInit, PollInv, OldInv, Held, CountInv, SampleInv, Resting, Subscribed,
           Stations, PollIsRecord
  <1> QED
    BY <1>3, <1>4 DEF ListenerInv

LEMMA MessageHas ==
  ASSUME CountShape, NEW i \in DOMAIN counts.msgs
  PROVE  counts.msgs[i][1] \in Stations /\ counts.msgs[i][2] \in CountsOf
  <1>1. counts.msgs \in Seq(CountMsgs)
    BY DEF CountShape, Rx, PollIsRecord
  <1>2. counts.msgs[i] \in CountMsgs
    BY <1>1
  <1> QED
    BY <1>2 DEF CountMsgs

(* What the client knows and will hear changes only with these. *)
LEMMA KnownKept ==
  ASSUME OldInv, CountInv, poll'.update = poll.update,
         UNCHANGED <<cache, listening, counts, shown, dropped>>
  PROVE  OldInv' /\ CountInv'
  <1>1. OldInv'
    BY DEF OldInv, Held, Subscribed
  <1>2. CountInv'
    BY DEF CountInv, LastOf, Ahead, Subscribed
  <1> QED
    BY <1>1, <1>2

(* A message that is sent is the last one; the others move up by one when  *)
(* the oldest is dropped.                                                  *)
LEMMA SentShifts ==
  ASSUME NEW T, NEW rx \in Rx(T), NEW m \in T, Len(rx.msgs) <= Capacity
  PROVE  LET n == Sent(rx, m).msgs
         IN  \E d \in {0, 1} :
               /\ d = 1 <=> Len(rx.msgs) = Capacity
               /\ Len(n) = Len(rx.msgs) + 1 - d
               /\ n[Len(n)] = m
               /\ \A i \in 1..(Len(n) - 1) : i + d \in DOMAIN rx.msgs /\ n[i] = rx.msgs[i + d]
               /\ n \in Seq(T)
  <1>0. Capacity \in Nat \ {0} /\ rx.msgs \in Seq(T)
        /\ rx = [msgs |-> rx.msgs, lagged |-> rx.lagged]
    BY LiveFeedAssumption DEF Rx
  <1>1. CASE Len(rx.msgs) < Capacity
    <2>1. Sent(rx, m).msgs = Append(rx.msgs, m)
      BY <1>0, <1>1 DEF Sent
    <2>2. /\ Len(Append(rx.msgs, m)) = Len(rx.msgs) + 1
          /\ Append(rx.msgs, m) \in Seq(T)
          /\ Append(rx.msgs, m)[Len(rx.msgs) + 1] = m
          /\ \A i \in 1..Len(rx.msgs) :
               i + 0 \in DOMAIN rx.msgs /\ Append(rx.msgs, m)[i] = rx.msgs[i + 0]
      BY <1>0
    <2> QED
      BY <1>0, <1>1, <2>1, <2>2
  <1>2. CASE ~ (Len(rx.msgs) < Capacity)
    <2>1. Sent(rx, m).msgs = Append(Tail(rx.msgs), m)
      BY <1>0, <1>2 DEF Sent
    <2>2. rx.msgs # <<>> /\ Len(rx.msgs) = Capacity
      BY <1>0, <1>2
    <2>3. /\ Tail(rx.msgs) \in Seq(T) /\ Len(Tail(rx.msgs)) = Len(rx.msgs) - 1
          /\ \A i \in 1..(Len(rx.msgs) - 1) :
               i + 1 \in DOMAIN rx.msgs /\ Tail(rx.msgs)[i] = rx.msgs[i + 1]
      BY <1>0, <2>2
    <2>4. /\ Len(Append(Tail(rx.msgs), m)) = Len(rx.msgs)
          /\ Append(Tail(rx.msgs), m) \in Seq(T)
          /\ Append(Tail(rx.msgs), m)[Len(rx.msgs)] = m
          /\ \A i \in 1..(Len(rx.msgs) - 1) :
               i + 1 \in DOMAIN rx.msgs /\ Append(Tail(rx.msgs), m)[i] = rx.msgs[i + 1]
      BY <1>0, <2>2, <2>3
    <2> QED
      BY <1>0, <2>1, <2>2, <2>4
  <1> QED
    BY <1>1, <1>2

LEMMA BeginPollKeeps == ListenerInv /\ BeginPoll => ListenerInv'
  <1> SUFFICES ASSUME ListenerInv, BeginPoll PROVE ListenerInv'
    OBVIOUS
  <1>0. CountShape /\ PollInv /\ OldInv /\ CountInv /\ SampleInv
    BY DEF ListenerInv
  <1>e. /\ poll.at = "idle" /\ poll.update = {}
        /\ clock' = clock + 1
        /\ poll'.at = "ask" /\ poll'.listed = {} /\ poll'.todo = {} /\ poll'.update = {}
        /\ PollIsRecord'
        /\ UNCHANGED <<cache, samples, listening, counts, shown, dropped>>
    BY <1>0 DEF BeginPoll, Resting, CountShape, PollIsRecord
  <1>p. \/ /\ poll'.sample = TRUE /\ sampled' = clock + 1
           /\ sampled = 0 \/ clock + 1 - sampled >= SampleEvery
        \/ poll'.sample = FALSE /\ sampled' = sampled
    <2> DEFINE due == sampled = 0 \/ clock' - sampled >= SampleEvery
    <2>1. /\ sampled' = IF due THEN clock' ELSE sampled
          /\ poll' = [Resting EXCEPT !.at = "ask", !.sample = due]
      BY DEF BeginPoll
    <2>2. poll'.sample = due
      BY <2>1 DEF Resting, PollIsRecord
    <2>3. CASE due
      <3>1. poll'.sample = TRUE
        BY <2>2, <2>3
      <3>2. sampled' = clock + 1
        BY <1>e, <2>1, <2>3
      <3>3. sampled = 0 \/ clock + 1 - sampled >= SampleEvery
        BY <1>0, <1>e, <2>3 DEF CountShape, PollIsRecord
      <3> QED
        BY <3>1, <3>2, <3>3
    <2>4. CASE ~ due
      <3>1. poll'.sample = FALSE
        BY <2>2, <2>4
      <3>2. sampled' = sampled
        BY <2>1, <2>4
      <3> QED
        BY <3>1, <3>2
    <2> QED
      BY <2>3, <2>4
  <1>1. CountShape'
    <2>1. sampled' \in Nat /\ clock' \in Nat
      BY <1>0, <1>e, <1>p DEF CountShape, PollIsRecord
    <2>2. poll'.sample \in BOOLEAN
      BY <1>p
    <2> QED
      BY <1>0, <1>e, <2>1, <2>2 DEF CountShape, PollIsRecord
  <1>2. PollInv'
    BY <1>0, <1>e DEF PollInv, CountShape, CountsOf, PollIsRecord
  <1>3. OldInv'
    BY <1>0, <1>e, KnownKept
  <1>4. CountInv'
    BY <1>0, <1>e, KnownKept
  <1>5. SampleInv'
    <2>1. ASSUME NEW s \in Stations
          PROVE  /\ samples[s] <= sampled'
                 /\ poll'.sample /\ samples[s] # 0 => samples[s] + SampleEvery <= clock + 1
      <3>1. samples[s] \in Nat /\ sampled \in Nat /\ clock \in Nat /\ samples[s] <= sampled
            /\ sampled <= clock
        BY <1>0, <2>1 DEF SampleInv, CountShape, PollIsRecord
      <3> QED
        BY <1>p, <3>1, ListenersAssumption
    <2>2. sampled' <= clock + 1 /\ (poll'.sample => sampled' = clock + 1)
      BY <1>0, <1>p DEF SampleInv, CountShape, PollIsRecord
    <2> QED
      BY <1>e, <2>1, <2>2 DEF SampleInv
  <1> QED
    BY <1>1, <1>2, <1>3, <1>4, <1>5 DEF ListenerInv

LEMMA AskKeeps == ListenerInv /\ Ask => ListenerInv'
  <1> SUFFICES ASSUME ListenerInv, Ask PROVE ListenerInv'
    OBVIOUS
  <1>0. CountShape /\ PollInv /\ OldInv /\ CountInv /\ SampleInv
    BY DEF ListenerInv
  <1>p. \A found \in Counts \cup {Offline} :
          found \in [Stations -> CountsOf] /\ \A s \in Stations : found[s].at = clock
    <2>1. clock \in Nat
      BY <1>0 DEF CountShape, PollIsRecord
    <2>2. /\ Offline \in [Stations -> CountsOf]
          /\ \A s \in Stations : Offline[s].at = clock
      BY <2>1 DEF Offline, CountsOf
    <2>3. ASSUME NEW n \in [Stations -> 0..1]
          PROVE  LET found == [s \in Stations |->
                                 [listeners |-> n[s], online |-> TRUE, at |-> clock]]
                 IN  found \in [Stations -> CountsOf] /\ \A s \in Stations : found[s].at = clock
      BY <2>1 DEF CountsOf
    <2> QED
      BY <2>2, <2>3 DEF Counts
  <1>e. /\ poll.at = "ask" /\ poll.update = {} /\ poll'.update = {}
        /\ PollIsRecord'
        /\ poll'.listed \subseteq Stations /\ poll'.todo \subseteq Stations
        /\ \/ /\ poll'.at = "publish" /\ poll'.sample = poll.sample
              /\ poll'.found \in [Stations -> CountsOf]
              /\ \A s \in Stations : poll'.found[s].at = clock
           \/ poll'.at = "idle" /\ poll'.sample = FALSE
        /\ UNCHANGED <<clock, sampled, cache, samples, listening, counts, shown, dropped>>
    <2>1. Rows \subseteq Stations
      BY DEF Rows, Stations
    <2> DEFINE Moved == /\ poll'.update = {} /\ poll'.listed \subseteq Stations
                        /\ poll'.todo \subseteq Stations
                        /\ PollIsRecord'
                        /\ \/ /\ poll'.at = "publish" /\ poll'.sample = poll.sample
                              /\ poll'.found \in [Stations -> CountsOf]
                              /\ \A s \in Stations : poll'.found[s].at = clock
                           \/ poll'.at = "idle" /\ poll'.sample = FALSE
    <2>2. ASSUME poll' = Resting PROVE Moved
      <3>1. /\ poll'.at = "idle" /\ poll'.sample = FALSE /\ poll'.update = {}
            /\ poll'.listed = {} /\ poll'.todo = {}
        BY <2>2 DEF Resting, PollIsRecord
      <3>2. PollIsRecord'
        BY <2>2 DEF Resting, PollIsRecord
      <3>3. poll'.listed \subseteq Stations /\ poll'.todo \subseteq Stations
        BY <3>1
      <3> QED
        BY <3>1, <3>2, <3>3
    <2>3. ASSUME NEW found \in Counts \cup {Offline},
                 poll' = [poll EXCEPT !.at = "publish", !.found = found, !.listed = Rows,
                                      !.todo = Rows]
          PROVE  Moved
      <3>1. poll.update = {}
        BY <1>0 DEF Ask, CountShape, PollIsRecord
      <3>2. poll' = [at |-> "publish", sample |-> poll.sample, found |-> found, listed |-> Rows,
                     todo |-> Rows, update |-> poll.update]
        BY <1>0, <2>3 DEF CountShape, PollIsRecord
      <3>3. /\ poll'.at = "publish" /\ poll'.sample = poll.sample /\ poll'.found = found
            /\ poll'.listed = Rows /\ poll'.todo = Rows /\ poll'.update = {}
        BY <3>1, <3>2
      <3>4. PollIsRecord'
        BY <3>2 DEF PollIsRecord
      <3> QED
        BY <1>p, <2>1, <2>3, <3>3, <3>4
    <2>4. Moved
      BY <2>2, <2>3 DEF Ask
    <2>5. /\ poll.at = "ask" /\ poll.update = {}
          /\ UNCHANGED <<clock, sampled, cache, samples, listening, counts, shown, dropped>>
      BY <1>0 DEF Ask, CountShape, PollIsRecord
    <2> QED
      BY <2>4, <2>5
  <1>1. CountShape'
    BY <1>0, <1>e DEF CountShape, PollIsRecord
  <1>2. PollInv'
    BY <1>0, <1>e DEF PollInv, CountShape, PollIsRecord
  <1>3. OldInv'
    BY <1>0, <1>e, KnownKept
  <1>4. CountInv'
    BY <1>0, <1>e, KnownKept
  <1>5. SampleInv'
    BY <1>0, <1>e DEF SampleInv
  <1> QED
    BY <1>1, <1>2, <1>3, <1>4, <1>5 DEF ListenerInv

LEMMA PublishKeeps == ListenerInv /\ Publish => ListenerInv'
  <1> SUFFICES ASSUME ListenerInv, Publish PROVE ListenerInv'
    OBVIOUS
  <1>0. CountShape /\ PollInv /\ OldInv /\ CountInv /\ SampleInv
    BY DEF ListenerInv
  <1>e. PICK s \in poll.todo :
          /\ cache' = [cache EXCEPT ![s] = poll.found[s]]
          /\ poll' = [poll EXCEPT !.todo = @ \ {s},
                        !.update = IF cache[s].at = 0 \/ Differs(cache[s], poll.found[s])
                                   THEN {s} ELSE {}]
    BY DEF Publish
  <1>p. /\ poll.at = "publish" /\ poll.update = {} /\ s \in Stations
        /\ poll'.at = poll.at /\ poll'.sample = poll.sample /\ poll'.found = poll.found
        /\ poll'.listed = poll.listed /\ poll'.todo = poll.todo \ {s}
        /\ \/ poll'.update = {s}
           \/ poll'.update = {} /\ ~ Differs(cache[s], poll.found[s])
        /\ PollIsRecord'
        /\ cache' \in [Stations -> CountsOf]
        /\ cache'[s] = poll.found[s] /\ cache'[s].at = clock /\ cache[s].at < clock
        /\ \A t \in Stations \ {s} : cache'[t] = cache[t]
        /\ UNCHANGED <<clock, sampled, samples, listening, counts, shown, dropped>>
    <2>1. /\ poll.at = "publish" /\ poll.update = {} /\ s \in Stations
          /\ UNCHANGED <<clock, sampled, samples, listening, counts, shown, dropped>>
      BY <1>0 DEF Publish, CountShape, PollIsRecord
    <2>2. /\ poll'.at = poll.at /\ poll'.sample = poll.sample /\ poll'.found = poll.found
          /\ poll'.listed = poll.listed /\ poll'.todo = poll.todo \ {s}
          /\ poll'.update = IF cache[s].at = 0 \/ Differs(cache[s], poll.found[s]) THEN {s} ELSE {}
          /\ PollIsRecord'
      BY <1>0, <1>e DEF CountShape, PollIsRecord
    <2>3. /\ cache' \in [Stations -> CountsOf]
          /\ cache'[s] = poll.found[s]
          /\ \A t \in Stations \ {s} : cache'[t] = cache[t]
      BY <1>0, <1>e, <2>1 DEF CountShape, PollIsRecord
    <2>4. poll.found[s].at = clock /\ cache[s].at < clock
      BY <1>0, <1>e, <2>1 DEF PollInv
    <2> QED
      BY <2>1, <2>2, <2>3, <2>4
  <1>1. CountShape'
    BY <1>0, <1>p DEF CountShape, PollIsRecord
  <1>2. PollInv'
    <2>1. ASSUME NEW t \in Stations PROVE cache'[t].at <= clock
      <3>1. CASE t = s
        BY <1>0, <1>p, <3>1 DEF CountShape, PollIsRecord
      <3>2. CASE t # s
        BY <1>0, <1>p, <2>1, <3>2 DEF PollInv
      <3> QED
        BY <3>1, <3>2
    <2>2. /\ \A t \in poll'.todo : cache'[t].at < clock /\ t \notin poll'.update
          /\ \A t \in poll'.update : cache'[t] = poll'.found[t]
          /\ \A t, u \in poll'.update : t = u
      BY <1>0, <1>p DEF PollInv, CountShape, PollIsRecord
    <2> QED
      BY <1>0, <1>p, <2>1, <2>2 DEF PollInv
  <1>3. OldInv'
    <2>1. ASSUME NEW t \in Stations, NEW m \in CountsOf, Held(t, m)
          PROVE  Held(t, m)' /\ (m.at = cache'[t].at => t # s)
      <3>1. CASE t = s
        <4>1. m.at \in Nat /\ cache[s].at \in Nat /\ clock \in Nat
          BY <1>0, <1>p, <2>1 DEF CountShape, CountsOf, PollIsRecord
        <4>2. m.at < clock
          BY <1>p, <2>1, <3>1, <4>1 DEF Held
        <4> QED
          BY <1>p, <3>1, <4>1, <4>2 DEF Held
      <3>2. CASE t # s
        BY <1>p, <2>1, <3>2 DEF Held
      <3> QED
        BY <3>1, <3>2
    <2>2. ASSUME NEW t \in Stations PROVE Held(t, shown[t])'
      <3>1. Held(t, shown[t]) /\ shown[t] \in CountsOf
        BY <1>0, <2>2 DEF OldInv, CountShape, PollIsRecord
      <3>2. shown'[t] = shown[t]
        BY <1>p
      <3> QED
        BY <2>1, <3>1, <3>2 DEF Held
    <2>3. ASSUME NEW i \in DOMAIN counts.msgs
          PROVE  LET t == counts.msgs[i][1]  m == counts.msgs[i][2]
                 IN  Held(t, m)' /\ (m.at = cache'[t].at => t \notin poll'.update)
      <3>1. Held(counts.msgs[i][1], counts.msgs[i][2])
        BY <1>0 DEF OldInv
      <3>2. counts' = counts
        BY <1>p
      <3> QED
        BY <1>0, <1>p, <2>1, <3>1, <3>2, MessageHas DEF Held
    <2> QED
      BY <1>0, <1>p, <2>2, <2>3 DEF OldInv, Subscribed
  <1>4. CountInv'
    <2> SUFFICES ASSUME Subscribed, NEW t \in Stations \ (dropped \cup poll'.update)
                 PROVE  /\ \A i \in DOMAIN counts.msgs :
                             LastOf(t, i) => ~ Differs(counts.msgs[i][2], cache'[t])
                        /\ listening = "live" /\ Ahead(t) => ~ Differs(shown[t], cache'[t])
      BY <1>p DEF CountInv, Subscribed, LastOf, Ahead
    <2>1. /\ \A i \in DOMAIN counts.msgs :
               LastOf(t, i) => ~ Differs(counts.msgs[i][2], cache[t])
          /\ listening = "live" /\ Ahead(t) => ~ Differs(shown[t], cache[t])
      BY <1>0, <1>p DEF CountInv
    <2>2. ~ Differs(cache[t], cache'[t])
      BY <1>p DEF Differs
    <2> QED
      BY <2>1, <2>2 DEF Differs
  <1>5. SampleInv'
    BY <1>0, <1>p DEF SampleInv
  <1> QED
    BY <1>1, <1>2, <1>3, <1>4, <1>5 DEF ListenerInv

LEMMA BroadcastCountKeeps == ListenerInv /\ BroadcastCount => ListenerInv'
  <1> SUFFICES ASSUME ListenerInv, BroadcastCount PROVE ListenerInv'
    OBVIOUS
  <1>0. CountShape /\ PollInv /\ OldInv /\ CountInv /\ SampleInv
    BY DEF ListenerInv
  <1>e. PICK s \in poll.update :
          IF ~ Subscribed THEN UNCHANGED <<counts, dropped>>
          ELSE /\ counts' = Sent(counts, <<s, poll.found[s]>>)
               /\ dropped' = (dropped \ {s})
                    \cup (IF Len(counts.msgs) = Capacity
                          THEN {Head(counts.msgs)[1]} \ {s} ELSE {})
    BY DEF BroadcastCount
  <1>p. /\ poll.at = "publish" /\ poll.update = {s} /\ s \in Stations
        /\ poll.found[s] = cache[s] /\ cache[s] \in CountsOf
        /\ poll'.at = poll.at /\ poll'.sample = poll.sample /\ poll'.found = poll.found
        /\ poll'.listed = poll.listed /\ poll'.todo = poll.todo /\ poll'.update = {}
        /\ PollIsRecord'
        /\ UNCHANGED <<clock, sampled, cache, samples, listening, shown>>
    <2>1. poll' = [poll EXCEPT !.update = {}]
          /\ UNCHANGED <<clock, sampled, cache, samples, listening, shown>>
      BY DEF BroadcastCount
    <2>2. poll = [at |-> poll.at, sample |-> poll.sample, found |-> poll.found,
                  listed |-> poll.listed, todo |-> poll.todo, update |-> poll.update]
      BY <1>0 DEF CountShape, PollIsRecord
    <2>3. /\ poll'.at = poll.at /\ poll'.sample = poll.sample /\ poll'.found = poll.found
          /\ poll'.listed = poll.listed /\ poll'.todo = poll.todo /\ poll'.update = {}
          /\ PollIsRecord'
      BY <2>1, <2>2 DEF PollIsRecord
    <2>4. poll.update \subseteq Stations
          /\ poll.at \in {"idle", "ask", "publish"} /\ (poll.at # "publish" => poll.update = {})
      BY <1>0 DEF CountShape
    <2>5. poll.at = "publish" /\ s \in Stations
      BY <2>4
    <2>6. poll.update = {s} /\ poll.found[s] = cache[s]
      BY <1>0, <2>5 DEF PollInv
    <2>7. cache[s] \in CountsOf
      BY <1>0, <2>5 DEF CountShape
    <2> QED
      BY <2>1, <2>3, <2>5, <2>6, <2>7
  <1>1. CountShape'
    <2> DEFINE m == <<s, cache[s]>>
               n == counts'.msgs
    <2>s. CASE Subscribed
      <3>1. m \in CountMsgs /\ counts \in Rx(CountMsgs) /\ Len(counts.msgs) <= Capacity
        BY <1>0, <1>p DEF CountMsgs, CountShape, PollIsRecord
      <3>2. counts' = Sent(counts, m)
        BY <1>e, <1>p, <2>s
      <3>3. counts' \in Rx(CountMsgs) /\ Len(counts'.msgs) <= Capacity
        BY <3>1, <3>2, SentIsLast
      <3>4. dropped' \subseteq Stations
        <4>1. ASSUME Len(counts.msgs) = Capacity PROVE Head(counts.msgs)[1] \in Stations
          <5>1. counts.msgs \in Seq(CountMsgs) /\ counts.msgs # <<>>
            BY <3>1, <4>1, LiveFeedAssumption DEF Rx
          <5> QED
            BY <5>1 DEF CountMsgs
        <4> QED
          BY <1>0, <1>e, <1>p, <2>s, <4>1 DEF CountShape, PollIsRecord
      <3> QED
        BY <1>0, <1>p, <3>3, <3>4 DEF CountShape, PollIsRecord
    <2>n. CASE ~ Subscribed
      BY <1>0, <1>e, <1>p, <2>n DEF CountShape, PollIsRecord
    <2> QED
      BY <2>s, <2>n
  <1>2. PollInv'
    BY <1>0, <1>e, <1>p, ListenersAssumption
       DEF BroadcastCount, PollInv, CountShape, PollIsRecord
  <1>3. OldInv'
    <2> DEFINE m == <<s, cache[s]>>
               n == counts'.msgs
    <2>s. CASE Subscribed
      <3>1. m \in CountMsgs /\ counts \in Rx(CountMsgs) /\ Len(counts.msgs) <= Capacity
        BY <1>0, <1>p DEF CountMsgs, CountShape, PollIsRecord
      <3>2. counts' = Sent(counts, m)
        BY <1>e, <1>p, <2>s
      <3> HIDE DEF m
      <3> DEFINE w == Sent(counts, m).msgs
      <3>a. \E d \in {0, 1} :
              /\ d = 1 <=> Len(counts.msgs) = Capacity
              /\ Len(w) = Len(counts.msgs) + 1 - d
              /\ w[Len(w)] = m
              /\ \A i \in 1..(Len(w) - 1) :
                   i + d \in DOMAIN counts.msgs /\ w[i] = counts.msgs[i + d]
              /\ w \in Seq(CountMsgs)
        BY <3>1, SentShifts
      <3>b. n = w
        BY <3>2
      <3> HIDE DEF n, w
      <3>3. PICK d \in {0, 1} :
              /\ d = 1 <=> Len(counts.msgs) = Capacity
              /\ Len(n) = Len(counts.msgs) + 1 - d
              /\ n[Len(n)] = m
              /\ \A i \in 1..(Len(n) - 1) :
                   i + d \in DOMAIN counts.msgs /\ n[i] = counts.msgs[i + d]
              /\ n \in Seq(CountMsgs)
        BY <3>a, <3>b
      <3>4. /\ Len(counts.msgs) \in Nat /\ DOMAIN counts.msgs = 1..Len(counts.msgs)
            /\ Len(n) \in Nat /\ DOMAIN n = 1..Len(n)
        BY <3>1, <3>3 DEF Rx
      <3>5. m[1] = s /\ m[2] = cache[s]
        BY DEF m
      <3>6. ASSUME NEW i \in DOMAIN n
            PROVE  Held(n[i][1], n[i][2])
        <4>1. CASE i = Len(n)
          BY <3>3, <3>5, <4>1, <1>p DEF Held, CountsOf
        <4>2. CASE i # Len(n)
          <5>1. i \in 1..(Len(n) - 1)
            BY <3>4, <3>6, <4>2
          <5> QED
            BY <1>0, <3>3, <5>1 DEF OldInv
        <4> QED
          BY <4>1, <4>2
      <3>7. ASSUME NEW i \in DOMAIN n, NEW j \in DOMAIN n, i < j, n[i][1] = n[j][1]
            PROVE  n[i][2].at < n[j][2].at
        <4>1. i \in 1..(Len(n) - 1) /\ i + d \in DOMAIN counts.msgs /\ n[i] = counts.msgs[i + d]
          BY <3>3, <3>4, <3>7
        <4>2. CASE j = Len(n)
          <5>1. /\ counts.msgs[i + d][1] = s
                /\ Held(s, counts.msgs[i + d][2])
                /\ counts.msgs[i + d][2].at # cache[s].at
            BY <1>0, <1>p, <3>3, <3>5, <3>7, <4>1, <4>2 DEF OldInv
          <5>2. counts.msgs[i + d][2].at \in Nat /\ cache[s].at \in Nat
            BY <1>0, <1>p, <4>1, MessageHas DEF CountsOf
          <5>3. n[j][2] = cache[s] /\ n[i][2] = counts.msgs[i + d][2]
            BY <3>3, <3>5, <4>1, <4>2
          <5> QED
            BY <5>1, <5>2, <5>3 DEF Held
        <4>3. CASE j # Len(n)
          <5>1. j \in 1..(Len(n) - 1) /\ j + d \in DOMAIN counts.msgs /\ n[j] = counts.msgs[j + d]
            BY <3>3, <3>4, <3>7, <4>3
          <5>2. i + d < j + d
            BY <3>4, <3>7
          <5> QED
            BY <1>0, <3>7, <4>1, <5>1, <5>2 DEF OldInv
        <4> QED
          BY <4>2, <4>3
      <3> QED
        BY <1>0, <1>p, <2>s, <3>6, <3>7 DEF OldInv, Subscribed, Held, n
    <2>n. CASE ~ Subscribed
      <3>1. counts' = counts /\ poll'.update = {} /\ UNCHANGED <<cache, listening, shown>>
        BY <1>e, <1>p, <2>n
      <3>2. ~ Subscribed'
        BY <2>n, <3>1 DEF Subscribed
      <3> QED
        BY <1>0, <2>n, <3>1, <3>2 DEF OldInv, Held
    <2> QED
      BY <2>s, <2>n
  <1>4. CountInv'
    <2> DEFINE m == <<s, cache[s]>>
               n == counts'.msgs
    <2>s. CASE Subscribed
      <3>1. m \in CountMsgs /\ counts \in Rx(CountMsgs) /\ Len(counts.msgs) <= Capacity
        BY <1>0, <1>p DEF CountMsgs, CountShape, PollIsRecord
      <3>2. counts' = Sent(counts, m)
        BY <1>e, <1>p, <2>s
      <3> HIDE DEF m
      <3> DEFINE w == Sent(counts, m).msgs
      <3>a. \E d \in {0, 1} :
              /\ d = 1 <=> Len(counts.msgs) = Capacity
              /\ Len(w) = Len(counts.msgs) + 1 - d
              /\ w[Len(w)] = m
              /\ \A i \in 1..(Len(w) - 1) :
                   i + d \in DOMAIN counts.msgs /\ w[i] = counts.msgs[i + d]
              /\ w \in Seq(CountMsgs)
        BY <3>1, SentShifts
      <3>b. n = w
        BY <3>2
      <3> HIDE DEF n, w
      <3>3. PICK d \in {0, 1} :
              /\ d = 1 <=> Len(counts.msgs) = Capacity
              /\ Len(n) = Len(counts.msgs) + 1 - d
              /\ n[Len(n)] = m
              /\ \A i \in 1..(Len(n) - 1) :
                   i + d \in DOMAIN counts.msgs /\ n[i] = counts.msgs[i + d]
              /\ n \in Seq(CountMsgs)
        BY <3>a, <3>b
      <3>4. /\ Len(counts.msgs) \in Nat /\ DOMAIN counts.msgs = 1..Len(counts.msgs)
            /\ Len(n) \in Nat /\ DOMAIN n = 1..Len(n)
        BY <3>1, <3>3 DEF Rx
      <3>5. m[1] = s /\ m[2] = cache[s]
        BY DEF m
      <3>6. ASSUME NEW t \in Stations \ dropped'
            PROVE  /\ \A i \in DOMAIN n :
                        n[i][1] = t /\ (\A j \in DOMAIN n : j > i => n[j][1] # t)
                          => ~ Differs(n[i][2], cache[t])
                   /\ listening = "live"
                      /\ (\A i \in DOMAIN n : n[i][1] = t => shown[t].at >= n[i][2].at)
                        => ~ Differs(shown[t], cache[t])
        <4>1. CASE t = s
          <5>1. Len(n) \in DOMAIN n /\ \A i \in DOMAIN n : i # Len(n) => Len(n) > i
            BY <3>3, <3>4, LiveFeedAssumption
          <5>2. Held(s, shown[s]) /\ shown[s].at \in Nat /\ cache[s].at \in Nat
            BY <1>0, <1>p DEF OldInv, CountShape, CountsOf, PollIsRecord
          <5>3. shown[s].at >= cache[s].at => shown[s] = cache[s]
            BY <5>2 DEF Held
          <5> QED
            BY <3>3, <3>5, <4>1, <5>1, <5>3 DEF Differs
        <4>2. CASE t # s
          <5>1. t \notin dropped \cup poll.update
            BY <1>e, <1>p, <2>s, <3>6, <4>2
          <5>2. ASSUME NEW i \in DOMAIN counts.msgs, counts.msgs[i][1] = t
                PROVE  i - d \in 1..(Len(n) - 1)
            <6>1. ASSUME d = 1 PROVE i # 1
              <7>1. Head(counts.msgs)[1] # t
                BY <1>e, <1>p, <2>s, <3>3, <3>6, <4>2, <6>1
              <7>2. counts.msgs \in Seq(CountMsgs) /\ counts.msgs # <<>>
                BY <3>1, <3>4, <5>2 DEF Rx
              <7>3. Head(counts.msgs) = counts.msgs[1]
                BY <7>2
              <7> QED
                BY <5>2, <7>1, <7>3
            <6>2. i \in Nat /\ 1 <= i /\ i <= Len(counts.msgs)
              BY <3>4, <5>2
            <6>3. CASE d = 0
              <7>1. Len(n) = Len(counts.msgs) + 1
                BY <3>3, <3>4, <6>3
              <7> QED
                BY <3>4, <6>2, <6>3, <7>1
            <6>4. CASE d = 1
              <7>1. Len(n) = Len(counts.msgs)
                BY <3>3, <3>4, <6>4
              <7> QED
                BY <3>4, <6>1, <6>2, <6>4, <7>1
            <6> QED
              BY <3>3, <6>3, <6>4
          <5>3. ASSUME NEW i \in DOMAIN n, n[i][1] = t
                PROVE  i \in 1..(Len(n) - 1)
            <6>1. i # Len(n)
              BY <3>3, <3>5, <4>2, <5>3
            <6> QED
              BY <3>4, <5>3, <6>1
          <5>4. ASSUME NEW i \in DOMAIN n, n[i][1] = t,
                       \A j \in DOMAIN n : j > i => n[j][1] # t
                PROVE  ~ Differs(n[i][2], cache[t])
            <6>1. i + d \in DOMAIN counts.msgs /\ n[i] = counts.msgs[i + d]
              BY <3>3, <5>3, <5>4
            <6>2. ASSUME NEW j \in DOMAIN counts.msgs, j > i + d, counts.msgs[j][1] = t
                  PROVE  FALSE
              <7>1. j - d \in 1..(Len(n) - 1)
                BY <5>2, <6>2
              <7>n. /\ i \in Nat /\ j \in Nat /\ d \in Nat
                BY <3>3, <3>4, <5>4, <6>2
              <7>d. j - d > i /\ j - d \in DOMAIN n /\ (j - d) + d = j
                BY <3>4, <6>2, <7>1, <7>n
              <7>2. n[j - d] = counts.msgs[j] /\ j - d > i /\ j - d \in DOMAIN n
                BY <3>3, <7>1, <7>d
              <7> QED
                BY <5>4, <6>2, <7>2
            <6>3. LastOf(t, i + d)
              BY <5>4, <6>1, <6>2 DEF LastOf
            <6> QED
              BY <1>0, <2>s, <5>1, <6>1, <6>3 DEF CountInv
          <5>5. ASSUME listening = "live",
                       \A i \in DOMAIN n : n[i][1] = t => shown[t].at >= n[i][2].at
                PROVE  ~ Differs(shown[t], cache[t])
            <6>1. ASSUME NEW i \in DOMAIN counts.msgs, counts.msgs[i][1] = t
                  PROVE  shown[t].at >= counts.msgs[i][2].at
              <7>1. i - d \in 1..(Len(n) - 1)
                BY <5>2, <6>1
              <7>d. i - d \in DOMAIN n /\ (i - d) + d = i
                BY <3>3, <3>4, <6>1, <7>1
              <7>2. n[i - d] = counts.msgs[i] /\ i - d \in DOMAIN n
                BY <3>3, <7>1, <7>d
              <7> QED
                BY <5>5, <6>1, <7>2
            <6>2. Ahead(t)
              BY <6>1 DEF Ahead
            <6> QED
              BY <1>0, <2>s, <5>1, <5>5, <6>2 DEF CountInv
          <5> QED
            BY <5>4, <5>5
        <4> QED
          BY <4>1, <4>2
      <3> QED
        BY <1>p, <3>6 DEF CountInv, LastOf, Ahead, n
    <2>n. CASE ~ Subscribed
      BY <1>p, <2>n DEF CountInv, Subscribed
    <2> QED
      BY <2>s, <2>n
  <1>5. SampleInv'
    BY <1>0, <1>e, <1>p, ListenersAssumption
       DEF BroadcastCount, SampleInv, CountShape, PollIsRecord
  <1> QED
    BY <1>1, <1>2, <1>3, <1>4, <1>5 DEF ListenerInv

LEMMA EndPollKeeps == ListenerInv /\ EndPoll => ListenerInv'
  <1> SUFFICES ASSUME ListenerInv, EndPoll PROVE ListenerInv'
    OBVIOUS
  <1>0. CountShape /\ PollInv /\ OldInv /\ CountInv /\ SampleInv
    BY DEF ListenerInv
  <1>e. /\ poll.update = {} /\ poll'.update = {} /\ poll'.at = "idle" /\ poll'.sample = FALSE
        /\ poll'.listed = {} /\ poll'.todo = {}
        /\ PollIsRecord'
        /\ UNCHANGED <<clock, sampled, cache, listening, counts, shown, dropped>>
    BY <1>0 DEF EndPoll, Resting, CountShape, PollIsRecord
  <1>1. CountShape'
    <2>1. samples' \in [Stations -> Nat]
      BY <1>0 DEF EndPoll, CountShape, PollIsRecord
    <2> QED
      BY <1>0, <1>e, <2>1 DEF CountShape, PollIsRecord
  <1>2. PollInv'
    BY <1>0, <1>e DEF PollInv
  <1>3. OldInv'
    BY <1>0, <1>e, KnownKept
  <1>4. CountInv'
    BY <1>0, <1>e, KnownKept
  <1>5. SampleInv'
    <2>1. ASSUME NEW s \in Stations
          PROVE  samples'[s] \in {samples[s], clock} /\ (samples'[s] # samples[s] => poll.sample)
      BY <1>0, <2>1 DEF EndPoll, CountShape, PollIsRecord
    <2>2. ASSUME NEW s \in Stations PROVE samples'[s] <= sampled
      BY <1>0, <2>1, <2>2 DEF SampleInv, CountShape, PollIsRecord
    <2> QED
      BY <1>0, <1>e, <2>2 DEF SampleInv
  <1> QED
    BY <1>1, <1>2, <1>3, <1>4, <1>5 DEF ListenerInv

LEMMA ListenKeeps == ListenerInv /\ Listen => ListenerInv'
  <1> SUFFICES ASSUME ListenerInv, Listen PROVE ListenerInv'
    OBVIOUS
  <1>0. CountShape /\ PollInv /\ OldInv /\ CountInv /\ SampleInv
    BY DEF ListenerInv
  <1>1. CountShape'
    BY <1>0, ListenersAssumption DEF Listen, CountShape, PollIsRecord
  <1>2. PollInv'
    BY <1>0, ListenersAssumption DEF Listen, PollInv, CountShape, PollIsRecord
  <1>3. OldInv'
    BY <1>0, ListenersAssumption
       DEF Listen, OldInv, Held, PollInv, CountShape, Subscribed, CountsOf, PollIsRecord
  <1>4. CountInv'
    <2>1. counts = Empty /\ counts' = Empty /\ listening' = "snapshot"
      BY <1>0 DEF Listen, OldInv, Subscribed
    <2>2. DOMAIN counts'.msgs = {}
      BY <2>1 DEF Empty
    <2> QED
      BY <2>1, <2>2 DEF CountInv
  <1>5. SampleInv'
    BY <1>0, ListenersAssumption DEF Listen, SampleInv, CountShape, PollIsRecord
  <1> QED
    BY <1>1, <1>2, <1>3, <1>4, <1>5 DEF ListenerInv

LEMMA ReadCacheKeeps == ListenerInv /\ ReadCache => ListenerInv'
  <1> SUFFICES ASSUME ListenerInv, ReadCache PROVE ListenerInv'
    OBVIOUS
  <1>0. CountShape /\ PollInv /\ OldInv /\ CountInv /\ SampleInv
    BY DEF ListenerInv
  <1>1. CountShape'
    BY <1>0, ListenersAssumption DEF ReadCache, CountShape, PollIsRecord
  <1>2. PollInv'
    BY <1>0, ListenersAssumption DEF ReadCache, PollInv, CountShape, PollIsRecord
  <1>3. OldInv'
    <2>1. /\ listening = "snapshot" /\ listening' = "live" /\ shown' = cache
          /\ UNCHANGED <<poll, cache, counts>>
      BY DEF ReadCache
    <2>2. \A s \in Stations : cache[s].at \in Nat
      BY <1>0 DEF CountShape, CountsOf
    <2>3. \A s \in Stations : Held(s, shown[s])'
      BY <2>1, <2>2 DEF Held
    <2>4. \A i \in DOMAIN counts.msgs :
            LET s == counts.msgs[i][1]  m == counts.msgs[i][2]
            IN  Held(s, m)' /\ (m.at = cache[s].at => s \notin poll.update)
      BY <1>0, <2>1 DEF OldInv, Held
    <2>5. Subscribed'
      BY <2>1 DEF Subscribed
    <2> QED
      BY <1>0, <2>1, <2>3, <2>4, <2>5 DEF OldInv, Held
  <1>4. CountInv'
    <2>1. /\ listening = "snapshot" /\ shown' = cache
          /\ UNCHANGED <<poll, cache, counts, dropped>>
      BY DEF ReadCache
    <2>2. Subscribed
      BY <2>1 DEF Subscribed
    <2> SUFFICES ASSUME NEW s \in Stations \ (dropped \cup poll.update)
                 PROVE  /\ \A i \in DOMAIN counts.msgs :
                             LastOf(s, i) => ~ Differs(counts.msgs[i][2], cache[s])
                        /\ ~ Differs(cache[s], cache[s])
      BY <2>1 DEF CountInv, LastOf
    <2>3. \A i \in DOMAIN counts.msgs :
            LastOf(s, i) => ~ Differs(counts.msgs[i][2], cache[s])
      BY <1>0, <2>2 DEF CountInv
    <2> QED
      BY <2>3 DEF Differs
  <1>5. SampleInv'
    BY <1>0, ListenersAssumption DEF ReadCache, SampleInv, CountShape, PollIsRecord
  <1> QED
    BY <1>1, <1>2, <1>3, <1>4, <1>5 DEF ListenerInv

LEMMA ForwardCountKeeps == ListenerInv /\ ForwardCount => ListenerInv'
  <1> SUFFICES ASSUME ListenerInv, ForwardCount PROVE ListenerInv'
    OBVIOUS
  <1>0. CountShape /\ PollInv /\ OldInv /\ CountInv /\ SampleInv
    BY DEF ListenerInv
  <1> DEFINE h == Head(counts.msgs)[1]
             m == Head(counts.msgs)[2]
  <1>e. /\ listening = "live" /\ counts # Empty /\ counts' = NextMessage(counts)
        /\ UNCHANGED <<clock, sampled, poll, cache, samples, listening, dropped>>
    BY DEF ForwardCount
  <1>r. counts \in Rx(CountMsgs) /\ Len(counts.msgs) <= Capacity
    BY <1>0 DEF CountShape
  <1>t. counts' \in Rx(CountMsgs) /\ Len(counts'.msgs) <= Capacity
    BY <1>r, <1>e, NextIsOldest
  <1>l. ASSUME counts.lagged PROVE counts'.msgs = counts.msgs /\ shown' = shown
    <2>1. counts'.msgs = counts.msgs
      BY <1>l, <1>r, <1>e, NextIsOldest
    <2> QED
      BY <1>l, <2>1 DEF ForwardCount
  <1>n. ASSUME ~ counts.lagged
        PROVE  /\ 1 \in DOMAIN counts.msgs /\ h = counts.msgs[1][1] /\ m = counts.msgs[1][2]
               /\ h \in Stations /\ m \in CountsOf
               /\ \A i \in DOMAIN counts'.msgs :
                    /\ i + 1 \in DOMAIN counts.msgs /\ counts'.msgs[i] = counts.msgs[i + 1]
                    /\ i \in Nat \ {0}
               /\ \A i \in DOMAIN counts.msgs :
                    i \in Nat \ {0} /\ (i # 1 => i - 1 \in DOMAIN counts'.msgs)
               /\ \/ shown[h].at < m.at /\ shown' = [shown EXCEPT ![h] = m]
                  \/ ~ (shown[h].at < m.at) /\ shown' = shown
    <2>1. counts.msgs \in Seq(CountMsgs) /\ counts.msgs # <<>> /\ counts'.msgs = Tail(counts.msgs)
      BY <1>0, <1>e, <1>n, NextIsOldest DEF CountShape, Rx, PollIsRecord
    <2>2. 1 \in DOMAIN counts.msgs /\ Head(counts.msgs) = counts.msgs[1]
      BY <2>1
    <2>3. h \in Stations /\ m \in CountsOf
      BY <1>0, <2>2, MessageHas
    <2>4. /\ \A i \in DOMAIN Tail(counts.msgs) :
               /\ i + 1 \in DOMAIN counts.msgs /\ Tail(counts.msgs)[i] = counts.msgs[i + 1]
               /\ i \in Nat \ {0}
          /\ \A i \in DOMAIN counts.msgs :
               i \in Nat \ {0} /\ (i # 1 => i - 1 \in DOMAIN Tail(counts.msgs))
      BY <2>1
    <2>5. \/ shown[h].at < m.at /\ shown' = [shown EXCEPT ![h] = m]
          \/ ~ (shown[h].at < m.at) /\ shown' = shown
      BY <1>n DEF ForwardCount, Newer
    <2> QED
      BY <2>1, <2>2, <2>3, <2>4, <2>5
  <1>1. CountShape'
    <2>1. shown' \in [Stations -> CountsOf]
      BY <1>0, <1>l, <1>n DEF CountShape, PollIsRecord
    <2> QED
      BY <1>0, <1>e, <1>t, <2>1 DEF CountShape, PollIsRecord
  <1>2. PollInv'
    BY <1>0, <1>e DEF PollInv
  <1>3. OldInv'
    <2>1. CASE counts.lagged
      <3>1. counts'.msgs = counts.msgs /\ shown' = shown
            /\ UNCHANGED <<poll, cache, listening>>
        BY <1>e, <1>l, <2>1
      <3>2. Subscribed /\ Subscribed'
        BY <1>e, <3>1 DEF Subscribed
      <3> QED
        BY <1>0, <3>1, <3>2 DEF OldInv, Held
    <2>2. CASE ~ counts.lagged
      <3>1. ASSUME NEW t \in Stations PROVE Held(t, shown'[t])
        <4>1. Held(t, shown[t]) /\ Held(h, m)
          BY <1>0, <1>n, <2>2 DEF OldInv
        <4>2. shown'[t] = shown[t] \/ (t = h /\ shown'[t] = m)
          BY <1>0, <1>n, <2>2 DEF CountShape, PollIsRecord
        <4> QED
          BY <4>1, <4>2
      <3>2. ASSUME NEW i \in DOMAIN counts'.msgs
            PROVE  LET u == counts'.msgs[i][1]  x == counts'.msgs[i][2]
                   IN  Held(u, x) /\ (x.at = cache[u].at => u \notin poll.update)
        <4>1. i + 1 \in DOMAIN counts.msgs /\ counts'.msgs[i] = counts.msgs[i + 1]
          BY <1>n, <2>2
        <4> QED
          BY <1>0, <4>1 DEF OldInv
      <3>3. ASSUME NEW i \in DOMAIN counts'.msgs, NEW j \in DOMAIN counts'.msgs, i < j,
                   counts'.msgs[i][1] = counts'.msgs[j][1]
            PROVE  counts'.msgs[i][2].at < counts'.msgs[j][2].at
        <4>1. /\ i + 1 \in DOMAIN counts.msgs /\ counts'.msgs[i] = counts.msgs[i + 1]
              /\ j + 1 \in DOMAIN counts.msgs /\ counts'.msgs[j] = counts.msgs[j + 1]
              /\ i + 1 < j + 1
          BY <1>n, <2>2, <3>3
        <4> QED
          BY <1>0, <3>3, <4>1 DEF OldInv
      <3> QED
        BY <1>e, <3>1, <3>2, <3>3 DEF OldInv, Held, Subscribed
    <2> QED
      BY <2>1, <2>2
  <1>4. CountInv'
    <2>1. CASE counts.lagged
      BY <1>0, <1>e, <1>l, <2>1 DEF CountInv, LastOf, Ahead, Subscribed
    <2>2. CASE ~ counts.lagged
      <3>1. Subscribed
        BY <1>e DEF Subscribed
      <3>2. ASSUME NEW t \in Stations \ (dropped \cup poll.update), NEW i \in DOMAIN counts'.msgs,
                   LastOf(t, i)'
            PROVE  ~ Differs(counts'.msgs[i][2], cache[t])
        <4>1. /\ i + 1 \in DOMAIN counts.msgs /\ counts'.msgs[i] = counts.msgs[i + 1]
              /\ i \in Nat \ {0}
          BY <1>n, <2>2
        <4>2. ASSUME NEW j \in DOMAIN counts.msgs, j > i + 1 PROVE counts.msgs[j][1] # t
          <5>1. j \in Nat /\ j # 1 /\ j - 1 \in DOMAIN counts'.msgs /\ j - 1 > i
            BY <1>n, <2>2, <4>1, <4>2
          <5>2. counts'.msgs[j - 1] = counts.msgs[j]
            BY <1>n, <2>2, <5>1
          <5> QED
            BY <3>2, <5>1, <5>2 DEF LastOf
        <4>3. LastOf(t, i + 1)
          BY <3>2, <4>1, <4>2 DEF LastOf
        <4> QED
          BY <1>0, <3>1, <4>1, <4>3 DEF CountInv
      <3>3. ASSUME NEW t \in Stations \ (dropped \cup poll.update), Ahead(t)'
            PROVE  ~ Differs(shown'[t], cache[t])
        <4>1. ASSUME NEW i \in DOMAIN counts.msgs, i # 1, counts.msgs[i][1] = t
              PROVE  shown'[t].at >= counts.msgs[i][2].at
          <5>1. i - 1 \in DOMAIN counts'.msgs /\ counts'.msgs[i - 1] = counts.msgs[i]
            BY <1>n, <2>2, <4>1
          <5> QED
            BY <3>3, <4>1, <5>1 DEF Ahead
        <4>2. CASE shown'[t] = shown[t] /\ (t = h => shown[t].at >= m.at)
          <5>1. Ahead(t)
            BY <1>n, <2>2, <4>1, <4>2 DEF Ahead
          <5> QED
            BY <1>0, <1>e, <3>1, <4>2, <5>1 DEF CountInv
        <4>3. CASE t = h /\ shown'[t] = m
          <5>1. ASSUME NEW j \in DOMAIN counts.msgs, j > 1 PROVE counts.msgs[j][1] # t
            <6> SUFFICES ASSUME counts.msgs[j][1] = t PROVE FALSE
              OBVIOUS
            <6>1. m.at < counts.msgs[j][2].at
              BY <1>0, <1>n, <2>2, <4>3, <5>1 DEF OldInv
            <6>2. m.at >= counts.msgs[j][2].at
              BY <1>n, <2>2, <4>1, <4>3, <5>1
            <6>3. m.at \in Nat /\ counts.msgs[j][2].at \in Nat
              BY <1>0, <1>n, <2>2, <5>1, MessageHas DEF CountsOf
            <6> QED
              BY <6>1, <6>2, <6>3
          <5>2. LastOf(t, 1)
            BY <1>n, <2>2, <4>3, <5>1 DEF LastOf
          <5> QED
            BY <1>0, <1>n, <2>2, <3>1, <4>3, <5>2 DEF CountInv
        <4>4. \/ shown'[t] = shown[t] /\ (t = h => shown[t].at >= m.at)
              \/ t = h /\ shown'[t] = m
          <5>1. m.at \in Nat /\ shown[t].at \in Nat
            BY <1>0, <1>n, <2>2 DEF CountShape, CountsOf, PollIsRecord
          <5> QED
            BY <1>0, <1>n, <2>2, <5>1 DEF CountShape, PollIsRecord
        <4> QED
          BY <4>2, <4>3, <4>4
      <3> QED
        BY <1>e, <3>2, <3>3 DEF CountInv
    <2> QED
      BY <2>1, <2>2
  <1>5. SampleInv'
    BY <1>0, <1>e DEF SampleInv
  <1> QED
    BY <1>1, <1>2, <1>3, <1>4, <1>5 DEF ListenerInv

LEMMA AbortListeningKeeps == ListenerInv /\ AbortListening => ListenerInv'
  <1> SUFFICES ASSUME ListenerInv, AbortListening PROVE ListenerInv'
    OBVIOUS
  <1>0. CountShape /\ PollInv /\ OldInv /\ CountInv /\ SampleInv
    BY DEF ListenerInv
  <1>e. /\ counts' = Empty /\ Empty \in Rx(CountMsgs) /\ DOMAIN Empty.msgs = {}
        /\ Len(Empty.msgs) <= Capacity
    BY NothingIsWaiting DEF AbortListening
  <1>1. CountShape'
    BY <1>0, <1>e DEF AbortListening, CountShape, PollIsRecord
  <1>2. PollInv'
    BY <1>0, <1>e, ListenersAssumption DEF AbortListening, PollInv, CountShape, PollIsRecord
  <1>3. OldInv'
    BY <1>0, <1>e DEF AbortListening, OldInv, Held, Subscribed
  <1>4. CountInv'
    <2>1. listening' = "ended"
      BY DEF AbortListening
    <2> QED
      BY <2>1 DEF CountInv, Subscribed
  <1>5. SampleInv'
    BY <1>0, <1>e, ListenersAssumption DEF AbortListening, SampleInv, CountShape, PollIsRecord
  <1> QED
    BY <1>1, <1>2, <1>3, <1>4, <1>5 DEF ListenerInv

LEMMA CountsStill == ListenerInv /\ UNCHANGED listenerVars => ListenerInv'
  <1> SUFFICES ASSUME ListenerInv, UNCHANGED listenerVars PROVE ListenerInv'
    OBVIOUS
  <1>0. CountShape /\ PollInv /\ OldInv /\ CountInv /\ SampleInv
    BY DEF ListenerInv
  <1>1. CountShape'
    BY <1>0 DEF CountShape, PollIsRecord, listenerVars
  <1>2. PollInv'
    BY <1>0 DEF PollInv, listenerVars
  <1>3. OldInv' /\ CountInv'
    <2>1. poll'.update = poll.update /\ UNCHANGED <<cache, listening, counts, shown, dropped>>
      BY DEF listenerVars
    <2> QED
      BY <1>0, <2>1, KnownKept
  <1>4. SampleInv'
    BY <1>0 DEF SampleInv, listenerVars
  <1> QED
    BY <1>1, <1>2, <1>3, <1>4 DEF ListenerInv

LEMMA CountsStep == ListenerInv /\ [ConnectionNext]_allVars => ListenerInv'
  <1> SUFFICES ASSUME ListenerInv, [ConnectionNext]_allVars PROVE ListenerInv'
    OBVIOUS
  <1>1. CASE ListenerStep
    BY <1>1, BeginPollKeeps, AskKeeps, PublishKeeps, BroadcastCountKeeps, EndPollKeeps,
       ListenKeeps, ReadCacheKeeps, ForwardCountKeeps, AbortListeningKeeps
       DEF ListenerStep
  <1>2. CASE UNCHANGED listenerVars
    BY <1>2, CountsStill
  <1> QED
    BY <1>1, <1>2 DEF ConnectionNext, allVars

LEMMA CountsAlways == ConnectionSpec => []ListenerInv
  <1>1. ConnectionInit => ListenerInv
    BY InitCounts DEF ConnectionInit
  <1> QED
    BY <1>1, CountsStep, PTL DEF ConnectionSpec

(* No count slips through between the subscription and the reading of the  *)
(* cache: forward_listeners, when it has passed on all there is, has told  *)
(* what ListenersState holds of every station, except of those whose last  *)
(* broadcast its receiver lost.                                            *)
THEOREM CountsReachTheClient == ConnectionSpec => []CountsAreCurrent
  <1>1. ListenerInv => CountsAreCurrent
    <2> SUFFICES ASSUME ListenerInv, Heard, NEW s \in Stations \ dropped
                 PROVE  ~ Differs(shown[s], cache[s])
      BY DEF CountsAreCurrent
    <2>1. poll.update = {} /\ listening = "live" /\ DOMAIN counts.msgs = {}
      BY NothingIsWaiting DEF Heard
    <2>2. Ahead(s)
      BY <2>1 DEF Ahead
    <2> QED
      BY <2>1, <2>2 DEF ListenerInv, CountInv, Subscribed
  <1> QED
    BY <1>1, CountsAlways, PTL

(* forward_listeners tells no older count after a newer one, although its  *)
(* snapshot and its channel overlap, and poll_once leaves samples that are *)
(* SampleEvery polls apart, in an outage as without one.                   *)
THEOREM CountsNeverGoBack == ConnectionSpec => CountsMoveForward
  <1>1. ListenerInv /\ [ConnectionNext]_allVars
          => [\A s \in Stations :
                /\ shown'[s].at >= shown[s].at
                /\ samples'[s] # samples[s] /\ samples[s] # 0
                     => samples'[s] >= samples[s] + SampleEvery]_allVars
    <2> SUFFICES ASSUME ListenerInv, [ConnectionNext]_allVars, NEW s \in Stations
                 PROVE  /\ shown'[s].at >= shown[s].at
                        /\ samples'[s] # samples[s] /\ samples[s] # 0
                             => samples'[s] >= samples[s] + SampleEvery
      OBVIOUS
    <2>0. CountShape /\ OldInv /\ SampleInv
      BY DEF ListenerInv
    <2>1. shown[s].at \in Nat /\ cache[s].at \in Nat /\ samples[s] \in Nat
      BY <2>0 DEF CountShape, CountsOf, PollIsRecord
    <2>2. CASE UNCHANGED <<shown, samples>>
      BY <2>1, <2>2
    <2>3. CASE ReadCache
      BY <2>0, <2>1, <2>3 DEF ReadCache, OldInv, Held
    <2>4. CASE ForwardCount
      <3>1. samples' = samples
        BY <2>4 DEF ForwardCount
      <3>2. CASE shown' = shown
        BY <2>1, <3>1, <3>2
      <3>3. CASE ~ counts.lagged /\ Newer(Head(counts.msgs))
        <4> DEFINE update == Head(counts.msgs)
        <4>1. /\ shown' = [shown EXCEPT ![update[1]] = update[2]]
              /\ shown[update[1]].at < update[2].at
          BY <2>4, <3>3 DEF ForwardCount, Newer
        <4>2. update \in CountMsgs
          BY <2>0, <2>4, <3>3, NextIsOldest DEF CountShape, ForwardCount, PollIsRecord
        <4>3. update[1] \in Stations /\ update[2].at \in Nat
          BY <4>2 DEF CountMsgs, CountsOf
        <4> HIDE DEF update
        <4>4. shown'[s].at >= shown[s].at
          BY <2>0, <2>1, <4>1, <4>3 DEF CountShape, PollIsRecord
        <4> QED
          BY <3>1, <4>4
      <3> QED
        BY <2>4, <3>2, <3>3 DEF ForwardCount
    <2>5. CASE EndPoll
      <3>1. shown' = shown /\ samples'[s] \in {samples[s], clock}
            /\ (samples'[s] # samples[s] => poll.sample)
        BY <2>0, <2>5 DEF EndPoll, CountShape, PollIsRecord
      <3> QED
        BY <2>0, <2>1, <3>1 DEF SampleInv
    <2> QED
      BY <2>2, <2>3, <2>4, <2>5
         DEF ConnectionNext, allVars, listenerVars, ListenerStep, BeginPoll, Ask, Publish,
             BroadcastCount, Listen, AbortListening
  <1> QED
    BY <1>1, CountsAlways, PTL DEF ConnectionSpec, CountsMoveForward
=============================================================================
