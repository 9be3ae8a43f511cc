------------------------------ MODULE LiveFeed ------------------------------
(***************************************************************************)
(* What one WebSocket client sees of one station:                          *)
(* stations/handlers/ws.rs.  The task forward_station owns the client's    *)
(* picture.  While the station has a runtime the task forwards the         *)
(* runtime's two broadcasts; while it has none the task watches the map    *)
(* and the station's notifications and reads the database.                 *)
(*                                                                         *)
(* Around it stand the transitions that hold the station's lifecycle lock  *)
(* (Lifecycle.tla has them in detail), the runtime that moves on in its    *)
(* queue, and clients that edit the queue and synchronize afterwards, or   *)
(* never get that far.                                                     *)
(* Contents are versions: a queue is the number of its last change, a      *)
(* status the runtime and the number of its last track.                    *)
(***************************************************************************)
EXTENDS Naturals, Sequences

CONSTANTS
  Capacity,        \* slots of a broadcast channel
  Budgets          \* bounds, one of which holds in a behaviour: transitions
                   \* (plays, stops, restarts and deletions), changes (queue
                   \* edits and track changes), faults (failed starts, stops,
                   \* reads, writes, status calls and pushes), commands
                   \* (subscriptions of the client), polls and connections
                   \* (of Listeners.tla)

ASSUME LiveFeedAssumption ==
  /\ Capacity \in Nat \ {0}
  /\ Budgets \subseteq [transitions : Nat, changes : Nat, faults : Nat, commands : Nat,
                  polls : Nat, connections : Nat]

VARIABLES
  row,       \* the desired state of the station, or gone
  lock,      \* what the holder of the lifecycle lock does next, or free
  runtime,   \* the mapped runtime, or 0
  runtimes,  \* runtimes created so far
  track,     \* number of the runtime's current track
  queue,     \* number of the queue's last change
  unpushed,  \* whether the runtime has yet to broadcast its queue
  owed,      \* whether a queue edit has yet to be synchronized
  client,    \* open, revoked (the session is no longer valid) or gone
  feed,      \* the forwarding task
  notes,     \* its receiver of station notifications
  statuses,  \* its receiver of the runtime's status
  queues,    \* its receiver of the runtime's queue
  view,      \* what the client was last told, as a tuple; empty when nothing
             \* or, of the queue, that it could not be read
  lost,      \* history: what the client may have missed.  "queue": a queue
             \* broadcast failed, an edit was never synchronized, or a runtime
             \* went away unseen by a watching task; "status": the queue behind
             \* a new status could not be read, so the next look compares with
             \* the status before; "reply": the row changed, the reply of the
             \* statement was lost, and the watching task was not notified.
             \* Nothing newer was told since
  left       \* what is left of the bounds

station == <<row, lock, runtime, runtimes, track, queue, unpushed, owed>>
vars == <<station, client, feed, notes, statuses, queues, view, lost, left>>

Empty == [msgs |-> <<>>, lagged |-> FALSE]
NoFeed == [at |-> "none", target |-> 0, last |-> "none", seen |-> "none", force |-> FALSE]
Watching == {"observe", "snapshot", "wait"}
Attached == {"attach", "attachQueue", "live"}

Init ==
  /\ row \in {"stopped", "started"}
  /\ lock = "free"
  /\ runtime = 0
  /\ runtimes = 0
  /\ track = 0
  /\ queue = 0
  /\ unpushed = FALSE
  /\ owed = FALSE
  /\ client = "open"
  /\ feed = NoFeed
  /\ notes = Empty
  /\ statuses = Empty
  /\ queues = Empty
  /\ view = [status |-> <<>>, queue |-> <<>>]
  /\ lost = {}
  /\ left \in Budgets

Spend(kind) == left[kind] > 0 /\ left' = [left EXCEPT ![kind] = @ - 1]

(* A broadcast channel that is full drops its oldest message.              *)
Sent(rx, msg) ==
  IF Len(rx.msgs) < Capacity
  THEN [rx EXCEPT !.msgs = Append(@, msg)]
  ELSE [msgs |-> Append(Tail(rx.msgs), msg), lagged |-> TRUE]

Notify(kind) ==
  notes' = IF feed.at \in Watching THEN Sent(notes, kind) ELSE notes

(* The task has the receivers of the runtime it is attached to.            *)
Broadcast(rx, msg) ==
  IF feed.at \in Attached /\ feed.target = runtime THEN Sent(rx, msg) ELSE rx

-----------------------------------------------------------------------------
(* Transitions under the lifecycle lock.                                   *)

TakeLock ==
  /\ lock = "free"
  /\ row # "gone"
  /\ Spend("transitions")
  /\ lock' \in {"play", "stop", "delete"} \cup (IF runtime # 0 THEN {"restart"} ELSE {})
  /\ UNCHANGED <<row, runtime, runtimes, track, queue, unpushed, owed, client, feed,
                 notes, statuses, queues, view, lost>>

(* The statement that changes the row fails, or only its reply is lost:    *)
(* the transition ends, and nobody is notified.                            *)
Unheard(changed) ==
  /\ Spend("faults")
  /\ row' \in {row, changed}
  /\ lock' = "free"
  /\ lost' = lost \cup (IF row' # row /\ feed.at \in Watching THEN {"reply"} ELSE {})
  /\ UNCHANGED notes

(* set_station_started and its notification. *)
Persist ==
  /\ lock \in {"play", "stop"}
  /\ LET desired == IF lock = "play" THEN "started" ELSE "stopped"
     IN  \/ /\ row' = desired
            /\ lock' = IF lock = "stop" THEN "drain"
                       ELSE IF runtime = 0 THEN "create" ELSE "free"
            /\ Notify("lifecycle")
            /\ UNCHANGED <<lost, left>>
         \/ Unheard(desired)
  /\ UNCHANGED <<runtime, runtimes, track, queue, unpushed, owed, client, feed,
                 statuses, queues, view>>

(* The runtime is stopped and leaves the map, although the stop may fail,  *)
(* which ends the transition.  A restart goes on as a committed start.     *)
RemoveRuntime ==
  /\ lock \in {"drain", "restart", "delete"}
  /\ runtime' = 0
  /\ lost' = lost \cup (IF runtime # 0 /\ feed.at \in Watching THEN {"queue"} ELSE {})
  /\ unpushed' = FALSE
  /\ \/ /\ lock' = CASE lock = "drain" -> "free" [] lock = "restart" -> "play" [] OTHER -> "erase"
        /\ UNCHANGED left
     \/ runtime # 0 /\ lock' = "free" /\ Spend("faults")
  /\ UNCHANGED <<row, runtimes, track, queue, owed, client, feed, notes, statuses,
                 queues, view>>

CreateRuntime ==
  /\ lock = "create"
  /\ \/ /\ runtime' = runtimes + 1
        /\ runtimes' = runtimes + 1
        /\ UNCHANGED left
     \/ UNCHANGED <<runtime, runtimes>> /\ Spend("faults")
  /\ lock' = "free"
  /\ UNCHANGED <<row, track, queue, unpushed, owed, client, feed, notes, statuses,
                 queues, view, lost>>

EraseRow ==
  /\ lock = "erase"
  /\ \/ row' = "gone" /\ lock' = "free" /\ Notify("lifecycle") /\ UNCHANGED <<lost, left>>
     \/ Unheard("gone")
  /\ UNCHANGED <<runtime, runtimes, track, queue, unpushed, owed, client, feed,
                 statuses, queues, view>>

-----------------------------------------------------------------------------
(* The runtime and the queue.                                              *)

(* The runtime commits its next track: publish_song_change, and the played *)
(* rows are trimmed.                                                       *)
Advance ==
  /\ runtime # 0
  /\ ~ unpushed
  /\ Spend("changes")
  /\ track' = track + 1
  /\ queue' = queue + 1
  /\ unpushed' = TRUE
  /\ statuses' = Broadcast(statuses, <<"playing", runtime, track'>>)
  /\ UNCHANGED <<row, lock, runtime, runtimes, owed, client, feed, notes, queues,
                 view, lost>>

(* push_queue_update: the read may fail, and nobody is told. *)
PushQueue ==
  \/ queues' = Broadcast(queues, queue) /\ lost' = lost \ {"queue"} /\ UNCHANGED left
  \/ /\ queues' = queues
     /\ lost' = lost \cup (IF feed.at \in Attached THEN {"queue"} ELSE {})
     /\ Spend("faults")

PushAfterCommit ==
  /\ unpushed
  /\ PushQueue
  /\ unpushed' = FALSE
  /\ UNCHANGED <<row, lock, runtime, runtimes, track, queue, owed, client, feed,
                 notes, statuses, view>>

Edit ==
  /\ row # "gone"
  /\ ~ owed
  /\ Spend("changes")
  /\ queue' = queue + 1
  /\ owed' = TRUE
  /\ UNCHANGED <<row, lock, runtime, runtimes, track, unpushed, client, feed, notes,
                 statuses, queues, view, lost>>

(* sync_streamer_songs, under the lock. *)
Synchronize ==
  /\ owed
  /\ lock = "free"
  /\ owed' = FALSE
  /\ \/ runtime = 0 /\ Notify("queue") /\ UNCHANGED <<queues, lost, left>>
     \/ runtime # 0 /\ PushQueue /\ UNCHANGED notes
  /\ UNCHANGED <<row, lock, runtime, runtimes, track, queue, unpushed, client, feed,
                 statuses, view>>

(* The request that edited the queue ends without synchronizing: its       *)
(* client hangs up and the handler is dropped at one of its awaits, or one *)
(* of the statements behind the edit fails, up to the rows and the reload  *)
(* of sync_streamer_songs itself.  Who was told the old queue keeps it.    *)
Abandon ==
  /\ owed
  /\ owed' = FALSE
  /\ lost' = lost \cup (IF feed.at \in Watching \cup Attached THEN {"queue"} ELSE {})
  /\ UNCHANGED <<row, lock, runtime, runtimes, track, queue, unpushed, client, feed,
                 notes, statuses, queues, view, left>>

-----------------------------------------------------------------------------
(* The client and its connection.                                          *)

Subscribe ==
  /\ client = "open"
  /\ feed.at = "none"
  /\ row # "gone"
  /\ Spend("commands")
  /\ feed' = [NoFeed EXCEPT !.at = "top"]
  /\ UNCHANGED <<station, client, notes, statuses, queues, view, lost>>

(* The task is aborted; what it was waiting for is dropped with it.        *)
Drop(at) ==
  /\ feed' = [NoFeed EXCEPT !.at = at]
  /\ notes' = Empty
  /\ statuses' = Empty
  /\ queues' = Empty

Unsubscribe ==
  /\ client = "open"
  /\ feed.at # "none"
  /\ Drop("none")
  /\ UNCHANGED <<station, client, view, lost, left>>

(* The user is deleted or changes role, or a demo workspace is reset.      *)
Revoke ==
  /\ client = "open"
  /\ client' = "revoked"
  /\ UNCHANGED <<station, feed, notes, statuses, queues, view, lost, left>>

(* The socket closes, or the check of the session, once a second and on    *)
(* every message, ends the connection.                                     *)
Disconnect ==
  /\ client # "gone"
  /\ client' = "gone"
  /\ UNCHANGED <<station, feed, notes, statuses, queues, view, lost, left>>

(* ws_recv_task is aborted and aborts the subscriptions; the task may also *)
(* notice first that nobody receives.                                      *)
AbortFeed ==
  /\ client = "gone"
  /\ feed.at \notin {"none", "ended"}
  /\ Drop("ended")
  /\ UNCHANGED <<station, client, view, lost, left>>

-----------------------------------------------------------------------------
(* forward_station.                                                        *)

(* Subscribe first, look afterwards. *)
Enter ==
  /\ feed.at = "top"
  /\ client # "gone"
  /\ feed' = IF runtime = 0 THEN [NoFeed EXCEPT !.at = "observe"]
             ELSE [NoFeed EXCEPT !.at = "attach", !.target = runtime]
  /\ notes' = Empty
  /\ statuses' = Empty
  /\ queues' = Empty
  /\ UNCHANGED <<station, client, view, lost, left>>

Tell(what, msg) == view' = [view EXCEPT ![what] = msg]

(* What is said of a station without a runtime. *)
Label(r) ==
  CASE r = "started" -> <<"no runtime">>
    [] r = "stopped" -> <<"stopped">>
    [] OTHER         -> <<"error">>

(* no_runtime_snapshot: map and row are read together, under the lock.     *)
Observation ==
  /\ feed.at = "observe"
  /\ \/ /\ runtime # 0
        /\ feed' = [feed EXCEPT !.at = "top"]
        /\ UNCHANGED <<view, lost, left>>
     \/ /\ runtime = 0
        /\ row = "gone"
        /\ Tell("status", <<"not found">>)
        /\ feed' = [feed EXCEPT !.at = "ended"]
        /\ UNCHANGED <<lost, left>>
     \/ /\ runtime = 0
        /\ view' = [status |-> <<"error">>, queue |-> <<>>]
        /\ feed' = [feed EXCEPT !.at = "wait"]
        /\ Spend("faults")
        /\ UNCHANGED lost
     \/ /\ runtime = 0
        /\ row # "gone"
        /\ feed' = [feed EXCEPT !.at = IF feed.last # row \/ feed.force THEN "snapshot" ELSE "wait",
                                !.seen = row]
        /\ IF feed.last = row THEN UNCHANGED view ELSE Tell("status", Label(row))
        /\ lost' = lost \ (IF feed.last = row THEN {"reply"} ELSE {"reply", "status"})
        /\ UNCHANGED left
  /\ UNCHANGED <<station, client, notes, statuses, queues>>

ObserveUnlocked == Observation  \* mutant: does not wait for a transition

Observe == lock = "free" /\ Observation

(* db_queue_snapshot; only a complete snapshot counts as the last one.     *)
SnapshotQueue ==
  /\ feed.at = "snapshot"
  /\ \/ /\ Tell("queue", <<queue>>)
        /\ feed' = [feed EXCEPT !.at = "wait", !.last = feed.seen]
        /\ lost' = lost \ {"queue"}
        /\ UNCHANGED left
     \/ /\ Tell("queue", <<>>)
        /\ feed' = [feed EXCEPT !.at = "wait"]
        /\ Spend("faults")
        /\ lost' = lost \cup (IF feed.last \notin {"none", feed.seen} THEN {"status"} ELSE {})
  /\ UNCHANGED <<station, client, notes, statuses, queues>>

HearLagIgnored ==  \* mutant: what was dropped is not looked up
  /\ feed.at = "wait"
  /\ notes # Empty
  /\ feed' = IF notes.lagged THEN feed
             ELSE [feed EXCEPT !.at = IF runtime # 0 THEN "top" ELSE "observe",
                               !.force = Head(notes.msgs) = "queue"]
  /\ notes' = IF notes.lagged THEN [notes EXCEPT !.lagged = FALSE]
              ELSE [notes EXCEPT !.msgs = Tail(@)]
  /\ UNCHANGED <<station, client, statuses, queues, view, lost, left>>

(* A notification ends the wait: attach, or look again.  A receiver that   *)
(* lagged re-reads everything.                                             *)
Hear ==
  /\ feed.at = "wait"
  /\ notes # Empty
  /\ LET changed == notes.lagged \/ Head(notes.msgs) = "queue"
     IN  feed' = [feed EXCEPT !.at = IF runtime # 0 THEN "top" ELSE "observe",
                              !.force = changed]
  /\ notes' = IF notes.lagged THEN [notes EXCEPT !.lagged = FALSE]
              ELSE [notes EXCEPT !.msgs = Tail(@)]
  /\ UNCHANGED <<station, client, statuses, queues, view, lost, left>>

(* Every 200 ms the task looks whether there is a runtime. *)
PollMap ==
  /\ feed.at = "wait"
  /\ runtime # 0
  /\ feed' = [feed EXCEPT !.at = "top"]
  /\ UNCHANGED <<station, client, notes, statuses, queues, view, lost, left>>

(* attach_snapshot_and_forward: the receivers exist already. *)
AttachStatus ==
  /\ feed.at = "attach"
  /\ \/ runtime = feed.target /\ Tell("status", <<"playing", runtime, track>>) /\ UNCHANGED left
     \/ runtime # feed.target /\ Tell("status", <<"error">>) /\ UNCHANGED left
     \/ Tell("status", <<"error">>) /\ Spend("faults")
  /\ feed' = [feed EXCEPT !.at = "attachQueue"]
  /\ lost' = lost \ {"reply", "status"}
  /\ UNCHANGED <<station, client, notes, statuses, queues>>

AttachQueue ==
  /\ feed.at = "attachQueue"
  /\ \/ /\ Tell("queue", <<queue>>)
        /\ lost' = IF queues = Empty THEN lost \ {"queue"} ELSE lost
        /\ UNCHANGED left
     \/ Tell("queue", <<>>) /\ Spend("faults") /\ UNCHANGED lost
  /\ feed' = [feed EXCEPT !.at = "live"]
  /\ UNCHANGED <<station, client, notes, statuses, queues>>

(* forward_live_broadcasts: what was dropped is not missed, what follows   *)
(* is newer.                                                               *)
NextMessage(rx) == IF rx.lagged THEN [rx EXCEPT !.lagged = FALSE] ELSE [rx EXCEPT !.msgs = Tail(@)]

ForwardStatus ==
  /\ feed.at = "live"
  /\ statuses # Empty
  /\ statuses' = NextMessage(statuses)
  /\ IF statuses.lagged THEN UNCHANGED view ELSE Tell("status", Head(statuses.msgs))
  /\ UNCHANGED <<station, client, feed, notes, queues, lost, left>>

ForwardQueue ==
  /\ feed.at = "live"
  /\ queues # Empty
  /\ queues' = NextMessage(queues)
  /\ IF queues.lagged THEN UNCHANGED view ELSE Tell("queue", <<Head(queues.msgs)>>)
  /\ UNCHANGED <<station, client, feed, notes, statuses, lost, left>>

RecheckRemovedOnly ==  \* mutant: a restart between two looks is not noticed
  /\ feed.at = "live"
  /\ runtime = 0
  /\ feed' = [feed EXCEPT !.at = "top"]
  /\ UNCHANGED <<station, client, notes, statuses, queues, view, lost, left>>

(* Every 250 ms the task looks whether its runtime is still the mapped one. *)
Recheck ==
  /\ feed.at = "live"
  /\ runtime # feed.target
  /\ feed' = [feed EXCEPT !.at = "top"]
  /\ UNCHANGED <<station, client, notes, statuses, queues, view, lost, left>>

-----------------------------------------------------------------------------
Transition == Persist \/ RemoveRuntime \/ CreateRuntime \/ EraseRow
Forward ==
  \/ Enter \/ Observe \/ SnapshotQueue \/ Hear \/ PollMap
  \/ AttachStatus \/ AttachQueue \/ ForwardStatus \/ ForwardQueue \/ Recheck

Next ==
  \/ TakeLock \/ Transition
  \/ Advance \/ PushAfterCommit \/ Edit \/ Synchronize \/ Abandon
  \/ Subscribe \/ Unsubscribe \/ Revoke \/ Disconnect \/ AbortFeed
  \/ Forward

Spec == Init /\ [][Next]_vars

(* Tokio polls the tasks; the lock is handed on in FIFO order; the select  *)
(* of the live phase serves every ready branch.  A request that edited the *)
(* queue ends, but nothing obliges it to synchronize first.                *)
Fairness ==
  /\ WF_vars(Transition) /\ WF_vars(PushAfterCommit) /\ SF_vars(Synchronize \/ Abandon)
  /\ SF_vars(Observe)
  /\ WF_vars(Enter \/ SnapshotQueue \/ Hear \/ PollMap \/ AttachStatus \/ AttachQueue)
  /\ WF_vars(ForwardStatus) /\ WF_vars(ForwardQueue) /\ WF_vars(Recheck)
  /\ WF_vars(AbortFeed)
  /\ WF_vars(client = "revoked" /\ Disconnect)

FairSpec == Spec /\ Fairness

-----------------------------------------------------------------------------
(* What the client is told.                                                *)

Told(status) == view.status \in {status, <<"error">>}

(* The view is what the station is now, or says that it could not be read. *)
Current ==
  /\ \/ Told(IF runtime # 0 THEN <<"playing", runtime, track>> ELSE Label(row))
     \/ "status" \in lost /\ runtime = 0 /\ row = feed.last
     \/ "reply" \in lost /\ runtime = 0 /\ row # feed.seen
  /\ view.queue \in {<<queue>>, <<>>} \/ "queue" \in lost

(* Nothing is on its way to the task, and nothing is about to be.          *)
Quiet ==
  /\ lock = "free"
  /\ ~ owed /\ ~ unpushed
  /\ \/ feed.at = "wait" /\ notes = Empty /\ runtime = 0
     \/ feed.at = "live" /\ statuses = Empty /\ queues = Empty /\ runtime = feed.target

(* Every variable stays in its type, no channel beyond its room.           *)
TypeOK ==
  /\ row \in {"stopped", "started", "gone"}
  /\ lock \in {"free", "play", "stop", "delete", "restart", "drain", "create", "erase"}
  /\ {runtime, runtimes, track, queue} \subseteq Nat
  /\ client \in {"open", "revoked", "gone"}
  /\ feed.at \in {"none", "top", "ended"} \cup Watching \cup Attached
  /\ lost \subseteq {"status", "queue", "reply"}
  /\ notes.msgs \in Seq({"lifecycle", "queue"})
  /\ \A n \in {Len(notes.msgs), Len(statuses.msgs), Len(queues.msgs)} : n <= Capacity

(* Between snapshot and live feed no change slips through, whatever came   *)
(* while the task changed from one to the other, and however far it fell   *)
(* behind: a task at rest has told its client the truth.                   *)
ViewIsCurrent == TypeOK /\ (Quiet => Current)

(* A client is told that a started station has no runtime only if it has   *)
(* none: not while a Play between its UPDATE and the map is at work.       *)
NoFalseAlarm ==
  [][view'.status = <<"no runtime">> /\ view.status # <<"no runtime">>
       => lock = "free" /\ row = "started"]_vars

(* A client that stays gets the last word on its station, or the end of    *)
(* it; the task of a client that left, or whose session was revoked, ends. *)
FeedSettles ==
  <>[](IF client = "gone" THEN feed.at \in {"none", "ended"}
       ELSE client = "open" /\ (feed.at \in {"none", "ended"} \/ Current))

(* "The DB read failed: an explicit error was sent and the watcher keeps   *)
(* listening; last_is_started is untouched so the next signal retries"     *)
(* (ws.rs, DbError): a look that the database answers leaves no error.     *)
SignalRetries ==
  [][Observe /\ left' = left /\ feed'.at = "wait"
       => view'.status # <<"error">> /\ view'.queue # <<>>]_vars
=============================================================================
