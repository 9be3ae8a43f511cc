----------------------------- MODULE Lifecycle -----------------------------
(***************************************************************************)
(* The control plane of one station: Play, Stop, Restart, Delete, the      *)
(* startup restore and the queue synchronisation of                        *)
(* backend/src/stations/handlers/stream.rs.  They are serialised by one    *)
(* async mutex per station, share the database row and the map of running  *)
(* streamers, and are split into a phase the HTTP caller owns (and cancels *)
(* by disconnecting) and a detached phase that always runs to its end.     *)
(*                                                                         *)
(* A runtime is reduced to what the control plane sees: whether its        *)
(* command loop is alive, the version of the queue rows it last loaded and *)
(* the Reload commands still in its FIFO command channel.                  *)
(***************************************************************************)
EXTENDS Naturals, Sequences, FiniteSets

CONSTANTS
    Requests,    \* HTTP/WebSocket requests; each is served once
    Boot,        \* the task of main.rs that restores the started stations
    Runtimes,    \* the StationStreamer instances that can be created
    None,        \* no runtime, no lock holder
    MaxCrashes,  \* bound: crashes of the server process
    MaxLost      \* bound: runtimes whose command loop dies by itself

ASSUME LifecycleAssumption ==
    /\ Boot \notin Requests
    /\ None \notin Requests \cup {Boot} \cup Runtimes
    /\ MaxCrashes \in Nat
    /\ MaxLost \in Nat

Tasks == Requests \cup {Boot}

Commands == {"play", "stop", "restart", "delete"}

VARIABLES
    row,          \* the row of the station: "started", "stopped" or "deleted"
    queueDb,      \* version of the rows of its queue in the database
    told,         \* the row when its observers were last notified
    mapped,       \* the entry of the station in StreamersMap
    runtime,      \* what each runtime's command loop is doing
    loaded,       \* version of the queue rows each runtime plays from
    inbox,        \* Reload commands waiting in each runtime's channel
    holder,       \* who holds the lifecycle mutex of the station
    op,           \* what each task was asked to do
    pc,           \* where it stands
    seen,         \* the version of the queue rows it wrote or last read
    mine,         \* the streamer whose completion it awaits
    result,       \* how it ended
    crashes       \* crashes so far

database == <<row, queueDb, told>>
runtimes == <<runtime, loaded, inbox>>
vars == <<database, mapped, runtimes, holder, op, pc, seen, mine, result,
          crashes>>

PCs == {"new", "snapshot", "waiting", "recheck", "persist", "persisted",
        "shutdown", "drain", "deleteRow", "deletedRow", "load", "attach",
        "attaching", "start", "read", "reload", "reloading", "done"}

ReloadCommand == [from : Tasks, version : Nat]

\* Every variable stays in its type.
TypeOK ==
    /\ row \in {"started", "stopped", "deleted"}
    /\ queueDb \in Nat
    /\ told \in {"started", "stopped", "deleted"}
    /\ mapped \in Runtimes \cup {None}
    /\ runtime \in [Runtimes ->
                      {"unborn", "live", "stopping", "gone", "failed", "lost"}]
    /\ loaded \in [Runtimes -> Nat]
    /\ inbox \in [Runtimes -> Seq(ReloadCommand)]
    /\ holder \in Tasks \cup {None}
    /\ op \in [Tasks -> Commands \cup {"none", "sync", "restore"}]
    /\ pc \in [Tasks -> PCs]
    /\ seen \in [Tasks -> Nat]
    /\ mine \in [Tasks -> Runtimes \cup {None}]
    /\ result \in [Tasks -> {"none", "ok", "err", "replyLost", "cancelled"}]
    /\ crashes \in 0..MaxCrashes

Init ==
    /\ row \in {"started", "stopped"}
    /\ queueDb = 0
    /\ told = row
    /\ mapped = None
    /\ runtime = [r \in Runtimes |-> "unborn"]
    /\ loaded = [r \in Runtimes |-> 0]
    /\ inbox = [r \in Runtimes |-> << >>]
    /\ holder = None
    /\ op = [t \in Tasks |-> IF t = Boot THEN "restore" ELSE "none"]
    /\ pc = [t \in Tasks |-> IF t = Boot THEN "snapshot" ELSE "new"]
    /\ seen = [t \in Tasks |-> 0]
    /\ mine = [t \in Tasks |-> None]
    /\ result = [t \in Tasks |-> "none"]
    /\ crashes = 0

----------------------------------------------------------------------------
(* Control flow of a task. *)

\* The task moves on and keeps the lock.
Goto(t, next) ==
    /\ pc' = [pc EXCEPT ![t] = next]
    /\ UNCHANGED <<holder, result>>

\* The task ends and its guard, if it holds it, is dropped.
End(t, how) ==
    /\ pc' = [pc EXCEPT ![t] = "done"]
    /\ result' = [result EXCEPT ![t] = how]
    /\ holder' = IF holder = t THEN None ELSE holder

\* Mutant: the mutating phase runs in the caller's future too.
CallerOwnsMutation(t) ==
    /\ t # Boot
    /\ pc[t] \in {"waiting", "read", "reload", "reloading", "persisted"}

\* The phases that live in the caller's future: waiting for the lock, the
\* whole of a queue synchronisation, and a Restart or Delete whose Shutdown
\* command was not admitted yet.  Everything else was spawned.
CallerOwned(t) ==
    /\ t # Boot
    /\ \/ pc[t] \in {"waiting", "read", "reload", "reloading"}
       \/ pc[t] = "shutdown" /\ op[t] \in {"restart", "delete"}

\* A lifecycle command arrives.
Submit(t, command) ==
    /\ pc[t] = "new"
    /\ op' = [op EXCEPT ![t] = command]
    /\ Goto(t, "waiting")
    /\ UNCHANGED <<database, mapped, runtimes, seen, mine, crashes>>

\* A REST handler mutates the queue rows, outside the lock, and then calls
\* sync_streamer_songs.
MutateQueue(t) ==
    /\ pc[t] = "new"
    /\ row # "deleted"
    /\ queueDb' = queueDb + 1
    /\ seen' = [seen EXCEPT ![t] = queueDb + 1]
    /\ op' = [op EXCEPT ![t] = "sync"]
    /\ Goto(t, "waiting")
    /\ UNCHANGED <<row, told, mapped, runtimes, mine, crashes>>

\* Mutant: the startup restore selects the wrong stations.
RestoreSnapshotForgets(t) ==
    /\ pc[t] = "snapshot"
    /\ \/ row = "stopped" /\ Goto(t, "waiting")
       \/ row # "stopped" /\ End(t, "ok")
       \/ End(t, "err")
    /\ UNCHANGED <<database, mapped, runtimes, op, seen, mine, crashes>>

\* restore_started_stations lists the started stations without the lock; when
\* the list cannot be read nothing is restored.
RestoreSnapshot(t) ==
    /\ pc[t] = "snapshot"
    /\ \/ row = "started" /\ Goto(t, "waiting")
       \/ row # "started" /\ End(t, "ok")
       \/ End(t, "err")
    /\ UNCHANGED <<database, mapped, runtimes, op, seen, mine, crashes>>

\* Mutant: Delete removes the row before it stops the runtime.
FirstStepDeletesRowFirst(command) ==
    CASE command \in {"play", "stop"} -> "persist"
      [] command = "restart"          -> "shutdown"
      [] command = "delete"           -> "deleteRow"
      [] command = "sync"             -> "read"
      [] command = "restore"          -> "recheck"

\* Mutant: Stop shuts the runtime down and never persists the decision.
FirstStepStopsOnly(command) ==
    CASE command = "play"                         -> "persist"
      [] command \in {"stop", "restart", "delete"} -> "shutdown"
      [] command = "sync"                         -> "read"
      [] command = "restore"                      -> "recheck"

\* What each operation does first once it holds the lock.
FirstStep(command) ==
    CASE command \in {"play", "stop"}      -> "persist"
      [] command \in {"restart", "delete"} -> "shutdown"
      [] command = "sync"                  -> "read"
      [] command = "restore"               -> "recheck"

\* Mutant: a queue synchronisation does not take the lifecycle lock.
AcquireUnlessSync(t) ==
    /\ pc[t] = "waiting"
    /\ holder = None \/ op[t] = "sync"
    /\ holder' = IF op[t] = "sync" THEN holder ELSE t
    /\ pc' = [pc EXCEPT ![t] = FirstStep(op[t])]
    /\ UNCHANGED <<database, mapped, runtimes, op, seen, mine, result, crashes>>

Acquire(t) ==
    /\ pc[t] = "waiting"
    /\ holder = None
    /\ holder' = t
    /\ pc' = [pc EXCEPT ![t] = FirstStep(op[t])]
    /\ UNCHANGED <<database, mapped, runtimes, op, seen, mine, result, crashes>>

\* The caller goes away: only what it still owns is dropped.
Cancel(t) ==
    /\ CallerOwned(t)
    /\ End(t, "cancelled")
    /\ UNCHANGED <<database, mapped, runtimes, op, seen, mine, crashes>>

----------------------------------------------------------------------------
(* The desired state in the database. *)

Desired(command) == IF command = "stop" THEN "stopped" ELSE "started"

\* set_station_started: the UPDATE takes effect, or it fails without one.
Persist(t) ==
    /\ pc[t] = "persist"
    /\ \/ /\ row # "deleted"
          /\ row' = Desired(op[t])
          /\ Goto(t, "persisted")
       \/ /\ End(t, "err")
          /\ UNCHANGED row
    /\ UNCHANGED <<queueDb, told, mapped, runtimes, op, seen, mine, crashes>>

\* The reply of the UPDATE: observers are notified in the same poll, or the
\* reply is lost and the operation ends with an error.
Persisted(t) ==
    /\ pc[t] = "persisted"
    /\ \/ /\ told' = row
          /\ Goto(t, IF op[t] = "stop" THEN "shutdown" ELSE "load")
       \/ /\ End(t, "replyLost")
          /\ UNCHANGED told
    /\ UNCHANGED <<row, queueDb, mapped, runtimes, op, seen, mine, crashes>>

\* run_committed_delete.
DeleteRow(t) ==
    /\ pc[t] = "deleteRow"
    /\ \/ /\ row' = "deleted"
          /\ Goto(t, "deletedRow")
       \/ /\ End(t, "err")
          /\ UNCHANGED row
    /\ UNCHANGED <<queueDb, told, mapped, runtimes, op, seen, mine, crashes>>

DeletedRow(t) ==
    /\ pc[t] = "deletedRow"
    /\ \/ told' = row /\ End(t, "ok")
       \/ UNCHANGED told /\ End(t, "replyLost")
    /\ UNCHANGED <<row, queueDb, mapped, runtimes, op, seen, mine, crashes>>

\* Mutant: the restore trusts the snapshot it took before the lock.
RecheckTrustsSnapshot(t) ==
    /\ pc[t] = "recheck"
    /\ Goto(t, "load")
    /\ UNCHANGED <<database, mapped, runtimes, op, seen, mine, crashes>>

\* restore_station_if_still_started re-reads the row under the lock.
Recheck(t) ==
    /\ pc[t] = "recheck"
    /\ \/ row = "started" /\ Goto(t, "load")
       \/ row # "started" /\ End(t, "ok")
       \/ End(t, "err")
    /\ UNCHANGED <<database, mapped, runtimes, op, seen, mine, crashes>>

----------------------------------------------------------------------------
(* Stopping a runtime. *)

\* The mapped streamer's command loop accepts commands.
MappedLive == \E r \in Runtimes : mapped = r /\ runtime[r] = "live"

\* What follows a finished shutdown.
AfterShutdown(t) ==
    CASE op[t] = "stop"    -> End(t, "ok")
      [] op[t] = "restart" -> Goto(t, "persist")
      [] op[t] = "delete"  -> Goto(t, "deleteRow")

\* begin_shutdown: the terminal command is admitted, nothing has to be
\* stopped, or the command loop is dead and its entry is dropped.
Shutdown(t) ==
    /\ pc[t] = "shutdown"
    /\ \/ /\ mapped = None
          /\ AfterShutdown(t)
          /\ UNCHANGED <<mapped, runtime, mine>>
       \/ /\ MappedLive
          /\ runtime' = [runtime EXCEPT ![mapped] = "stopping"]
          /\ mine' = [mine EXCEPT ![t] = mapped]
          /\ Goto(t, "drain")
          /\ UNCHANGED mapped
       \/ /\ mapped # None
          /\ ~MappedLive
          /\ mapped' = None
          /\ End(t, "err")
          /\ UNCHANGED <<runtime, mine>>
    /\ UNCHANGED <<database, loaded, inbox, op, seen, crashes>>

\* Mutant: the entry is removed without awaiting the pipeline.
DrainAtOnce(t) ==
    /\ pc[t] = "drain"
    /\ mapped' = IF mapped = mine[t] THEN None ELSE mapped
    /\ AfterShutdown(t)
    /\ UNCHANGED <<database, runtimes, op, seen, mine, crashes>>

\* Mutant: a failed pipeline stop does not answer the barrier.
DrainNeedsSuccess(t) ==
    /\ pc[t] = "drain"
    /\ runtime[mine[t]] = "gone"
    /\ mapped' = IF mapped = mine[t] THEN None ELSE mapped
    /\ AfterShutdown(t)
    /\ UNCHANGED <<database, runtimes, op, seen, mine, crashes>>

\* finish_admitted_shutdown: exactly this streamer leaves the map, whatever
\* the pipeline answered.
Drain(t) ==
    /\ pc[t] = "drain"
    /\ runtime[mine[t]] \in {"gone", "failed"}
    /\ mapped' = IF mapped = mine[t] THEN None ELSE mapped
    /\ IF runtime[mine[t]] = "gone" THEN AfterShutdown(t) ELSE End(t, "err")
    /\ UNCHANGED <<database, runtimes, op, seen, mine, crashes>>

----------------------------------------------------------------------------
(* Starting a runtime. *)

\* get_or_create_streamer_for_station reads the station and its queue rows.
Load(t) ==
    /\ pc[t] = "load"
    /\ \/ /\ row # "deleted"
          /\ seen' = [seen EXCEPT ![t] = queueDb]
          /\ Goto(t, "attach")
       \/ /\ End(t, "err")
          /\ UNCHANGED seen
    /\ UNCHANGED <<database, mapped, runtimes, op, mine, crashes>>

\* t's Reload command enters the channel of the mapped runtime.
SendReload(t) ==
    /\ MappedLive
    /\ inbox' = [inbox EXCEPT
                   ![mapped] = Append(@, [from |-> t, version |-> seen[t]])]
    /\ mine' = [mine EXCEPT ![t] = mapped]

\* get_or_create_streamer: reload the mapped runtime or create a fresh one.
Attach(t) ==
    /\ pc[t] = "attach"
    /\ \/ /\ mapped = None
          /\ \E r \in Runtimes :
                /\ runtime[r] = "unborn"
                /\ runtime' = [runtime EXCEPT ![r] = "live"]
                /\ loaded' = [loaded EXCEPT ![r] = seen[t]]
                /\ mapped' = r
          /\ Goto(t, "start")
          /\ UNCHANGED <<inbox, mine>>
       \/ /\ SendReload(t)
          /\ Goto(t, "attaching")
          /\ UNCHANGED <<mapped, runtime, loaded>>
       \/ /\ ~MappedLive
          /\ End(t, "err")
          /\ UNCHANGED <<mapped, runtimes, mine>>
    /\ UNCHANGED <<database, op, seen, crashes>>

\* t's Reload command is still in the channel of the runtime it was sent to.
Pending(t) == \E i \in DOMAIN inbox[mine[t]] : inbox[mine[t]][i].from = t

Attached(t) ==
    /\ pc[t] = "attaching"
    /\ \/ ~Pending(t) /\ runtime[mine[t]] = "live" /\ Goto(t, "start")
       \/ runtime[mine[t]] = "lost" /\ End(t, "err")
    /\ UNCHANGED <<database, mapped, runtimes, op, seen, mine, crashes>>

\* StationStreamer::play succeeds or the pipeline fails to start.
Start(t) ==
    /\ pc[t] = "start"
    /\ \/ MappedLive /\ End(t, "ok")
       \/ End(t, "err")
    /\ UNCHANGED <<database, mapped, runtimes, op, seen, mine, crashes>>

----------------------------------------------------------------------------
(* sync_streamer_songs. *)

\* No runtime: no-runtime observers are notified.  Otherwise the fresh queue
\* rows are read.
ReadQueue(t) ==
    /\ pc[t] = "read"
    /\ \/ mapped = None /\ End(t, "ok") /\ UNCHANGED seen
       \/ /\ mapped # None
          /\ seen' = [seen EXCEPT ![t] = queueDb]
          /\ Goto(t, "reload")
       \/ mapped # None /\ End(t, "err") /\ UNCHANGED seen
    /\ UNCHANGED <<database, mapped, runtimes, op, mine, crashes>>

Reload(t) ==
    /\ pc[t] = "reload"
    /\ \/ SendReload(t) /\ Goto(t, "reloading")
       \/ /\ ~MappedLive
          /\ End(t, "err")
          /\ UNCHANGED <<inbox, mine>>
    /\ UNCHANGED <<database, mapped, runtime, loaded, op, seen, crashes>>

Reloaded(t) ==
    /\ pc[t] = "reloading"
    /\ \/ ~Pending(t) /\ runtime[mine[t]] = "live" /\ End(t, "ok")
       \/ runtime[mine[t]] = "lost" /\ End(t, "err")
    /\ UNCHANGED <<database, mapped, runtimes, op, seen, mine, crashes>>

----------------------------------------------------------------------------
(* The runtimes, and the process around them. *)

\* The command loop takes the next Reload out of its channel.
RuntimeReload(r) ==
    /\ runtime[r] \in {"live", "stopping"}
    /\ inbox[r] # << >>
    /\ loaded' = [loaded EXCEPT ![r] = Head(inbox[r]).version]
    /\ inbox' = [inbox EXCEPT ![r] = Tail(@)]
    /\ UNCHANGED <<database, mapped, runtime, holder, op, pc, seen, mine,
                   result, crashes>>

\* Shutdown is reached: the barrier is answered with the pipeline's result.
RuntimeStops(r) ==
    /\ runtime[r] = "stopping"
    /\ inbox[r] = << >>
    /\ \E how \in {"gone", "failed"} :
          runtime' = [runtime EXCEPT ![r] = how]
    /\ UNCHANGED <<database, mapped, loaded, inbox, holder, op, pc, seen, mine,
                   result, crashes>>

\* The command loop ends without a Shutdown; its channel is closed.
RuntimeLost(r) ==
    /\ runtime[r] = "live"
    /\ Cardinality({x \in Runtimes : runtime[x] = "lost"}) < MaxLost
    /\ runtime' = [runtime EXCEPT ![r] = "lost"]
    /\ inbox' = [inbox EXCEPT ![r] = << >>]
    /\ UNCHANGED <<database, mapped, loaded, holder, op, pc, seen, mine,
                   result, crashes>>

\* The server dies and is started again: only the database survives.
Crash ==
    /\ crashes < MaxCrashes
    /\ crashes' = crashes + 1
    /\ mapped' = None
    /\ holder' = None
    /\ told' = row
    /\ runtime' = [r \in Runtimes |->
                     IF runtime[r] \in {"live", "stopping"} THEN "gone"
                                                            ELSE runtime[r]]
    /\ inbox' = [r \in Runtimes |-> << >>]
    /\ pc' = [t \in Tasks |-> CASE t = Boot       -> "snapshot"
                                [] pc[t] = "new"  -> "new"
                                [] OTHER          -> "done"]
    /\ result' = [t \in Tasks |->
                    IF result[t] = "none" /\ pc[t] # "new" /\ t # Boot
                    THEN "cancelled" ELSE IF t = Boot THEN "none" ELSE result[t]]
    /\ UNCHANGED <<row, queueDb, loaded, op, seen, mine>>

\* Every request was served.
Idle == (\A t \in Tasks : pc[t] = "done") /\ UNCHANGED vars

----------------------------------------------------------------------------
\* The steps a task takes by itself, once it holds the lock.
Work(t) ==
    \/ Persist(t) \/ Persisted(t) \/ DeleteRow(t) \/ DeletedRow(t)
    \/ Recheck(t) \/ Shutdown(t) \/ Drain(t)
    \/ Load(t) \/ Attach(t) \/ Attached(t) \/ Start(t)
    \/ ReadQueue(t) \/ Reload(t) \/ Reloaded(t)

RuntimeStep(r) == RuntimeReload(r) \/ RuntimeStops(r)

Next ==
    \/ \E t \in Requests :
          (\E command \in Commands : Submit(t, command)) \/ MutateQueue(t)
    \/ \E t \in Tasks :
          RestoreSnapshot(t) \/ Acquire(t) \/ Cancel(t) \/ Work(t)
    \/ \E r \in Runtimes : RuntimeStep(r) \/ RuntimeLost(r)
    \/ Crash
    \/ Idle

Spec == Init /\ [][Next]_vars

\* tokio polls every spawned task and every runtime that can make progress
\* (weak fairness), and its async mutex serves waiters in FIFO order, so a
\* task that waits for it is not overtaken for ever (strong fairness).
\* Nothing makes a caller stay, cancel or submit.
Fairness ==
    /\ \A t \in Tasks : WF_vars(Work(t)) /\ SF_vars(Acquire(t))
    /\ WF_vars(RestoreSnapshot(Boot))
    /\ \A r \in Runtimes : WF_vars(RuntimeStep(r))

FairSpec == Spec /\ Fairness

----------------------------------------------------------------------------
(* What the control plane promises. *)

Running(r) == runtime[r] \in {"live", "stopping"}

\* Every runtime that may still feed the mount is the one in the map, so two
\* never broadcast at once and none runs that Stop cannot reach: a fresh one
\* is created only after the old pipeline answered and left the map.
NoOrphanRuntime == \A r \in Runtimes : Running(r) => mapped = r

\* A runtime whose Shutdown was admitted never stays in the map for a later
\* Play to reuse: whoever had it admitted still holds the lock and removes it.
TerminalRuntimeIsRemoved ==
    mapped # None /\ runtime[mapped] \in {"stopping", "gone", "failed"} =>
        /\ holder # None
        /\ pc[holder] = "drain"
        /\ mine[holder] = mapped

\* The two together: at most one runtime is ever in use, and it can be used.
OneRuntime == NoOrphanRuntime /\ TerminalRuntimeIsRemoved

\* A deleted station has no runtime and never gets one back, whatever was
\* waiting for the lock when the row went away.
DeletedHasNoRuntime == row = "deleted" => mapped = None

\* No station runs against the user's persisted decision, except while its
\* Stop is at work or after a Stop whose UPDATE took effect and whose reply
\* was lost.  In particular a stale restore never brings it back.
StoppedHasNoRuntime ==
    mapped # None /\ row = "stopped" =>
        \E t \in Requests : /\ op[t] = "stop"
                            /\ holder = t \/ result[t] = "replyLost"

\* A queue mutation whose synchronisation succeeded has reached the runtime
\* that plays, also when a Play was creating it from older rows meanwhile and
\* when an earlier, cancelled synchronisation is applied late.
SyncReachesRuntime ==
    \A t \in Requests :
        op[t] = "sync" /\ result[t] = "ok" /\ mapped # None =>
            loaded[mapped] >= seen[t]

\* Whenever no transition is at work, observers know of the last change of
\* the row, however callers disconnect; only a lost reply can hide one.
AnnouncedAtRest ==
    told # row /\ holder = None =>
        \E t \in Requests : result[t] = "replyLost"

\* What a successful answer means at the moment it is given.
AnswersAreTrue ==
    [][\A t \in Requests :
          pc[t] # "done" /\ result'[t] = "ok" =>
            /\ op[t] = "stop" => row' = "stopped" /\ mapped' = None
            /\ op[t] = "delete" => row' = "deleted" /\ mapped' = None
            /\ op[t] \in {"play", "restart"} =>
                 /\ row' = "started"
                 /\ mapped' # None
                 /\ runtime'[mapped'] = "live"]_vars

\* No request that waits for the station is forgotten: every transition in
\* front of it lets the lock go, with or without its caller.
EveryRequestEnds ==
    \A t \in Requests : pc[t] = "waiting" ~> pc[t] = "done"

\* After a restart of the server the persisted intent becomes a runtime
\* again, unless the user withdraws it or the attempt fails.
IntentIsRestored ==
    pc[Boot] = "snapshot" /\ row = "started" ~>
        mapped # None \/ row # "started" \/ result[Boot] = "err"
=============================================================================
