# A TLA+ model of Surcast

Surcast is a self-hosted internet radio. A Rust backend (`src/backend`, tokio, axum,
PostgreSQL, GStreamer) runs any number of stations; each station plays a queue of songs
into an Icecast mount, with crossfades, and can be steered by several web clients at once.
This directory holds TLA+ modules for the part of it that is hard to test: what happens to
a station, its output, its queue, its programme, its clients and the library when requests,
edits, pipeline events, completions, failures and restarts meet. Paths below are relative to
`src/backend/src` unless they begin with `src/`.

## 1. The system

| Component | Code | State | Operations |
|---|---|---|---|
| Lifecycle (control plane) | `stations/handlers/stream.rs`, `main.rs`, `stations/repository.rs` | row `stations.is_started`, map of running streamers, one async mutex per station | play, stop, restart, delete, restore at startup, synchronization after queue edits |
| Station runtime | `streamer/runtime.rs`, `streamer/driver.rs` | bounded command channel (32), two operation lanes, completion channels, retry timers | admit and dispatch commands, run operations one by one, shutdown barrier, forward completions |
| Controller | `streamer/controller.rs` | playback state, generation, output epoch, `planned_next`, one pending play, resume, skip and realign, deferred terminal, decode exclusions, reconnect chain | play, pause, stop, skip, reload, idle resume, completions, pipeline events, reconnects |
| In-memory queue | `streamer/queue_state.rs` | rows, current item, consumed identities | replace, commit, finish, successor and anchor queries |
| Durable queue cursor | `streamer/queue_manager.rs`, `streamer/queue_repository.rs`, `stations/queue_repo.rs` | `stations.current_queue_item_id`, `consumed_queue_item_ids`, table `station_queue`, dirty cursor, refill reservation | commit with trim and refill, persist, retry, trim, load |
| Pipeline | `streamer/gstreamer/*`, `streamer/pipeline.rs` | active plan (generation, epoch, current, next), branch registry, sink, GStreamer state | replace, roll, pause, resume, stop, reconnect; events: handover, end of track, decode failure, sink and pipeline errors |
| Transition planner | `streamer/pipeline.rs`, `streamer/gstreamer/transition.rs` | none (pure) | cue points, fade lengths, handover time |
| Auto DJ | `scheduling/service/` | auto-fill table, `station_queue` | demand, song choice, insertion under the advisory lock |
| Programme | `scheduling/handlers/`, `scheduling/repository.rs`, `scheduling/service/` | `station_schedules`, `station_schedule_events` | create, update, delete with overlap checks; recurrence; what is on |
| Playlists | `playlists/` | `playlists`, `playlist_songs` | CRUD, reorder |
| Song library | `songs/` | `songs`, library files, upload jobs | import, upload, scan, analysis |
| Listener statistics | `listeners/` | sample table, live cache | poll, publish, prune |
| Icecast supervision | `icecast/` | one child process | start, stop, restart |
| Live feed | `stations/handlers/ws.rs` | one forwarding task per client and station | snapshot, then broadcast |
| Demo sandboxes | `demo.rs`, `auth/handlers.rs` | `demo_sandboxes`, a schema and a copied library per account, a registry with a slot and a gate per account | configure, reset, promote, demote, delete; admit requests and sockets |
| Users, sessions, API keys | `auth/`, `api_keys/` | user, session, key tables | CRUD, role checks |
| Configuration, routing, metadata lookup | `config.rs`, `db.rs`, `api/`, `metadata.rs` | start-up values | none that change state at run time |
| Frontend | `src/frontend` | none of the radio's | views over the API |

How they interact. A client's request takes the station's *lifecycle* mutex, changes the
row and creates, stops or commands a *runtime*. A runtime is a tokio task that alternates
between commands from its bounded channel, events from the pipeline and the idle timer, and
hands each one to the *controller*. The controller decides from its own picture of the
pipeline, changes the *queue* (memory first or database first, depending on the operation)
and returns an operation. Operations go to an *executor* over two unbounded lanes, urgent
for event-driven ones and regular for commands; the executor runs one at a time on the
*pipeline*. The outcome of an observed operation travels back through a forwarder task of
its own as a new command. The pipeline meanwhile plays, hands over and fails by itself and
reports on a third channel. Nothing orders these channels with respect to each other: that
is where the difficulty lies, and where most of the modelling effort goes.

What makes each component correct:

- *Lifecycle*: one runtime per station at most, always the one in the map; it runs exactly
  when the row says so; a deleted station is silent; every synchronization reaches the
  runtime that plays; every request is answered truthfully; intent survives a crash.
- *Runtime*: nothing runs behind a shutdown; a success is told only for what ran, and only
  after its completion is on its way; nobody waits for ever.
- *Controller and pipeline*: when nothing travels, both have the same track of the same
  generation, both are on the air or both are not, `planned_next` is the staged branch; no
  queue edit is lost; a track that ended does not stay as dead air; a pause holds; no row
  is played twice; a station told to play plays its queue to the end.
- *Durable cursor*: it is the memory's cursor or the memory knows that it is not; no row
  that is current or not yet played is trimmed.
- *Reconnect*: a chain has exactly one worker, works only for the output that plays, and
  brings the output back.
- *Pipeline internals*: a plan is adopted whole, over the plan it was made for, or not at
  all; however an operation ends, no branch is left over; one branch's error does not stop
  the station.
- *Planner*: a transition fits both files and takes over in time.
- *Live feed, listeners*: a client at rest has been told the truth, or of an error.
- *Library*: two scans after the last disturbance the table describes the folder.
- *Programme, Auto DJ*: what is on is what was booked; a fill adds what is missing, no more,
  and repeats no song it need not.
- *Demo sandboxes*: a request works in the generation that admitted it, a published sandbox
  is whole, an abandoned one leaves nothing.

## 2. The modules

| Module | Models | State and actions |
|---|---|---|
| `Lifecycle.tla` | the control plane of one station | `row`, `mapped`, `runtime`, `holder`, one program counter per request; one action per step between two awaits |
| `Executor.tla` | channel, loop, lanes, executor, driver, forwarders | one variable per channel; one action per message handled |
| `QueueState.tla` | `queue_state.rs` | a pure data structure: a record and operators named for the methods |
| `Station.tla` | controller, its queue and the pipeline it drives | `ctl` (fields of `StationController`), `env` (rows in the database), two lanes, completions, events, `pipe` |
| `QueueCursor.tla` | `queue_manager.rs`, `queue_repository.rs`, the statements of other clients on the same rows, the start of a runtime | the table, the stored cursor, the memory, the dirty cursor, the call under way; one action per database statement or step between two awaits |
| `Reconnect.tla` | reconnect chains, their timers, the executor's part of them, the sink | `ctl` (the fields that concern the output), `shared` (the atomics), lanes, `timers`, `pipe`; one action per message, timer or step of an attempt |
| `Playout.tla` | what a pipeline promises to its controller | abstract: `plan`, `request`, `verdict`; open, adopt, refuse, hand over |
| `Pipeline.tla` | `gstreamer/mod.rs`, `branch.rs`, `bus.rs`: one operation in its steps | the plan, the branch registry, the graph, the step an operation is at; implements `Playout` |
| `Transition.tla` | `pipeline.rs`, `gstreamer/transition.rs` | pure operators over natural numbers |
| `LiveFeed.tla` | `forward_station` of `ws.rs` | the task, its three receivers, what the client was last told; transitions and changes around it |
| `Listeners.tla` | `listeners/`, `forward_listeners` of `ws.rs` | extends `LiveFeed` by the second task of the connection, the poller and its cache |
| `Library.tla` | `songs/scan.rs`, `import.rs`, `files.rs`, `handlers/`, `repository.rs` | files, `songs`, `library_files`; one action per statement or file operation of a scan or a request |
| `Schedule.tla` | schedule and event handlers, recurrence, the choice of a source | the two tables, what each client has checked and not yet written |
| `AutoDj.tla` | the fills, the runtime's commit, edits of other clients | extends `Schedule` by `station_queue`, the cursor and the open transactions |
| `Sandbox.tla` | `demo.rs` with its callers in `auth/handlers.rs` and `ws.rs` | the row, schemas, libraries, the slot and the gate, one step per await of every change, request and socket |
| `LifecycleProofs.tla`, `ExecutorProofs.tla`, `StationProofs.tla`, `QueueCursorProofs.tla`, `ReconnectProofs.tla`, `PipelineProofs.tla`, `LiveFeedProofs.tla`, `SandboxProofs.tla` | theorems about the modules they are named for (`LifecycleProofs` also about `Schedule` and `AutoDj`, `LiveFeedProofs` about `Listeners`, `PipelineProofs` about `Transition`, `SandboxProofs` about `Library`) | an inductive invariant, one lemma per action, the theorems |
| `MC*.tla`, `*.cfg` | instances for TLC | |

Correspondence to the code is recorded definition by definition in `PROJECT.json` (`map`).
The modules are separate state machines that meet at named seams: `Station` takes one
pipeline operation, one database call and one executor lane entry as a step; `Pipeline`,
`QueueCursor` and `Executor` take these steps apart. `LiveFeed` and `Reconnect` carry as
much of `Lifecycle` and `Station` along as their own component can tell apart. Two seams are
compositions inside TLA+: `Listeners` runs next to `LiveFeed` over the same station and
connection, `AutoDj` next to `Schedule` over the same programme. One is a refinement:
`Pipeline` implements `Playout`.

### Lifecycle

A request is a task with a program counter whose values are the suspension points of the
code: waiting for the mutex, after the UPDATE, while the shutdown drains, between loading
rows and attaching. Steps the HTTP caller's future owns may be cancelled (`Cancel`); those
that run in a spawned task may not: this split (`CallerOwned`) is in the code for that
purpose. Data is abstracted to a version number of the queue rows, so a stale read is
visible. A runtime is what the control plane can see of it: unborn, live, stopping, gone,
failed, or lost (its loop died). `Crash` loses every task and runtime and starts the restore
task; the row survives. The restore task may find no stations at all, because the listing
failed: then nothing is restored and the row keeps its intent.

### Executor

Calls of seven kinds pass through the bounded channel. What an operation does is left out;
the model has who holds it, who waits for whom (the loop for a snapshot behind the executor,
the executor for room in the channel) and who is told what and when.

### Station

`ctl` has a field per field of `StationController`: `planned`, `resume`, `play`, `playFailed`,
`playDone`, `playBySkip`, `skip`, `realign`, `ended` (`deferred_terminal`), `broken`
(`DecodeExclusions`), `gen`, `epoch`, `idle`, `state` and the queue `q`. A method that may
branch on the database returns a *set* of outcomes, each a controller, an environment and an
operation; the runtime's action picks one and submits its operation. Database calls fail by
spending a fault of a bounded budget (`env.faults`); so do pipeline operations, undecodable
branches and fatal errors.

The pipeline is the plan it plays and the plan's next branch, with the acceptance rules of
`replace` and `roll` (generation, current, expected next, epoch), its own progress
(`HandOver`, `TrackEnds`) and its failures (`BranchBreaks`, `PipelineBreaks`,
`OperationFails`, `SwitchCancelled`). One pipeline operation is one step.

**Races.** In a number of schedules the two pictures of a station part for good. They are
all kept in the model, each behind a name in the constant `Races`; the head of the module
lists them. The run `station` leaves out all eleven and shows agreement; `station_races`
has the eight the station survives in the sense that it goes on playing (`SurvivedRaces` in
`MCStation`). To see any one fail, add its name to `Races` in `MCStation.cfg`; the hazard
that describes it in `PROJECT.json` names the property that then fails.

| Race | Window | `station_races` |
|---|---|---|
| early | a track ends, hands over or breaks before the completion that brought it on the air was processed | no |
| stopped | a pause while the controller is stopped | no |
| endless | a track of unknown duration | no |
| resuming | a manual skip during an idle resume | yes |
| starting, skipping | a queue edit delivered during a start, during a skip | yes |
| stale | a refill while a synchronization holds rows it has read | yes |
| overtake | the completion of a skip before that of the start it was queued behind | yes |
| reviving | a play on a station paused on a track that ended | yes |
| ending | a pause between the end of a track and the event | yes |
| toggle | GStreamer refuses to pause or resume | yes |

### QueueCursor

The same queue seen from below: `Station` treats a database call as one step that works or
fails, `QueueCursor` takes it apart. The runtime's loop runs one `QueueManager` call at a
time, so a single variable `job` holds the call under way, at which await it stands and what
it carries (a cursor to store, rows it has read, identities to forget). Transactions are one
step, statements outside a transaction are a step each, and a call that fails may have
happened (`Doubt`). Between any two steps other clients add, insert, move and delete rows,
which takes no lock the loop holds; a synchronization reads the rows and delivers them
later (`fetched`); the server may die. `rows` is the table in order of position, so trimming
by identity and trimming by place can be told apart. `passed` and `stored` are histories for
the properties. Left out: the positional cursor of the format that preceded identities, and
the numbers in the position column. A fill adds one row at most.

`budget.stale` opens a window of its own: a synchronization reads the rows, a commit trims a
played row and its reload forgets the identity, then the rows that were read are delivered
and `replace_songs` brings the row back as not played; the station plays it again. What
should hold of the stored cursor (`StoreIsTrue`: the store follows the memory, and what was
stored as played stays played) is stated for behaviours without the window, what is consumed
and trimmed for all of them. Only such a revived row is committed twice in a row, which is
when the reservation spares the refill (`commit` beside `commitFill`). The same budget lets a
commit be undone by the server and counted as done (`SwallowCommit`, section 4).

### Reconnect

A reconnect chain is a token: `begin_reconnect` hands one out, the operation or the timer
that acts for the chain carries it, and everybody who meets a token that is not the active
one drops his work. The model has the three places where a token can be compared too early:
`ctl` (the loop's picture), `shared` (two atomics the executor writes before and after an
attempt) and the timers. The sink has its own identity, and its errors are suppressed while
an attempt replaces it. Play, pause, skip, shutdown and the manual reconnect run next to the
chain, and the completions of plays and skips come back through the bounded channel like
everything else. `unheard` is a history: it names the window that swallowed the break of the
output, so `OutputRecovers` says exactly when nobody comes to repair a sink: suppressed
(errors while the sink is replaced), identity (the break of an output that a start or a skip
has replaced in the loop's books only), raced (the chain that has succeeded has not yet been
taken down), paused, manual (a manual attempt failed and is not retried), forced
(the pipeline was stopped by force) and noplan (the sink broke before it had an output). The backoff's length and the number of
attempts are left out: timers fire in any order.

### Pipeline and Playout

`Playout` is what the controller may rely on and what `Station` uses in one step: a request
names the plan it was made for and is adopted whole if that plan is on the air at the very
moment of adoption, or refused without a trace; only a handover, a stop or a failure that
takes the plan down changes it otherwise. `Pipeline` is the code of `replace`, `roll` and `stop`
in the steps between which a streaming thread may hand over, an end of stream may arrive or
an element may post an error: attach the candidates, pause, configure, adopt, take down
what became obsolete, resume; or discard the candidates and restore. The registry is the one of `branch.rs`
(live, preparing, retiring, failed); `attached` is the graph. `stray` are elements that are in
the graph and in no branch: `attach_inner` adds them and may fail afterwards (`BuildFails`);
nothing removes them but the end of the pipeline, and an error of theirs is told as one of the
pipeline (`StrayError`). `blame` is the history of what the bus took an error for. The
refinement mapping is `plan <- active, request <- req`.

`Transition` is the arithmetic that both leave out. Times are natural numbers; the code's
`u64` saturates far beyond any track. `Expected` is the handover on the logical timeline of
the plan, `TakesOver` the moment on the pipeline's running time; they differ by the timeline
origin.

### LiveFeed and Listeners

Contents are versions: a queue is the number of its last change, a status the runtime and
the number of its last track, so a client that was told an old version is behind. The task
`forward_station` is taken apart at its awaits: subscribe, snapshot, the live phase with its
three receivers, the recheck after a lag, the phase without a runtime. A receiver has `Capacity`
slots, loses the oldest message when they are full and reports a lag once. The history `lost`
names what a client may be missing until it is told the next time: `queue`, when the read behind
a queue broadcast failed, when a request that had edited the queue ended without synchronizing
it (`Abandon`: the handler is dropped or leaves by a `?` before `sync_streamer_songs` is
through) or when a runtime went away unseen by a task that watched for one; `status`, when a
watching task saw a new status but could not read the queue that belongs to it (section 4);
`reply`, when the row changed but the reply of the statement was lost, so that the request ended
without notifying the watching task (`Unheard`). A failed statement and a shutdown that is not
answered end a transition; a restart that has stopped the station goes on as a start.
The lifecycle lock is held by a transition between its steps and by the task that observes,
since `ws.rs` takes the lock to look at row and map together. `Listeners` adds the second
task of the same connection and the poller: one poll is a request to Icecast, an update of the cache, a broadcast and, every
`SampleEvery` polls, a sample. Its two stations are the one of `LiveFeed`, which may be
deleted in the middle of a poll, and another one.

### Library

A file is a content (which is also its hash) and a stamp for size and modification time; a
path is a file or a folder of one. Scan and requests run one statement or file operation at
a time; between them anybody may write, replace, rename or remove files. What the scanner
remembers (`tracked`), what the panel shows (`songs`) and what is on the disk are three
things nothing keeps together, and the property is that scans bring them together again.
`quiet`, `settled` and `overlap` are histories: the scans nobody has disturbed so far, how many
of them have ended in a row, whether anybody ever acted during a scan; `copied` are the songs
the scanner has tracked under another path than their own (section 4). A move is a transaction:
`MoveFile` is its statements, which choose the rows, and the renaming of the file; `CommitMove` moves the
rows that were chosen. In between `RowLocks` makes statements wait that would write one of
them, while new rows may be added beside them.

### Schedule and AutoDj

A day has `Slots` moments, day 0 is a Monday, `Months` gives the months their lengths. A
request checks its times and writes in a second statement with nothing locked in between.
The recurrence rules, their limits and the choice of what is on are the code's, weekdays and
times of day included; the properties compare them with intervals on a timeline. `AutoDj`
runs the fills next to it: the runtime's commit with its fill, the runtime's refill and the
operator's trigger share the advisory lock, the edits of other clients and the end of the
last track do not. Counting the queue and inserting are separate steps; what one fill reads
before it inserts (demand, songs to avoid, the position of an ordered playlist's first song) is
read in one.

### Sandbox

Two locks: the slot of an account (an `RwLock` in the registry), held for reading through a
request and for writing through a change, and the gate of a workspace, held for reading
through one socket command and for writing when the workspace is retired. A change is the
sequence of awaits of `configure`, `reset`, `promote`, `demote` or `delete`, which may fail
or be abandoned at each. `stale` and `stray` are histories of the two windows the code
leaves open (section 4).

## 3. What the runs check

| Run | Instance | Shows |
|---|---|---|
| `lifecycle` | 2 requests of any kind, 2 runtimes, 1 crash, 1 lost loop, fairness | the safety of the control plane, truthful answers; every waiting request ends, intent is restored |
| `executor` | 3 calls of any kind, channel of 1 | shutdown barrier, truthful and ordered answers, nobody waits for ever |
| `station` | 2 rows and room for a third, 3 commands, 1 edit, 1 fault, 5 inputs, no named race | agreement, staging, dead air, pause, no replay |
| `station_races` | eight races, 2 commands, 1 edit, 1 fault, 3 inputs, 6 attempts, fairness | no attempt stays pending for ever, a station told to play drains its queue |
| `queue_cursor` | 3 rows and room for a fourth, played window of 1; 2 failed calls, 1 crash and 1 edit, or 1 edit and stale deliveries, or 1 failed call that may be a commit undone by the server | the stored cursor follows the memory, what was stored as played stays played, nothing unplayed is consumed or trimmed |
| `reconnect` | channel of 2, 4 commands, 2 breaks, 2 failures, fairness | one worker per chain, none for an output that is gone; the output comes back |
| `pipeline` | 3 tracks, 2 generations, 2 rolls, 2 failing calls, 2 errors or ends of stream | the refinement of `Playout`, sound plans, nothing left behind, just blame; the transition arithmetic for lengths up to 4 |
| `live_feed` | receivers of 1 slot; 2 transitions with 2 changes and 1 fault, or with 1 change and 2 faults, 1 subscription; or 3 polls and 1 connection; or a mixture with a deletion | a client at rest has the truth or an error, no false alarm, no count goes backwards |
| `live_feed_retry` | the same | expected to fail: a client that was told of an error is not always told anything by the next signal (section 4) |
| `library` | 2 paths, 2 contents, one scanner, one client, 3 songs, 3 acts | two undisturbed scans make the table true |
| `scheduling` | 2 clients, days of 3 moments, 11 days; 3 requests, or 2 edits with 2 fills, 2 commits and a rollback, or a mixture | what is on, bookings apart, counted occurrences, no surplus, no needless repeat |
| `sandbox` | 2 administrators, 3 changes, 1 request, 1 socket, 3 calls, 1 fault, fairness | requests stay in their generation, published sandboxes are whole, sockets follow |

**Bounds.** `MaxCommands`, `MaxEdits`, `MaxFaults`, `MaxCrashes`, `MaxLost`, `MaxActs`,
`MaxChanges`, `MaxCalls` and the records called `Budgets` count what the environment may do;
everything else is unbounded but finite. `Budgets` is a set: a behaviour starts with one of
its records, so that a run explores several mixtures instead of their product. Two
lifecycle requests and the restore task make the interesting triangle (one holds the mutex,
one waits, one mutates rows without it or has read them before), two runtimes an old and a
new one; the safety of more is proved (section 5). Three station commands allow a play, a skip queued behind it and a pause across both; one
edit and one fault put a realign, a retry and an exclusion next to each; three rows are what
an edit needs to move a staged branch. A channel of one slot, instead of 32, makes the full
channel reachable. For the cursor, a window of one played entry and two rows of one playlist
make a trim both possible and partial; two faults and one crash put a doubtful write before
a retry that fails too, a later commit or a restart. Two breaks and two failures let a
second break meet a chain that sleeps, one that succeeded and one that was replaced, and four
commands allow play, pause and play around them. Two generations and two rolls put a roll
before, into and after a replacement; three tracks tell the old successor from the new one.
Two paths and two contents give the copy, the rename, the exchange and the file that comes
back. Two months and an event limited to four occurrences reach the end of a month and of a
rule; entries over midnight and the end of the week are among those booked. `MaxAttempts`
bounds one loop: where the pictures have parted, the idle poll prepares a start every second
and fails for ever; the bound stops it after six attempts in `station_races` and is out of
reach (30) in `station`. `MaxInputs` bounds commands, edits and faults together.

Larger instances that were run by hand without a violation: the lifecycle with 3 runtimes
(0.8 million states), the library with two scanners, 2 songs and 2 acts (14.0 million), the
sandbox with 4 changes (2.7 million), the listeners with 4 polls (1.3 million).

**Deadlock** is checked in the lifecycle and executor runs, whose modules have an explicit
step for "everything was served", and in the queue run. It is not checked in the others,
whose systems really stop: a paused station with its commands spent, an output without
breaks, a pipeline nobody asks for anything, a client that has left, a library nobody
touches. Everybody waiting on everybody is excluded there by the liveness properties.

**Fairness.** Weak fairness for every task tokio polls (loop, executor, forwarders, spawned
transitions, runtimes, the tasks of a connection), because a tokio task that is ready is
polled and the select loops have no branch that stays ready for ever; strong fairness where
a task waits for a lock others hold in turn (the lifecycle mutex in `Lifecycle` and
`LiveFeed`, slot and gate in `Sandbox`), because tokio's mutex and `RwLock` serve waiters in
FIFO order; weak fairness for timers and for the pipeline reaching the end of what it plays.
A request that has edited the queue ends, by
synchronizing it or without (`SF(Synchronize \/ Abandon)`): `sync_streamer_songs` is the last await
of a handler that its client may drop and that has `?` exits before it, so nothing obliges an
edit to be synchronized, and `FeedSettles` excepts the client that stays with the old queue.
Nothing obliges a client to ask, edit, stay or leave, an administrator to change anything or
Icecast to be polled, and nothing has to fail.

## 4. Where code and comments disagree

These schedules were met while modelling. They are kept in the modules, each behind a name
or a history the properties except, and listed as hazards in `PROJECT.json`; the first one
has a run of its own.

- A failed read of the feed (`stations/handlers/ws.rs:785`). The comment of `DbError`
  (`ws.rs:673`) says that `last_is_started` is left alone "so the next signal retries". The
  next signal does read the row again, but because `last_is_started` was left alone the row
  may look unchanged, and then nothing is sent: the client keeps the error although the
  database answers. `live_feed_retry` shows it (`SignalRetries`). Worse, the status goes out
  before the queue is read: when a station is started and stopped again around a queue read
  that fails, the client keeps the status in between, a station that is shown as started
  without a runtime and is stopped. This is the `status` in `lost`, which the proof of
  `ViewIsCurrent` brought to light.
- An edit that nobody hears of (`stations/handlers/queue.rs:106`, `145`, `187`, `210`). The rows
  are written by statements of their own; a handler that is dropped or fails between them and
  the end of the synchronization leaves clients and runtime with the old queue until the next
  change. This is a `queue` in `lost`, and `Cancel` in `Lifecycle`.
- A change of the row whose reply is lost (`stations/handlers/stream.rs:561`, `714`). The request
  ends with an error before it notifies, and a client that watches keeps the old status
  (`reply` in `lost`).
- A pick that fails inside the runtime's commit (`scheduling/service/auto_fill.rs:387`). The
  error is swallowed as "no song", but in PostgreSQL it has aborted the transaction; the COMMIT
  that follows is a rollback and reports success. The comment at `streamer/queue_manager.rs:237`
  ("The database cursor and refill are committed: only now advance the in-memory state") is then
  not true, and no cursor is kept for a retry: a restart takes the queue up from the older cursor.
- A branch that fails half-way through `attach_inner` (`streamer/gstreamer/branch.rs:272`) leaves its
  elements in the pipeline; they belong to no branch, so nothing removes them and an error of
  theirs stops the station.
- *skipping* (`streamer/controller.rs`). While a skip is pending, `reload` leaves the staged
  branch to "the skip commit: it re-reads the queue at commit time". When the skip fails,
  the commit re-reads nothing, and a deleted row stays staged.
- *early*. "It is deferred, never consumed", says the controller of terminal events that
  arrive while a skip is in flight. An end of the skip's own target that arrives before the
  commit has the new generation, is compared with the old one and dropped: dead air.
- *stopped*. `pause` has no state check. A pause during a start that then fails, or on a
  station whose queue ran dry, leaves `Paused` with nothing on the air, and the next play
  only resumes a pipeline that has no plan, although "a subsequent play attempt can retry".
- *stale* (`queue_state.rs`). A reload between the reading of a synchronization and its
  delivery revives a row that was played.
- The *raced* window of `Reconnect` (`runtime.rs:331`, `controller.rs:1017`). A break between
  the pipeline's success and the moment the loop ends the chain is taken for one the chain
  still works on: nobody repairs it until something else touches the output.
- The copy (`songs/scan.rs:171`). The scanner tracks the copy of a file under the song of the
  original; when the copy changes in place, it rewrites that song's hash and tags although
  the original did not change.
- `count_upcoming` without a current identity counts by the stored index (`auto_fill.rs:38`):
  after the last track has ended, rows put before it are taken for played and a fill leaves
  more than its window (`Misled`).
- Weekly entries are kept apart only from those of the same day (`service/mod.rs:106` has a
  test for the choice among several); an entry over midnight may overlap the next day's, and
  the one that began last is on.
- `reset` (`demo.rs:553`) reads the seed before it has the slot; a configure that publishes
  in between removes that seed's audio. A promotion abandoned at the gate leaves the
  workspace open for what it had admitted.
- A lagged receiver of listener counts (`ws.rs:339`) never reads the cache again.

## 5. What is proved

`LifecycleProofs.tla` proves, for any number of requests and runtimes and any number of
crashes and lost loops, that every state is well typed (`TypeCorrect`), that the mutex is
held exactly by the task between its first and last step (`OneTransitionAtATime`), that no
runtime escapes the map (`NoOrphan`), that a terminal runtime is removed by the task that
drains it (`TerminalRemoved`), that at most one runtime is in use and the mapped one can be
used (`OneRuntimeAtATime`) and that a deleted station stays silent (`DeletedStaysSilent`). The
only assumption is `LifecycleAssumption` (the restore task is not a request, `None` is none
of them, the bounds are naturals).

The inductive invariant adds to the properties what the code relies on between two awaits:
`LockInv` (mutual exclusion), `OpInv` (which operation can stand at which step), `DrainInv`
(a task that drains drains the mapped, terminal runtime) and `RowInv` (what a task has
checked of the row stays true while it keeps the lock). `RowInv` is where a stale restore
or a late Play would break it. One lemma per action gives its effect on program counters
and lock; one per action and conjunct that it can disturb gives preservation.

Its second part proves, from the same assumption, that a stopped station has no runtime
(`StoppedStaysSilent`), that observers are told of every change of the row whose reply
arrived (`ObserversAreTold`) and that success is answered only for what then holds
(`SuccessIsTrue`). `StoppedHasNoRuntime` is not inductive: a Play that is about to attach a runtime
satisfies it whatever the row says. `PInv` adds which steps an operation has (`StepInv`),
that an answered task has ended (`EndedInv`), what a task has made of the row (`IntentInv`),
and who answers for a runtime of a stopped station (`StopInv`) or for observers that are
behind (`ToldInv`).

Its last part proves that an answered synchronization has reached the runtime in use
(`SyncIsHeard`). The invariant `QInv` follows the version of the rows on its way: what has been
read exists (`SeenInv`), neither what the runtime has nor what waits in its channel is older
than an answered synchronization (`ReachedInv`), nor are rows that somebody has read and not
yet handed on (`FreshInv`), the last command in the channel is that of the task that waits for
it (`LastInv`), and a channel begins empty (`UnbornInv`). It holds because rows are read and handed on
under one lock and the channel is first in, first out.

The module also proves the three properties of `Schedule` and `AutoDj`, for months of any
lengths, days of any number of moments, any offers, sources and budgets:

- `WhatIsOnIsPlayed` (`WhatIsOnPlays`): with any rows in the tables, the source that the code
  finds from weekdays and times of day is that of the rows whose interval on the timeline
  contains the moment. It needs no more of a state than the types of the rows; the work is in
  the comparison of `EffectiveStart`, which is negative for a row that began yesterday, with
  the day a row began on (`EntryIsOn`, `EventIsOn`), the end of the week included.
- `ProgrammeStaysSound` (`ProgrammeIsSound`): bookings that did not race stay apart, and a rule
  limited to n dates takes place on the first n. `RequestsFit` says that what a request has
  checked and not yet written fits in the table, but for the rows written since, which its
  `missed` names; `RowsAreApart` says it of the tables; and `IdsAreApart` keeps a row from
  taking an identity that is in use or promised. The counts are those of the code's formula:
  the occurrences up to a date are mapped onto an interval (`EveryCounts`, `MonthlyCounts`),
  or taken week by week (`CustomDaysCounts`). The beginning of a month is a recursive
  function, of which the proof needs that it grows and leaves no day out (`MonthsCover`).
- `FillsStaySound` (`FillsAreSound`): no fill leaves more than its window, nor a song twice that
  it need not repeat. `FillInv` follows a transaction from its count to its commit: what it
  has added and still wants is what it wanted then (`Demanded`), the cursor has at most ended
  its track since (`CursorSince`), no row counts that did not count then but its own
  (`RowsSince`), and a repeated song is excused by a source that has nothing else. At the
  commit the rows of the window are counted (`WaitingIsCounted`, `FillFits`). That a new row
  finds an unused identity is the pigeonhole principle over the finite set of those in use
  (`SomeAreFree`).

They rest on `ScheduleAssumption` (the calendar is well formed, the budgets are numbers),
`ProgrammeAssumption` (offers and initial rows have the types of the tables' columns, initial
rows have identities of their own and are apart, as rows booked one at a time are) and
`AutoDjAssumption` (`Null` is no number, a source's songs to keep ahead are an integer, of any
sign because no request checks it, the configuration is a source, a station starts with
songs). TLC evaluates them on the instance
of the run. `Misled` stays an exception of the third as it is of the run.

`ExecutorProofs.tla` proves `AnswersHold` (`CallersAreToldTheTruth`) and
`ShutdownOvertakesCommands` (`BarrierOvertakes`) for any number of calls and a channel of any
size. A call is followed from its sender through channel and lane to the executor: until its
outcome is known it is at one of these places only and occurs there once (`PlaceInv`,
`UniqueInv`, `LaneInv`, `WorkInv`), nobody is told of an operation before its completion can
report it (`SilentInv`), and when the loop has ended the barrier is on its way with nothing
behind it (`BarrierInv`). Without `PlaceInv` a call could be dispatched twice, and the second
run would follow the answer to the first.

`StationProofs.tla` proves `NothingPendingForever` (`NeverLeftPending`) for any rows, commands,
edits and faults and with every race open: a play, resume, skip or roll the controller waits
for is never forgotten by the executor. The property is inductive only with the types of
everything that travels (`Shape`, from which also `StationIsTyped` follows): a completion
carries a number that was handed out (`Lanes`), so a new attempt cannot be answered by an old
one, and a handover names a track (`Channel`). `Covered` says which operation stands behind
which field: a start behind a play or a resume, a switch behind a skip, a roll behind a realign.
Every method of the controller, alone or called by another, is shown to be a `Result`: what
it newly waits for is in what it submits, and what it already waited for it drops or keeps. A
completion leaves its queue in the step that answers it, so there the argument goes through
the controller without the answered attempt (`Quieter`), which covers what is left. What the
queue computes (first row outside a set, successor) is shown to be a row or `None` by
well-foundedness. `StationAssumption` is that the items are positive numbers, the
rows are items, the bounds are naturals and the races are those the module names.

`QueueCursorProofs.tla` proves three properties for any rows, faults, crashes and edits, from
`QueueCursorAssumption`, which says that the constants are well formed:

- `OnlyPassedConsumed` (`ConsumedWasCurrent`), stale deliveries included: an identity is
  consumed, in the memory, in the database or in the cursor that is still to be stored, only
  if its row was current before. The invariant needs two more conjuncts, because a consumed
  set travels: the anchor of the planned track (`PlanInv`: it holds passed rows and the
  current one) and the cursor that a call carries across an await (`JobInv`).
- `TrimsOnlyPassed` (`NothingUnplayedIsDeleted`), stale deliveries included: no trim deletes
  a row that was not current before. The proof has to know which rows a filtered, extended or
  reordered table contains. That would be inductions over the table; instead the rows that
  are kept are numbered by rank, which grows with the place and leaves no number out
  (`RankGrows`, `RankIsOnto`), and the first row outside a set exists by well-foundedness
  (`FirstIsOutside`).
- `StoreIsTrue` (`WhatIsStoredIsTrue`), without stale deliveries and swallowed commits: the
  stored cursor is the memory's or the memory knows that it is not, and what was stored as played stays played. Its
  invariant `SInv` says, between any two steps, what the memory is about to hold (`Meant`),
  where the cursor is kept that the database has or will have (`Kept`) and how they differ
  (`MemoryInv`, `SongInv`), and that rows that were read before others were inserted miss only
  rows nobody was told of (`LateInv`).

`ReconnectProofs.tla` proves `ChainsAreSound` (`ChainsHaveOneWorker`) for any number of
commands, breaks and faults and a channel of any size: an active chain has exactly one worker
and an automatic one belongs to the output that plays. The worker wanders from a lane to the
executor, to a timer, to the channel and back, so the proof counts: lemmas say how the number
of workers of a token changes when a queue gains or loses an element (`BehindOneMore`,
`BehindOneLess`). The count is inductive with `Handed` (a token that was not handed out is
nowhere, so a new chain finds nobody at work), `Outs` (the same for identities of outputs)
and `Phases` (whoever asks for a shutdown has given up the token).

`PipelineProofs.tla` proves the refinement (`ImplementsPlayout`, the run's `KeepsPromise`) for
any number of tracks, generations, faults and errors: the initial state of `Pipeline` maps to
one of `Playout`, and every step of an operation, a thread or the bus to a step of it or a
stutter. The steps alone do not map: that a plan is adopted only once, that a refused
request changes nothing and that a plan is taken down only by who may needs to know which
step, kind, verdict and plan can stand together: `PhasesHold`, with the conjuncts `Phase`,
`Decided`, `FirstPlan` and `Taken`.

On top of it stands the invariant of the registry (`RegistryHolds`): a branch in the graph
is live, a candidate or about to be discarded, never two of them (`Accounted`); live are the
branches of the plan and at most one that has ended (`PlanIsLive`); a branch that is to be
attached is not there yet, because a replacement has a new generation and a roll a new track
(`NewBranches`); and the candidates are those of the step (`CandidatesFit`). From it follow
`PlanIsSound` (`OnlySoundPlansPlay`), `NothingLeftBehind` (`EverythingIsCleanedUp`) and
`BlameIsJust` (`BranchesTakeTheBlame`).

`LiveFeedProofs.tla` is about the connection as a whole (`ConnectionSpec`: feed, listener
task, poller and station side by side), for receivers of any capacity and any number of
transitions, changes, faults and polls. `ClientIsCurrent` proves `ViewIsCurrent`: the task
never compares what it told with what is. It is current because whatever changes leaves
something for it: a message in the receiver it listens to (`StatusInv`, `QueueInv`,
`WatchInv`), another runtime than the one it is attached to, never one with the same number
(`RuntimeInv`), or a synchronization somebody still owes; and what a watching task compares
with is what it told last (`SeenInv`). Where one of these fails, `lost` names it: the read that
failed, the edit nobody synchronized, the reply that never came (section 4). `NoAlarmAtWork` proves `NoFalseAlarm`.
`CountsReachTheClient` proves `CountsAreCurrent` and `CountsNeverGoBack` the action property
`CountsMoveForward`: what is in the channel is never newer than the cache and never older
than what precedes it (`OldInv`), and the last message of a station has the count of the
cache unless the cache was read after it (`CountInv`). The assumptions are that the bounds
and `Capacity` are naturals, `Capacity` and `SampleEvery` positive.

`SandboxProofs.tla` proves `RequestsStayInside` (`WorkStaysInside`) and `SandboxesAreWhole`
(`SandboxesStayWhole`) for any number of administrators, changes, requests, sockets and
faults. Everything rests on numbers that are given out once (`NumberInv`): a generation that
is yet to be published is nowhere, so no workspace that was left open looks like a later one.
A workspace that is open has its schema and is the one in the registry, one about to be
closed, or one an abandoned change has left (`OpenInv`); a change keeps what it has read of
the row until it publishes or notices (`BoxInv`, `WholeInv`), a library that is being copied
is nobody else's (`LibInv`), and without faults whatever is to go has somebody who removes it
(`LeftInv`). `None` must not be an administrator, because it stands for a free slot.

Its second part is about `Library` and proves `ScanIsComplete` (`OneScanSettles`) and
`DescribedByOwnFile` (`SongsAreDescribed`) for any paths and contents and any number of scans,
requests, songs, outside writes and restarts; the assumption is `LibraryAssumption` (the bounds
are naturals, `NoSong` is no song). A scan is a loop that anything may disturb between two
statements, so its invariant speaks of the scan that nobody has disturbed (`Calm`), which is
alone, as `QuietInv` and `ScansInv` say. For it the listing is the disk (`ListInv`), every file
it has worked through is remembered (`WorkInv`) and every song it has passed at its end is
flagged (`FlagInv`), so that when nothing is left to do the property holds; `IdleWork` and
`Flagged` keep it while only scans follow, which then find nothing to change. Other scans may
have been disturbed; of these it is enough that what they carry is well formed (`ScansShape`).
For the second
theorem a stamp stands for one content, on the disk and in every row that was written while
nobody interfered (`DiskInv`, `RowInv`, `KnownInv`), and a row names the song of its path or
one held under another path (`copied`, `CopyInv`). A file that is replaced in the middle of a scan may leave a row
with the stamp of one content and the hash of another: hence the second theorem excepts
behaviours with an `overlap`, and the first does not.

`PipelineProofs.tla` also proves that a resolved transition of `Transition` fits both files (`ResolvedFits`: no fade
before the beginning, beyond the end or longer than the media left, whatever was planned)
and that a roll that is not refused as stale hands over neither before now nor after the
current track has ended (`RollsInTime`, for a current track of known length and a cue that
has not been passed when its branch began). Both are arithmetic over all natural numbers;
`Expected` is a moment of the logical timeline, `TakesOver` of the
physical one. A roll whose current track has no known length is committed without a
handover and is not claimed about.

Only model-checked:

- The agreement of `Station` with its pipeline (`OneStation`, `StagedIsSuccessor`,
  `EndedTrackMovesOn`, `PauseHolds`, `NeverReplayed`). It holds only with races closed, and an
  inductive invariant has to say of every order of two lanes, completions and events what
  the pipeline will be when they have been handled; that has not been written. `TypeOK`, the
  first part of `OneStation`, is proved.
- Liveness (`EveryRequestEnds`, `IntentIsRestored`, `EveryCallerAnswered`, `PlaysOn`,
  `OutputRecovers`, `FeedSettles`, `SocketsFollow`) needs fairness and ENABLED, and what a
  recursive definition computes for every input needs induction over data; both are out of
  the prover's reach.
- `SignalRetries` is false.

A theorem says what the modules allow, and no more: the windows that the histories name
(`lost`, `dropped`, `stray`, `stale`, `overlap`, `copied`, a budget with stale deliveries) are
excepted from the theorems as they are from the runs.

## 6. What is not modelled, and the plan

Not modelled, with the reason in `PROJECT.json` (`components`):

- *Inside modelled components.* Lifecycle: the fan-out over stations and the configuration
  sync. Library: tags, covers, folder listings, the counters of upload jobs, the backfill of
  hashes of rows older than the hash column. Listeners: the XML, the warning about a mount shared
  by two stations, the pruning of old samples. Auto DJ: artist gap and order of picks, the
  PATCH of the configuration. Sandbox: which paths a demo may call, a commit whose answer is
  lost (`demo.rs:713`: the new generation would be published with the old workspace left open, and
  `WorkStaysInside` would have to except the edits of the old one).
  Pipeline: one output epoch; the sink is in `Reconnect`.
- *Statements taken together.* Some steps stand for several statements in a row, where nothing a
  property says depends on what happens between them: the removal of a file, of its row and
  of its song (`Unlink`, `DeleteFound`, `Purge`), what a scan reads and writes for one file
  (`ResolveUnknown`, `Refresh`, `Track`), the reads of a fill (`Count`), the updates of one reorder
  request, one per row (`Reorder`), the DELETE of the playlists and the DROP SCHEMA of a retired
  workspace (`DropSchema`), and the reading and writing of a role (`Promote`).
- *Icecast supervision.* Its state is a child process of the operating system. Worth a
  module of its own later: an abandoned spawn, an abandoned PATCH during a restart that has
  paused the stations, the mutex released between stop and start.
- *Playlists, users, sessions, API keys, roles.* CRUD in single transactions or behind one
  lock; what a playlist offers is a parameter of `AutoDj`.
- *GStreamer elements, song analysis, media discovery, metadata lookup.* Calls of other
  programs without state another part reads.
- *Configuration, routing, error mapping, frontend, schema, build.* No state machine.

Plan, in order of importance: the inductive invariant of `Station` strengthened from the
controller's books (`Covered`) to the agreement with the pipeline, first for `PauseHolds`;
then Icecast supervision as a module.
