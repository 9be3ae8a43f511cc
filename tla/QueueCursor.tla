---------------------------- MODULE QueueCursor -----------------------------
(***************************************************************************)
(* The queue of one station and its durable cursor: QueueManager and       *)
(* QueueRepository (streamer/queue_manager.rs, queue_repository.rs), the   *)
(* statements with which other clients edit the same rows                  *)
(* (stations/queue_repo.rs, handlers/queue.rs) and the start of a runtime  *)
(* from the stored cursor (streamer/mod.rs).                               *)
(*                                                                         *)
(* The runtime's loop runs one QueueManager call at a time, so job holds   *)
(* the only one there is; each of its steps is what happens between two    *)
(* awaits or in one database statement.  Edits of other clients take no    *)
(* lock the loop takes and fall between any two steps.  A synchronization  *)
(* reads the rows outside the loop and delivers them to it later.          *)
(*                                                                         *)
(* Abstractions: a row is its identity, its place in rows the position     *)
(* column; the stored index of the pre-identity format 0 is left out; a    *)
(* fill adds at most one row, more rows are more fills.                    *)
(***************************************************************************)
EXTENDS QueueState, FiniteSets

CONSTANTS
  InitialRows,  \* the rows of a station that was never started
  Origin,       \* the playlist each row was queued from, or None
  PlayedLimit,  \* played entries kept in the queue table; 0 keeps them all
  Budgets       \* bounds, one of which holds in a behaviour: failed database
                \* calls, deaths of the server, edits by other clients, and
                \* whether what somebody holds may go stale: a call of the
                \* loop overtakes rows that a synchronization has read and
                \* not delivered, a commit that is undone counts as done

ASSUME QueueCursorAssumption ==
  /\ Items \subseteq Nat \ {0}
  /\ None \notin Items \cup [cur : Items \cup {None}, used : SUBSET Items]
  /\ InitialRows \in Seq(Items)
  /\ PlayedLimit \in Nat
  /\ Budgets \subseteq [faults : Nat, crashes : Nat, edits : Nat, stale : BOOLEAN]
  /\ DOMAIN Origin = Items

VARIABLES
  rows,      \* table station_queue, in order of position
  cursor,    \* the cursor columns of the station
  born,      \* identities that were ever inserted
  mode,      \* down (no runtime), stopped or playing
  q,         \* the in-memory queue
  dirty,     \* the cursor still to be stored, or None
  reserved,  \* the item whose refill was attempted, or None
  plan,      \* the track prepared to succeed the current one, with its anchor
  job,       \* the QueueManager call under way
  fetched,   \* the rows a synchronization has read and not delivered, or None
  budget,    \* faults, crashes and edits left, and the windows there are
  passed,    \* history: items that were current and gave way
  stored     \* history: items that were ever stored as consumed

vars == <<rows, cursor, born, mode, q, dirty, reserved, plan, job, fetched,
          budget, passed, stored>>
memory == <<q, dirty, reserved, plan>>

Cursors == [cur : Items \cup {None}, used : SUBSET Items]
NoCursor == [cur |-> None, used |-> {}]
NoQueue == [items |-> <<>>, cur |-> None, used |-> {}]
NoPlan == [song |-> None, anchor |-> {}]
(* A call that only waits, one with a cursor to store, one with rows it    *)
(* has read, one with rows to delete.                                      *)
At(step) == [at |-> step, cursor |-> NoCursor, rows |-> <<>>, ids |-> {}]
Writes(step, c) == [at |-> step, cursor |-> c, rows |-> <<>>, ids |-> {}]
Holds(step, s) == [at |-> step, cursor |-> NoCursor, rows |-> s, ids |-> {}]
Deletes(step, gone) == [at |-> step, cursor |-> NoCursor, rows |-> <<>>, ids |-> gone]
Idle == At("idle")

Init ==
  /\ rows = InitialRows
  /\ cursor = NoCursor
  /\ born = Rows(InitialRows)
  /\ mode = "down"
  /\ q = NoQueue
  /\ dirty = None
  /\ reserved = None
  /\ plan = NoPlan
  /\ job = Idle
  /\ fetched = None
  /\ budget \in Budgets
  /\ passed = {}
  /\ stored = {}

Ready == mode # "down" /\ job = Idle

Fail == budget.faults > 0 /\ budget' = [budget EXCEPT !.faults = @ - 1]

-----------------------------------------------------------------------------
(* The played window.                                                      *)

(* How many of S are not behind i. *)
Rank(i, S) == Cardinality({j \in S : j <= i})

(* The rows of s outside gone, in their order. *)
Without(s, gone) ==
  LET kept == {i \in DOMAIN s : s[i] \notin gone}
  IN  [k \in 1 .. Cardinality(kept) |-> s[CHOOSE i \in kept : Rank(i, kept) = k]]

(* The rows of s that open a visible entry of the played list: consecutive *)
(* played rows of one playlist are one entry.                              *)
Played(s, used) == {i \in DOMAIN s : s[i] \in used}

Heads(s, used) ==
  {i \in Played(s, used) :
     \/ Origin[s[i]] = None
     \/ ~ \E j \in Played(s, used) :
            /\ j < i /\ (j + 1) .. (i - 1) \cap Played(s, used) = {}
            /\ Origin[s[j]] = Origin[s[i]]}

VictimsByPosition(s, used) ==  \* mutant: trims by place, not by identity
  {s[i] : i \in {j \in DOMAIN s : j <= Cardinality(used) - PlayedLimit}}

(* The consumed rows in front of the last PlayedLimit visible entries. *)
Victims(s, used) ==
  LET heads == Heads(s, used)
      surplus == Cardinality(heads) - PlayedLimit
  IN  IF PlayedLimit = 0 THEN {}
      ELSE {s[i] : i \in {j \in Played(s, used) : Rank(j, heads) <= surplus}}

(* The rows after AutoDJ or the schedule has or has not added one to s. *)
Filled(s) ==
  {s} \cup {Append(s, item) : item \in
              {i \in Items \ born : \A j \in Items \ born : i <= j}}

-----------------------------------------------------------------------------
(* Writing the cursor.  The guarded UPDATE that fails is followed by the   *)
(* same UPDATE without a guard, so a write that returns has happened.      *)

Store(c) == cursor' = c

(* A write that fails may still have happened. *)
Doubt(c) == cursor' \in {cursor, c}

(* The transaction of a commit: cursor, trim and fill, or none of them. *)
StoreTrimFill(c) ==
  LET gone == Victims(rows, c.used)
  IN  /\ Store([c EXCEPT !.used = @ \ gone])
      /\ rows' \in Filled(Without(rows, gone))
      /\ born' = born \cup Rows(rows')

-----------------------------------------------------------------------------
(* QueueManager calls.                                                     *)

PrepareSkippingAhead ==  \* mutant: the anchor consumes what lies in front
  /\ Ready
  /\ q.cur # None
  /\ \E i \in DOMAIN q.items :
       /\ q.items[i] \notin q.used \cup {q.cur}
       /\ plan' = [song |-> q.items[i],
                   anchor |-> AnchorAfterCurrent(q) \cup Rows(SubSeq(q.items, 1, i - 1))]
  /\ UNCHANGED <<rows, cursor, born, mode, q, dirty, reserved, job, fetched, budget, passed>>

(* The controller prepares a successor: an item that is neither consumed   *)
(* nor current, skipping those that did not decode.                        *)
Prepare ==
  /\ Ready
  /\ q.cur # None
  /\ \E song \in Rows(q.items) \ (q.used \cup {q.cur}) :
       plan' = [song |-> song, anchor |-> AnchorAfterCurrent(q)]
  /\ UNCHANGED <<rows, cursor, born, mode, q, dirty, reserved, job, fetched, budget, passed>>

(* A handover or a successful skip: the pipeline plays the planned song.   *)
(* A realign that the handover overtook commits with a fresh anchor.       *)
CommitCurrent ==
  /\ Ready
  /\ plan.song # None
  /\ budget.stale \/ fetched = None
  /\ \E anchor \in {plan.anchor, AnchorAfterCurrent(q)} :
       job' = Writes(IF reserved = plan.song THEN "commit" ELSE "commitFill",
                     [cur |-> plan.song, used |-> anchor])
  /\ reserved' = plan.song
  /\ mode' \in {mode, "playing"}
  /\ passed' = passed \cup {q.cur}
  /\ UNCHANGED <<rows, cursor, born, q, dirty, plan, fetched, budget>>

PersistCommit ==
  /\ \/ /\ job.at = "commit"
        /\ Store(job.cursor)
        /\ job' = [job EXCEPT !.at = "committed"]
        /\ UNCHANGED <<rows, born>>
     \/ /\ job.at = "commitFill"
        /\ StoreTrimFill(job.cursor)
        /\ job' = [job EXCEPT !.at = "committedFill"]
  /\ UNCHANGED <<mode, memory, fetched, budget, passed>>

LoseCommit ==
  /\ Fail
  /\ \/ /\ job.at = "commit"
        /\ Doubt(job.cursor)
        /\ UNCHANGED <<rows, born>>
     \/ /\ job.at = "commitFill"
        /\ StoreTrimFill(job.cursor) \/ UNCHANGED <<rows, cursor, born>>
  /\ job' = [job EXCEPT !.at = IF @ = "commit" THEN "deferred" ELSE "deferredFill"]
  /\ UNCHANGED <<mode, memory, fetched, passed>>

(* A statement that picks a song of the fill fails.  The fill swallows the *)
(* error, the server rolls the transaction back, and the commit, which     *)
(* then has nothing to commit, returns as if it had.                       *)
SwallowCommit ==
  /\ budget.stale
  /\ Fail
  /\ job.at = "commitFill"
  /\ job' = [job EXCEPT !.at = "committedFill"]
  /\ UNCHANGED <<rows, cursor, born, mode, memory, fetched, passed>>

(* The memory follows the database, and the pipeline in any case. *)
AdvanceMemory ==
  /\ job.at \in {"committed", "committedFill", "deferred", "deferredFill"}
  /\ q' = Committed(q, job.cursor.cur, job.cursor.used)
  /\ plan' = NoPlan
  /\ dirty' = IF job.at \in {"committed", "committedFill"} THEN None ELSE job.cursor
  /\ reserved' = IF job.at = "deferredFill" THEN None ELSE reserved
  /\ job' = IF job.at = "committedFill" THEN At("retry") ELSE Idle
  /\ UNCHANGED <<rows, cursor, born, mode, fetched, budget, passed>>

(* The queue ran dry or the last track ended. *)
FinishCurrent ==
  /\ Ready
  /\ mode' = "stopped"
  /\ q' = Finished(q)
  /\ plan' = NoPlan
  /\ passed' = passed \cup ({q.cur} \ {None})
  /\ job' = IF q.cur = None THEN Idle
            ELSE Writes("finish", [cur |-> None, used |-> q'.used])
  /\ UNCHANGED <<rows, cursor, born, dirty, reserved, fetched, budget>>

PersistFinishForgets ==  \* mutant: a failed write is not kept
  /\ job.at = "finish"
  /\ \/ Store(job.cursor) /\ dirty' = None /\ UNCHANGED budget
     \/ Doubt(job.cursor) /\ UNCHANGED dirty /\ Fail
  /\ job' = Idle
  /\ UNCHANGED <<rows, born, mode, q, reserved, plan, fetched, passed>>

PersistFinish ==
  /\ job.at = "finish"
  /\ \/ Store(job.cursor) /\ dirty' = None /\ UNCHANGED budget
     \/ Doubt(job.cursor) /\ dirty' = job.cursor /\ Fail
  /\ job' = Idle
  /\ UNCHANGED <<rows, born, mode, q, reserved, plan, fetched, passed>>

(* Play, skip and idle resume ask for rows before they give up; play with  *)
(* a current track reloads only when the fill worked.                      *)
Refill ==
  /\ Ready
  /\ budget.stale \/ fetched = None
  /\ \/ rows' \in Filled(rows) /\ job' = At("retry") /\ UNCHANGED budget
     \/ rows' = rows /\ job' \in {At("retry"), Idle} /\ Fail
  /\ born' = born \cup Rows(rows')
  /\ UNCHANGED <<cursor, mode, memory, fetched, passed>>

ReloadFromDb ==
  /\ Ready
  /\ budget.stale \/ fetched = None
  /\ job' = At("retry")
  /\ UNCHANGED <<rows, cursor, born, mode, memory, fetched, budget, passed>>

RetryDirtyCursor ==
  /\ job.at = "retry"
  /\ \/ dirty = None /\ UNCHANGED <<cursor, dirty, budget>>
     \/ dirty # None /\ Store(dirty) /\ dirty' = None /\ UNCHANGED budget
     \/ dirty # None /\ Doubt(dirty) /\ UNCHANGED dirty /\ Fail
  /\ job' = At("load")
  /\ UNCHANGED <<rows, born, mode, q, reserved, plan, fetched, passed>>

Load ==
  /\ job.at = "load"
  /\ \/ job' = Holds("replace", rows) /\ UNCHANGED budget
     \/ job' = Idle /\ Fail
  /\ UNCHANGED <<rows, cursor, born, mode, memory, fetched, passed>>

Replace ==
  /\ job.at = "replace"
  /\ q' = Replaced(q, job.rows, TRUE)
  /\ job' = Idle
  /\ UNCHANGED <<rows, cursor, born, mode, dirty, reserved, plan, fetched, budget, passed>>

(* The trim outside a transaction: three statements, each of which may be  *)
(* the last.                                                               *)
TrimPlayedItems ==
  /\ Ready
  /\ LET gone == Victims(rows, cursor.used)
     IN  job' \in {Idle} \cup
           (IF gone = {} THEN {} ELSE {Deletes("trim", gone)})
  /\ UNCHANGED <<rows, cursor, born, mode, memory, fetched, budget, passed>>

TrimRows ==
  /\ job.at = "trim"
  /\ \/ /\ rows' = Without(rows, job.ids)
        /\ job' = Deletes("forget", job.ids \cap Rows(rows))
        /\ UNCHANGED budget
     \/ rows' \in {rows, Without(rows, job.ids)} /\ job' = Idle /\ Fail
  /\ UNCHANGED <<cursor, born, mode, memory, fetched, passed>>

ForgetTrimmed ==
  /\ job.at = "forget"
  /\ LET less == [cursor EXCEPT !.used = @ \ job.ids]
     IN  \/ Store(less) /\ UNCHANGED budget
         \/ Doubt(less) /\ Fail
  /\ job' = Idle
  /\ UNCHANGED <<rows, born, mode, memory, fetched, passed>>

-----------------------------------------------------------------------------
(* The runtime.                                                            *)

(* A runtime is created from the rows and, in a second query, the cursor;  *)
(* the lifecycle lock keeps synchronizations out.                          *)
StartRead ==
  /\ mode = "down"
  /\ job = Idle
  /\ fetched = None
  /\ job' = Holds("start", rows)
  /\ UNCHANGED <<rows, cursor, born, mode, memory, fetched, budget, passed>>

StartRuntime ==
  /\ job.at = "start"
  /\ \/ /\ mode' = "stopped"
        /\ q' = [items |-> job.rows,
                 cur   |-> IF cursor.cur \in Rows(job.rows) THEN cursor.cur ELSE None,
                 used  |-> cursor.used]
        /\ dirty' = None
        /\ reserved' = None
        /\ plan' = NoPlan
        /\ UNCHANGED budget
     \/ UNCHANGED <<mode, memory>> /\ Fail
  /\ job' = Idle
  /\ UNCHANGED <<rows, cursor, born, fetched, passed>>

(* The initial replace succeeded, or the station gave it up. *)
Play ==
  /\ Ready
  /\ mode = "stopped"
  /\ q.cur # None
  /\ mode' = "playing"
  /\ UNCHANGED <<rows, cursor, born, memory, job, fetched, budget, passed>>

GiveUp ==
  /\ Ready
  /\ mode' = "stopped"
  /\ plan' = NoPlan
  /\ UNCHANGED <<rows, cursor, born, q, dirty, reserved, job, fetched, budget, passed>>

Vanish ==
  /\ mode' = "down"
  /\ q' = NoQueue
  /\ dirty' = None
  /\ reserved' = None
  /\ plan' = NoPlan
  /\ job' = Idle
  /\ UNCHANGED <<rows, cursor, born, passed>>

(* Stop takes the lifecycle lock and ends the loop between two calls. *)
Stop ==
  /\ Ready
  /\ fetched = None
  /\ Vanish
  /\ UNCHANGED <<fetched, budget>>

Crash ==
  /\ budget.crashes > 0
  /\ budget' = [budget EXCEPT !.crashes = @ - 1]
  /\ Vanish
  /\ fetched' = None

-----------------------------------------------------------------------------
(* Other clients.                                                          *)

Edit == budget.edits > 0 /\ budget' = [budget EXCEPT !.edits = @ - 1]

NewRow == {i \in Items \ born : \A j \in Items \ born : i <= j}

(* Add: first the consumed rows go, in a statement of its own. *)
TrimConsumedItems ==
  /\ Edit
  /\ rows' = Without(rows, cursor.used)
  /\ UNCHANGED <<cursor, born, mode, memory, job, fetched, passed>>

(* Add appends, insert puts a row anywhere. *)
InsertRow ==
  /\ Edit
  /\ \E item \in NewRow, at \in 0 .. Len(rows) :
       /\ rows' = SubSeq(rows, 1, at) \o <<item>> \o SubSeq(rows, at + 1, Len(rows))
       /\ born' = born \cup {item}
  /\ UNCHANGED <<cursor, mode, memory, job, fetched, passed>>

(* One row, the rows of a playlist, or those of a deleted song. *)
RemoveRows ==
  /\ Edit
  /\ \E gone \in SUBSET Rows(rows) : gone # {} /\ rows' = Without(rows, gone)
  /\ UNCHANGED <<cursor, born, mode, memory, job, fetched, passed>>

Reorder ==
  /\ Edit
  /\ \E i, j \in DOMAIN rows :
       i < j /\ rows' = [rows EXCEPT ![i] = rows[j], ![j] = rows[i]]
  /\ UNCHANGED <<cursor, born, mode, memory, job, fetched, passed>>

(* After an edit, and on every Play that finds a runtime. *)
ReadRows ==
  /\ mode # "down"
  /\ fetched = None
  /\ budget.stale \/ job = Idle
  /\ fetched' = rows
  /\ UNCHANGED <<rows, cursor, born, mode, memory, job, budget, passed>>

(* The loop adopts them between two calls; a current item whose row is     *)
(* gone is kept only while it plays or an operation is in flight.          *)
ReloadSongs ==
  /\ Ready
  /\ fetched # None
  /\ q' = Replaced(q, fetched, mode = "playing" \/ plan.song # None)
  /\ fetched' = None
  /\ UNCHANGED <<rows, cursor, born, mode, dirty, reserved, plan, job, budget, passed>>

-----------------------------------------------------------------------------
Housekeeping == PersistCommit \/ LoseCommit \/ TrimRows \/ TrimConsumedItems

Step ==
  \/ Prepare
  \/ CommitCurrent
  \/ PersistCommit
  \/ LoseCommit
  \/ SwallowCommit
  \/ AdvanceMemory
  \/ FinishCurrent
  \/ PersistFinish
  \/ Refill
  \/ ReloadFromDb
  \/ RetryDirtyCursor
  \/ Load
  \/ Replace
  \/ TrimPlayedItems
  \/ TrimRows
  \/ ForgetTrimmed
  \/ StartRead
  \/ StartRuntime
  \/ Play
  \/ GiveUp
  \/ Stop
  \/ Crash
  \/ TrimConsumedItems
  \/ InsertRow
  \/ RemoveRows
  \/ Reorder
  \/ ReadRows
  \/ ReloadSongs

Next == Step /\ stored' = stored \cup cursor'.used

Spec == Init /\ [][Next]_vars

-----------------------------------------------------------------------------
(* Properties.                                                             *)

Steps == {"idle", "commit", "commitFill", "committed", "committedFill", "deferred",
          "deferredFill", "finish", "retry", "load", "replace", "trim", "forget", "start"}

(* Every variable stays in its type. *)
TypeOK ==
  /\ rows \in Seq(Items)
  /\ cursor \in Cursors
  /\ born \subseteq Items
  /\ mode \in {"down", "stopped", "playing"}
  /\ q \in Queues
  /\ dirty \in Cursors \cup {None}
  /\ reserved \in Items \cup {None}
  /\ plan \in [song : Items \cup {None}, anchor : SUBSET Items]
  /\ job \in [at : Steps, cursor : Cursors, rows : Seq(Items), ids : SUBSET Items]
  /\ fetched \in Seq(Items) \cup {None}
  /\ budget \in [faults : Nat, crashes : Nat, edits : Nat, stale : BOOLEAN]
  /\ passed \subseteq Items
  /\ stored \subseteq Items

(* What the database was told is final: an item once stored as consumed is *)
(* never current again, whatever is trimmed, edited, lost or restarted.    *)
(* Rows that a trim has overtaken bring it back, and a commit that was     *)
(* undone unnoticed.                                                       *)
PlayedForGood == Ready /\ ~ budget.stale => q.cur \notin stored /\ plan.song \notin stored

(* Between two calls the database agrees with the memory about every row   *)
(* there is, or the cursor that is still to be stored does: a retry never  *)
(* turns the station back, and a restart goes on where it was.             *)
Pending == IF dirty # None THEN dirty ELSE cursor

StoreFollowsMemory ==
  Ready /\ ~ budget.stale =>
    /\ Pending.used \cap Rows(rows) = q.used \cap Rows(rows)
    /\ Pending.cur \in Rows(rows) => Pending.cur = q.cur

(* The two together: what the database holds of the cursor is final, and   *)
(* it is what the station does.                                            *)
StoreIsTrue == TypeOK /\ PlayedForGood /\ StoreFollowsMemory

(* Nothing is consumed, in memory or in the database, that was not current *)
(* before: no insertion, roll or skip makes the station pass over a row.   *)
OnlyPassedConsumed ==
  /\ q.used \subseteq passed
  /\ cursor.used \subseteq passed
  /\ dirty # None => dirty.used \subseteq passed

(* The server never deletes a row that was not played: neither the trims   *)
(* of a commit and of a synchronization nor the one before an add.         *)
TrimsOnlyPassed ==
  [][Housekeeping => Rows(rows) \ Rows(rows') \subseteq passed]_vars
=============================================================================
