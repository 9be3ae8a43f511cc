------------------------------- MODULE AutoDj -------------------------------
(***************************************************************************)
(* The fills of one station's queue (scheduling/service/auto_fill.rs,      *)
(* service/mod.rs): the fill that shares a transaction with the runtime's  *)
(* commit of a track (streamer/queue_repository.rs), the runtime's refill  *)
(* and the operator's trigger (handlers/auto_fill.rs).  All take the       *)
(* station's advisory lock; the end of the last track and the edits of     *)
(* other clients (stations/queue_repo.rs, handlers/queue.rs) take none and *)
(* fall between the statements of a transaction, which sees what others    *)
(* have committed and its own writes.  What a fill draws from is the       *)
(* programme's choice (Schedule), whose requests run beside it.            *)
(*                                                                         *)
(* Abstractions: the runtime's memory agrees with the table (QueueCursor   *)
(* is about their difference); counting the queue and reading the songs    *)
(* already on it is one step; the artist gap and the modes Sequential and  *)
(* Reverse choose one of the candidates Random may choose.                 *)
(***************************************************************************)
EXTENDS Schedule

CONSTANTS
  Songs,
  Source,      \* what a source name stands for: its playlists or libraries as sets
               \* of songs, or a playlist played in order, and the songs to keep ahead
  Config,      \* the source of the station's AutoDJ configuration
  FillTimes,   \* bound: the moments at which a fill looks at the programme
  Listed,      \* the songs of the rows a station starts with, in order
  PlayedLimit  \* played rows kept in the table

ASSUME AutoDjAssumption ==
  /\ Null \notin Nat
  /\ Config \in Sources
  /\ \A src \in Sources : Source[src].ahead \in Int
  /\ Listed \in Seq(Songs)

VARIABLES
  rows,    \* table station_queue
  cursor,  \* the cursor columns of the station
  tx,      \* the transaction of the runtime and of the operator's trigger, or Null
  adder,   \* the request that adds a song, or Null
  surplus  \* history: whether a fill left more than its window

queueVars == <<rows, cursor, tx, adder, surplus>>
autoDjVars == <<scheduleVars, queueVars>>

Fillers == {"runtime", "operator"}
Row(id, song, pos, fill) == [id |-> id, song |-> song, pos |-> pos, fill |-> fill]

AutoDjInit ==
  /\ ScheduleInit
  /\ rows = {Row(i, Listed[i], i - 1, FALSE) : i \in DOMAIN Listed}
  /\ cursor = [cur |-> Null, index |-> 0, used |-> {}]
  /\ tx = [w \in Fillers |-> Null]
  /\ adder = Null
  /\ surplus = FALSE

-----------------------------------------------------------------------------
(* Queries over rows s and cursor c.                                       *)

Unconsumed(s, c) == {r \in s : r.id \notin c.used}

(* count_upcoming: without a current identity the stored index decides. *)
Upcoming(s, c) ==
  {r \in Unconsumed(s, c) : IF c.cur = Null THEN r.pos > c.index ELSE r.id # c.cur}

FillDemand(s, c, ahead) ==
  LET n == Cardinality(Upcoming(s, c))
  IN  IF n >= ahead THEN 0
      ELSE ahead - n + IF Unconsumed(s, c) = {} THEN 1 ELSE 0

ActiveSongs(s, c) == {r.song : r \in {q \in s : q.id = c.cur \/ q.id \notin c.used}}

NextPosition(s) ==
  IF s = {} THEN 0 ELSE 1 + CHOOSE p \in {r.pos : r \in s} : \A r \in s : r.pos <= p

(* pick_song_for_source: a list that offers something new before one that  *)
(* only repeats.                                                           *)
Candidates(lists, excluded) ==
  LET fresh == {l \ excluded : l \in lists} \ {{}}
  IN  UNION (IF fresh # {} THEN fresh ELSE lists)

(* The next song of a playlist played in order. *)
NextInOrder(order, excluded) ==
  LET rest == {i \in DOMAIN order : order[i] \notin excluded}
  IN  {order[i] : i \in {j \in rest : \A k \in rest : j <= k}}

(* The played rows in front of the last PlayedLimit. *)
Victims(s, c) ==
  LET played == s \ Unconsumed(s, c)
  IN  {r.id : r \in {q \in played : Cardinality({o \in played : o.pos > q.pos}) >= PlayedLimit}}

-----------------------------------------------------------------------------
(* Transactions under the advisory lock.                                   *)

(* What the transaction of w sees. *)
Visible(w) == {r \in rows : r.id \notin tx[w].gone} \cup tx[w].added
CursorSeen(w) == IF tx[w].cursor = Null THEN cursor ELSE tx[w].cursor

Began(c, gone) ==
  [at |-> "count", cursor |-> c, gone |-> gone, added |-> {}, need |-> 0, src |-> Config,
   excluded |-> {}, counted |-> [rows |-> {}, cursor |-> cursor]]

LockNothing(w, c, gone) ==  \* mutant: the transactions take no lock
  tx[w] = Null /\ tx' = [tx EXCEPT ![w] = Began(c, gone)]

Lock(w, c, gone) ==
  /\ \A v \in Fillers : tx[v] = Null
  /\ tx' = [tx EXCEPT ![w] = Began(c, gone)]

(* An identity no row has and nothing refers to. *)
NewRow ==
  LET used(c) == c.used \cup ({c.cur} \ {Null})
      held(w) == {r.id : r \in tx[w].added \cup tx[w].counted.rows}
                 \cup tx[w].gone \cup used(CursorSeen(w))
      taken == {r.id : r \in rows} \cup used(cursor)
               \cup UNION {held(w) : w \in {v \in Fillers : tx[v] # Null}}
  IN  CHOOSE n \in 1 .. Cardinality(taken) + 1 : n \notin taken

(* What the runtime plays next. *)
Successors ==
  LET queued == {r \in Unconsumed(rows, cursor) : r.id # cursor.cur}
  IN  {r \in queued : \A q \in queued : r.pos <= q.pos}

(* commit_cursor_and_refill: the cursor moves to a row, played rows go. *)
CommitCurrent ==
  /\ Spend("commits")
  /\ \E r \in Successors :
       LET c == [cur |-> r.id, index |-> r.pos,
                 used |-> cursor.used \cup ({cursor.cur} \ {Null})]
           gone == Victims(rows, c)
       IN  Lock("runtime", [c EXCEPT !.used = @ \ gone], gone)
  /\ UNCHANGED <<rows, cursor, adder, surplus>>

(* fill_queue_from_schedule by the runtime or the operator. *)
Refill(w) ==
  /\ Spend("fills")
  /\ Lock(w, Null, {})
  /\ UNCHANGED <<rows, cursor, adder, surplus>>

(* The source at whatever time it is, the demand and the songs to avoid. *)
Count(w) ==
  /\ tx[w] # Null /\ tx[w].at = "count"
  /\ \E src \in UNION {SourcesAt(t[1], t[2], Config) : t \in FillTimes} :
       tx' = [tx EXCEPT ![w].at = "insert", ![w].src = src,
                ![w].need = FillDemand(Visible(w), CursorSeen(w), Source[src].ahead),
                ![w].excluded = ActiveSongs(Visible(w), CursorSeen(w)),
                ![w].counted = [rows |-> Visible(w), cursor |-> CursorSeen(w)]]
  /\ UNCHANGED <<rows, cursor, adder, surplus>>

Offered(w) ==
  LET s == Source[tx[w].src]
  IN  IF s.order # <<>> THEN NextInOrder(s.order, tx[w].excluded)
      ELSE Candidates(s.lists, tx[w].excluded)

(* A playlist played in order goes on from the position it has read, any   *)
(* other source reads it before every row.                                 *)
Position(w) ==
  IF Source[tx[w].src].order # <<>>
  THEN NextPosition(tx[w].counted.rows) + Cardinality(tx[w].added)
  ELSE NextPosition(Visible(w))

Insert(w, song) ==
  tx' = [tx EXCEPT ![w].need = @ - 1, ![w].excluded = @ \cup {song},
           ![w].added = @ \cup {Row(NewRow, song, Position(w), TRUE)}]

PickAndInsert(w) ==
  /\ tx[w] # Null /\ tx[w].at = "insert" /\ tx[w].need > 0
  /\ \E song \in Offered(w) : Insert(w, song)
  /\ UNCHANGED <<rows, cursor, adder, surplus>>

(* The rows waiting behind the current one, which is the first of them     *)
(* when none is current: those the fill of w could count, and those of     *)
(* every fill.                                                             *)
Waiting(w, s, c) ==
  {r \in Unconsumed(s, c) : r.id # c.cur /\ (r.fill \/ r \in tx[w].counted.rows)}

Overfull(w, s, c) ==
  Cardinality(Waiting(w, s, c)) >
    Source[tx[w].src].ahead + IF \E r \in s : r.id = c.cur THEN 0 ELSE 1

(* Without a current identity the count goes by position, and misses the   *)
(* rows up to the stored index but for the one that becomes current.       *)
Misled(w) ==
  LET c == tx[w].counted.cursor
  IN  /\ c.cur = Null
      /\ Cardinality({r \in Unconsumed(tx[w].counted.rows, c) : r.pos <= c.index}) > 1

(* Nothing is on, and the AutoDJ has no configuration or is disabled. *)
NothingToFill(w) ==
  tx[w].at = "count" /\ \E t \in FillTimes : Config \in SourcesAt(t[1], t[2], Config)

Commit(w) ==
  /\ tx[w] # Null
  /\ \/ tx[w].at = "insert" /\ (tx[w].need = 0 \/ Offered(w) = {})
     \/ NothingToFill(w)
  /\ rows' = Visible(w)
  /\ cursor' = CursorSeen(w)
  /\ surplus' = 
       (surplus \/ (tx[w].added # {} /\ ~ Misled(w) /\ Overfull(w, rows', cursor')))
  /\ tx' = [tx EXCEPT ![w] = Null]
  /\ UNCHANGED adder

(* Also when a statement that picks a song fails: the fill swallows the    *)
(* error, but what follows is refused and the commit rolls back.           *)
Rollback(w) ==
  /\ tx[w] # Null
  /\ Spend("faults")
  /\ tx' = [tx EXCEPT ![w] = Null]
  /\ UNCHANGED <<rows, cursor, adder, surplus>>

-----------------------------------------------------------------------------
(* What takes no lock.                                                     *)

(* persist_cursor_if_current at the end of the last track. *)
FinishCurrent ==
  /\ tx["runtime"] = Null
  /\ Successors = {}
  /\ \E r \in rows :
       /\ r.id = cursor.cur
       /\ cursor' = [cur |-> Null, index |-> r.pos, used |-> cursor.used \cup {r.id}]
  /\ UNCHANGED <<rows, tx, adder, surplus>>

(* add_songs_to_queue: played rows go, then a position is read, then used. *)
AddSong ==
  /\ Spend("edits")
  /\ adder = Null
  /\ rows' = Unconsumed(rows, cursor)
  /\ \E song \in Songs : adder' = [song |-> song, pos |-> Null]
  /\ UNCHANGED <<cursor, tx, surplus>>

ReadPosition ==
  /\ adder # Null /\ adder.pos = Null
  /\ adder' = [adder EXCEPT !.pos = NextPosition(rows)]
  /\ UNCHANGED <<rows, cursor, tx, surplus>>

InsertRow ==
  /\ adder # Null /\ adder.pos # Null
  /\ rows' = rows \cup {Row(NewRow, adder.song, adder.pos, FALSE)}
  /\ adder' = Null
  /\ UNCHANGED <<cursor, tx, surplus>>

RemoveRow ==
  /\ Spend("edits")
  /\ \E r \in rows : rows' = rows \ {r}
  /\ UNCHANGED <<cursor, tx, adder, surplus>>

(* reorder_queue: one row to the front, positions from 0 on, the stored    *)
(* index with the current row; its UPDATE waits for a transaction that has *)
(* written the cursor.                                                     *)
Reorder ==
  /\ Spend("edits")
  /\ ~ (tx["runtime"] # Null /\ tx["runtime"].cursor # Null)
  /\ \E first \in rows :
       LET before(r) ==
             {q \in rows \ {first} : q.pos < r.pos \/ (q.pos = r.pos /\ q.id < r.id)}
           moved(r) == [r EXCEPT !.pos = IF r = first THEN 0 ELSE 1 + Cardinality(before(r))]
           current == {r \in rows : r.id = cursor.cur}
       IN  /\ rows' = {moved(r) : r \in rows}
           /\ cursor' = [cursor EXCEPT !.index =
                           IF current = {} THEN @ ELSE moved(CHOOSE r \in current : TRUE).pos]
  /\ UNCHANGED <<tx, adder, surplus>>

-----------------------------------------------------------------------------
(* Steps of the queue that are bounded, and those that only follow. *)
Begin ==
  \/ CommitCurrent
  \/ \E w \in Fillers : Refill(w) \/ Rollback(w)
  \/ AddSong
  \/ RemoveRow
  \/ Reorder

Continue ==
  \/ \E w \in Fillers : Count(w) \/ PickAndInsert(w) \/ Commit(w)
  \/ FinishCurrent
  \/ ReadPosition
  \/ InsertRow

AutoDjNext ==
  \/ ScheduleRequest /\ UNCHANGED queueVars
  \/ (\E c \in Clients : Write(c)) /\ UNCHANGED queueVars
  \/ Begin /\ UNCHANGED programme
  \/ Continue /\ UNCHANGED scheduleVars

AutoDjSpec == AutoDjInit /\ [][AutoDjNext]_autoDjVars

-----------------------------------------------------------------------------
(* A fill that adds a row never leaves more than the songs to keep ahead   *)
(* behind the current one, however the runtime's commits and refills, the  *)
(* operator's trigger and the unlocked edits interleave; rows a client     *)
(* adds after the fill has counted are not its own.  This is what the      *)
(* advisory lock of auto_fill.rs is for.                                   *)
WindowHolds == ~ surplus

(* A fill adds a song that is already on the queue, as it counted it, or   *)
(* twice only when its source offers nothing else, and a playlist played   *)
(* in order never.                                                         *)
NoNeedlessRepeat ==
  \A w \in {v \in Fillers : tx[v] # Null} :
    LET counted == tx[w].counted
        known == {r.song : r \in {q \in counted.rows : q.id = counted.cursor.cur
                                                  \/ q.id \notin counted.cursor.used}}
        added == {r.song : r \in tx[w].added}
        source == Source[tx[w].src]
    IN  added \cap known # {} \/ Cardinality(added) < Cardinality(tx[w].added)
          => /\ source.order = <<>>
             /\ UNION source.lists \subseteq known \cup added

(* The two together: no interleaving of fills, edits and commits adds too  *)
(* much or repeats a song without need.                                    *)
FillsAreSound == WindowHolds /\ NoNeedlessRepeat
=============================================================================
