------------------------------ MODULE Library ------------------------------
(***************************************************************************)
(* The song library of surcast: the audio files of the music directory,    *)
(* the rows of the table songs that describe them and the rows of          *)
(* library_files by which the scanner remembers what it has seen           *)
(* (songs/scan.rs, import.rs, files.rs, handlers/, repository.rs).         *)
(*                                                                         *)
(* Nothing orders these three: a scan, the requests of the panel and the   *)
(* people who copy, replace, rename and remove files behind its back run   *)
(* at the same time, each statement and each file operation by itself.     *)
(*                                                                         *)
(* A file is its content (an Audio, which is also its hash) and a stamp    *)
(* that stands for size and modification time.  A path stands for a file   *)
(* or a folder of one file.  Metadata, covers, queues and the stations a   *)
(* song is assigned to are left out.                                       *)
(***************************************************************************)
EXTENDS Naturals, FiniteSets, Functions

CONSTANTS Path, Audio,
          Scanner,      \* the scans that may run at the same time
          Client,       \* the requests that may run at the same time
          NoSong,       \* the NULL of library_files.song_id
          MaxSongs,     \* bound on the rows of songs ever inserted
          MaxActs       \* bound on what happens besides scans

ASSUME LibraryAssumption ==
    /\ MaxSongs \in Nat \ {0} /\ MaxActs \in Nat
    /\ NoSong \notin Nat

VARIABLES
    disk,       \* path -> file, for the paths that exist
    fresh,      \* paths written less than SCAN_STABLE_SECS ago
    songs,      \* id -> row of songs; a larger id was created later
    tracked,    \* path -> row of library_files
    throttled,  \* the last scan ended less than SCAN_THROTTLE_SECS ago
    scan,       \* what each scan knows and where it is
    client,     \* what each request knows and where it is
    born,       \* the number of songs ever inserted
    writes,     \* the number of stamps ever given to files
    acts,       \* the number of writes, requests and failures so far
    quiet,      \* history: the scans nobody has disturbed so far
    settled,    \* history: undisturbed scans in a row, and nothing but scans since
    overlap,    \* history: somebody acted while a scan was under way
    copied      \* history: songs a row of library_files had under another path

libraryVars == <<disk, fresh, songs, tracked, throttled, scan, client,
                 born, writes, acts, quiet, settled, overlap, copied>>

SongId == 1..MaxSongs

NoScan == [at |-> "idle"]
NoRequest == [at |-> "idle"]

LibraryInit ==
    /\ \E p \in Path, a \in Audio : disk = [q \in {p} |-> [hash |-> a, stamp |-> 0]]
    /\ songs = <<>> /\ tracked = <<>> /\ born = 0
    /\ fresh = {} /\ throttled = FALSE
    /\ scan = [s \in Scanner |-> NoScan]
    /\ client = [c \in Client |-> NoRequest]
    /\ writes = 0 /\ acts = 0
    /\ quiet = {} /\ settled = 0 /\ overlap = FALSE /\ copied = {}

-----------------------------------------------------------------------------
(* Statements and file operations. *)

Without(f, S) == Restrict(f, DOMAIN f \ S)
With(f, x, v) == [y \in DOMAIN f \cup {x} |-> IF y = x THEN v ELSE f[y]]

(* SELECT ... WHERE audio_hash = $1 ORDER BY created_at ASC LIMIT 1 *)
WithHash(h) == {i \in DOMAIN songs : songs[i].hash = h}
Oldest(S) == CHOOSE i \in S : \A j \in S : i <= j

(* Deleting songs cascades: the scanner's rows forget them (SET NULL). *)
Forget(rows, ids) ==
    [p \in DOMAIN rows |->
        IF rows[p].song \in ids THEN [rows[p] EXCEPT !.song = NoSong] ELSE rows[p]]

Row(i, h, stamp) == [song |-> i, hash |-> h, stamp |-> stamp]

Present(i) ==      \* clear_song_missing
    [songs EXCEPT ![i].missing = FALSE]

(* INSERT INTO songs: a new row with a new id. *)
Insert(p, h) ==
    /\ born < MaxSongs
    /\ born' = born + 1
    /\ songs' = With(songs, born', [path |-> p, hash |-> h, missing |-> FALSE])

(* The file of p takes the place of what q was. *)
Rename(p, q) ==
    /\ disk' = With(Without(disk, {p}), q, disk[p])
    /\ fresh' = (fresh \ {p, q}) \cup (IF p \in fresh THEN {q} ELSE {})

Interfere ==
    /\ quiet' = {} /\ settled' = 0
    /\ overlap' = (overlap \/ \E s \in Scanner : scan[s].at # "idle")

Disturb == Interfere /\ UNCHANGED copied

-----------------------------------------------------------------------------
(* The scan. *)

ScanGoesTo(s, r) == scan' = [scan EXCEPT ![s] = r]

(* An error anywhere ends the scan: nothing is undone and the time of the  *)
(* last scan is not written.                                               *)
Abort(s) ==
    /\ ScanGoesTo(s, NoScan)
    /\ UNCHANGED <<disk, fresh, songs, tracked, throttled, client, born, writes,
                   acts, quiet, settled, overlap, copied>>

(* What a scan keeps while it goes through the files, and what it has of   *)
(* the one it works on.                                                    *)
Looking(s, todo, gone) ==
    [at |-> "files", seen |-> scan[s].seen, known |-> scan[s].known, todo |-> todo, gone |-> gone]

Working(s, at, p, h, song) ==
    [at |-> at, seen |-> scan[s].seen, known |-> scan[s].known, todo |-> scan[s].todo,
     gone |-> scan[s].gone, path |-> p, hash |-> h, song |-> song]

Done(s, p) == ScanGoesTo(s, Looking(s, scan[s].todo \ {p}, scan[s].gone))

(* upsert_library_file, which is the last statement for a file, or the     *)
(* error of the foreign key.                                               *)
Upsert(s, p, row, rows) ==
    /\ IF row.song = NoSong \/ row.song \in DOMAIN songs
       THEN tracked' = With(rows, p, row) /\ Done(s, p)
       ELSE tracked' = rows /\ ScanGoesTo(s, NoScan)
    /\ copied' = IF row.song \in DOMAIN songs /\ songs'[row.song].path # p
                 THEN copied \cup {row.song} ELSE copied

ScanFrame == UNCHANGED <<disk, fresh, throttled, client, writes, acts,
                         quiet, settled, overlap>>

(* The throttle, the listing of the disk and the moment that decides which *)
(* files are stable.                                                       *)
StartScan(s) ==
    /\ scan[s].at = "idle"
    /\ ~throttled
    /\ ScanGoesTo(s, [at |-> "listed",
                      seen |-> [p \in DOMAIN disk |->
                        [stamp |-> disk[p].stamp, stable |-> p \notin fresh]]])
    /\ quiet' = IF /\ fresh = {}
                   /\ \A c \in Client : client[c].at = "idle"
                   /\ \A t \in Scanner : scan[t].at = "idle"
                THEN {s} ELSE {}
    /\ UNCHANGED <<disk, fresh, songs, tracked, throttled, client, born, writes,
                   acts, settled, overlap, copied>>

ReadKnown(s) ==
    /\ scan[s].at = "listed"
    /\ ScanGoesTo(s, [at |-> "files", seen |-> scan[s].seen, known |-> tracked,
                      todo |-> DOMAIN scan[s].seen,
                      gone |-> DOMAIN tracked \ DOMAIN scan[s].seen])
    /\ UNCHANGED <<songs, tracked, born, copied>> /\ ScanFrame

Untouched(s, p) ==
    /\ p \in DOMAIN scan[s].known
    /\ scan[s].known[p].stamp = scan[s].seen[p].stamp

(* The file is as the scanner remembers it: its song is back if it was     *)
(* missing, and the row is written again as it was read.                   *)
ScanUntouched(s, p) ==
    /\ scan[s].at = "files" /\ p \in scan[s].todo
    /\ Untouched(s, p)
    /\ LET row == scan[s].known[p] IN
        /\ songs' = IF row.song \in DOMAIN songs THEN Present(row.song) ELSE songs
        /\ Upsert(s, p, row, tracked)
    /\ UNCHANGED born /\ ScanFrame

(* The file may still be written: the next scan will look at it.           *)
ScanUnstable(s, p) ==
    /\ scan[s].at = "files" /\ p \in scan[s].todo
    /\ ~Untouched(s, p) /\ ~scan[s].seen[p].stable
    /\ Done(s, p)
    /\ UNCHANGED <<songs, tracked, born, copied>> /\ ScanFrame

Hash(s, p) ==
    /\ scan[s].at = "files" /\ p \in scan[s].todo
    /\ ~Untouched(s, p) /\ scan[s].seen[p].stable
    /\ ScanGoesTo(s, IF p \in DOMAIN disk
                     THEN Working(s, "hashed", p, disk[p].hash, NoSong) ELSE NoScan)
    /\ UNCHANGED <<songs, tracked, born, copied>> /\ ScanFrame

(* A known path with other content.                                        *)
ResolveKnown(s) ==
    LET p == scan[s].path   row == scan[s].known[p]   h == scan[s].hash IN
    /\ scan[s].at = "hashed"
    /\ p \in DOMAIN scan[s].known
    /\ UNCHANGED <<songs, born>>
    /\ \/ /\ h = row.hash
          /\ Upsert(s, p, Row(row.song, h, scan[s].seen[p].stamp), tracked)
       \/ /\ h # row.hash
          /\ ScanGoesTo(s, Working(s, IF row.song \in DOMAIN songs THEN "refresh" ELSE "import",
                                   p, h, NoSong))
          /\ UNCHANGED <<tracked, copied>>
    /\ ScanFrame

(* An unknown path: a rename when the song's own file is gone from the     *)
(* listing, a copy when it is there, the song's own file, or a new song.   *)
ResolveUnknown(s) ==
    LET p == scan[s].path   h == scan[s].hash   stamp == scan[s].seen[p].stamp
        found == WithHash(h)                    i == Oldest(found) IN
    /\ scan[s].at = "hashed"
    /\ p \notin DOMAIN scan[s].known
    /\ \/ /\ found # {} /\ songs[i].path \notin DOMAIN scan[s].seen
          /\ songs' = [songs EXCEPT ![i].path = p, ![i].missing = FALSE]
          /\ Upsert(s, p, Row(i, h, stamp), Without(tracked, {songs[i].path}))
       \/ /\ found # {} /\ songs[i].path \in DOMAIN scan[s].seen \ {p}
          /\ UNCHANGED songs
          /\ Upsert(s, p, Row(i, h, stamp), tracked)
       \/ /\ found # {} /\ songs[i].path = p
          /\ songs' = Present(i)
          /\ Upsert(s, p, Row(i, h, stamp), tracked)
       \/ /\ found = {}
          /\ ScanGoesTo(s, Working(s, "import", p, h, NoSong))
          /\ UNCHANGED <<songs, tracked, copied>>
    /\ UNCHANGED born /\ ScanFrame

\* Mutant of Refresh: the song keeps its old hash.
RefreshKeepsHash(s) ==
    LET p == scan[s].path   i == scan[s].known[p].song IN
    /\ scan[s].at = "refresh"
    /\ p \in DOMAIN disk
    /\ songs' = IF i \in DOMAIN songs THEN Present(i) ELSE songs
    /\ Upsert(s, p, Row(i, scan[s].hash, scan[s].seen[p].stamp), tracked)
    /\ UNCHANGED born /\ ScanFrame

(* The song of a changed path is described anew from what the file now     *)
(* holds; the tracking row keeps the hash and the stamp read before.       *)
Refresh(s) ==
    LET p == scan[s].path   i == scan[s].known[p].song IN
    /\ scan[s].at = "refresh"
    /\ p \in DOMAIN disk
    /\ songs' = IF i \in DOMAIN songs
                THEN [songs EXCEPT ![i].hash = disk[p].hash, ![i].missing = FALSE]
                ELSE songs
    /\ Upsert(s, p, Row(i, scan[s].hash, scan[s].seen[p].stamp), tracked)
    /\ UNCHANGED born /\ ScanFrame

(* import_song_file: the file is hashed again and looked up once more.     *)
ImportCheck(s) ==
    /\ scan[s].at = "import"
    /\ scan[s].path \in DOMAIN disk
    /\ LET p == scan[s].path   h == disk[p].hash IN
        ScanGoesTo(s, IF WithHash(h) = {} THEN Working(s, "insert", p, h, NoSong)
                      ELSE Working(s, "track", p, h, Oldest(WithHash(h))))
    /\ UNCHANGED <<songs, tracked, born, copied>> /\ ScanFrame

ImportInsert(s) ==
    /\ scan[s].at = "insert"
    /\ Insert(scan[s].path, scan[s].hash)
    /\ ScanGoesTo(s, Working(s, "track", scan[s].path, scan[s].hash, born'))
    /\ UNCHANGED <<tracked, copied>> /\ ScanFrame

(* The new row of the scanner takes size, time and hash from the file as   *)
(* it is after the import.                                                 *)
Track(s) ==
    /\ scan[s].at = "track"
    /\ scan[s].path \in DOMAIN disk
    /\ UNCHANGED <<songs, born>>
    /\ LET f == disk[scan[s].path] IN
        Upsert(s, scan[s].path, Row(scan[s].song, f.hash, f.stamp), tracked)
    /\ ScanFrame

FileVanished(s) ==
    /\ scan[s].at \in {"refresh", "import", "track"}
    /\ scan[s].path \notin DOMAIN disk
    /\ Abort(s)

\* Mutant of Gone: the row of a path that lost its song stays.
GoneKeepsRow(s, p) ==
    LET i == scan[s].known[p].song IN
    /\ scan[s].at = "files" /\ scan[s].todo = {}
    /\ p \in scan[s].gone
    /\ songs' = IF i \in DOMAIN songs /\ songs[i].path = p
                THEN [songs EXCEPT ![i].missing = TRUE] ELSE songs
    /\ ScanGoesTo(s, Looking(s, {}, scan[s].gone \ {p}))
    /\ UNCHANGED <<tracked, born, copied>> /\ ScanFrame

(* A known path that was not listed: its song is missing when the path is  *)
(* still the song's own; without a song the row is dropped.                *)
Gone(s, p) ==
    LET i == scan[s].known[p].song IN
    /\ scan[s].at = "files" /\ scan[s].todo = {}
    /\ p \in scan[s].gone
    /\ IF i \in DOMAIN songs
       THEN /\ songs' = IF songs[i].path = p
                        THEN [songs EXCEPT ![i].missing = TRUE] ELSE songs
            /\ UNCHANGED tracked
       ELSE tracked' = Without(tracked, {p}) /\ UNCHANGED songs
    /\ ScanGoesTo(s, Looking(s, {}, scan[s].gone \ {p}))
    /\ UNCHANGED <<born, copied>> /\ ScanFrame

(* The scan is over and says so.                                           *)
FinishScan(s) ==
    /\ scan[s].at = "files" /\ scan[s].todo = {} /\ scan[s].gone = {}
    /\ throttled' = TRUE
    /\ ScanGoesTo(s, NoScan)
    /\ settled' = IF s \notin quiet THEN 0 ELSE IF settled = 2 THEN 2 ELSE settled + 1
    /\ quiet' = quiet \ {s}
    /\ UNCHANGED <<disk, fresh, songs, tracked, client, born, writes, acts, overlap, copied>>

ScanStep(s) ==
    \/ StartScan(s) \/ ReadKnown(s)
    \/ \E p \in Path : ScanUntouched(s, p) \/ ScanUnstable(s, p) \/ Hash(s, p) \/ Gone(s, p)
    \/ ResolveKnown(s) \/ ResolveUnknown(s)
    \/ Refresh(s) \/ ImportCheck(s) \/ ImportInsert(s) \/ Track(s)
    \/ FileVanished(s) \/ FinishScan(s)

-----------------------------------------------------------------------------
(* The requests of the panel. *)

ClientGoesTo(c, r) == client' = [client EXCEPT ![c] = r]

Request(c, r) ==
    /\ client[c].at = "idle"
    /\ acts < MaxActs
    /\ acts' = acts + 1
    /\ ClientGoesTo(c, r)
    /\ UNCHANGED <<disk, fresh, songs, tracked, throttled, scan, born, writes>>

ClientFrame == UNCHANGED <<throttled, scan, writes, acts>>

Upload(at, p, a, force) == [at |-> at, path |-> p, hash |-> a, force |-> force]

AskUpload(c) ==                 \* start_upload, upload_song
    \E p \in Path, a \in Audio, force \in BOOLEAN : Request(c, Upload("store", p, a, force))

AskDelete(c) ==                 \* delete_song finds the song
    \E i \in DOMAIN songs : Request(c, [at |-> "delete", rows |-> [j \in {i} |-> songs[j].path]])

AskDeleteFile(c) ==             \* delete_file finds the songs of the path
    \E p \in Path :
        Request(c, [at |-> "delete_file", path |-> p,
                    ids |-> {i \in DOMAIN songs : songs[i].path = p}])

AskPurge(c) ==                  \* purge_missing finds the missing songs
    LET missing == {i \in DOMAIN songs : songs[i].missing} IN
    Request(c, [at |-> "purge", rows |-> [i \in missing |-> songs[i].path]])

AskMove(c) ==                   \* move_entry looks at both ends
    \E p \in DOMAIN disk, q \in Path \ DOMAIN disk :
        Request(c, [at |-> "move", path |-> p, to |-> q])

(* store_upload_bytes: a free name is taken, a file with the same content  *)
(* is used as it is, for another content the next name is tried.           *)
Store(c) ==
    /\ client[c].at = "store"
    /\ LET p == client[c].path   a == client[c].hash   force == client[c].force IN
       \/ /\ p \notin DOMAIN disk
          /\ disk' = With(disk, p, [hash |-> a, stamp |-> writes + 1])
          /\ writes' = writes + 1
          /\ fresh' = fresh \cup {p}
          /\ ClientGoesTo(c, Upload("import", p, a, force))
       \/ /\ p \in DOMAIN disk /\ disk[p].hash = a
          /\ ClientGoesTo(c, Upload("import", p, a, force))
          /\ UNCHANGED <<disk, writes, fresh>>
       \/ /\ p \in DOMAIN disk /\ disk[p].hash # a
          /\ \E q \in Path \ {p} : ClientGoesTo(c, Upload("store", q, a, force))
          /\ UNCHANGED <<disk, writes, fresh>>
    /\ UNCHANGED <<songs, tracked, throttled, scan, born, acts>>

(* import_song_file for the request; the scanner's table is not touched.   *)
UploadCheck(c) ==
    /\ client[c].at = "import"
    /\ LET p == client[c].path IN
        ClientGoesTo(c,
            IF p \in DOMAIN disk /\ (client[c].force \/ WithHash(disk[p].hash) = {})
            THEN [at |-> "insert", path |-> p, hash |-> disk[p].hash]
            ELSE NoRequest)
    /\ UNCHANGED <<disk, fresh, songs, tracked, born>> /\ ClientFrame

UploadInsert(c) ==
    /\ client[c].at = "insert"
    /\ Insert(client[c].path, client[c].hash)
    /\ ClientGoesTo(c, NoRequest)
    /\ UNCHANGED <<disk, fresh, tracked>> /\ ClientFrame

(* delete_songs_globally: one transaction.                                 *)
DeleteRows(ids) ==
    /\ songs' = Without(songs, ids)
    /\ tracked' = Forget(tracked, ids)

DeleteSongs(c) ==
    /\ client[c].at = "delete"
    /\ DeleteRows(DOMAIN client[c].rows)
    /\ ClientGoesTo(c, [at |-> "count", rows |-> client[c].rows])
    /\ UNCHANGED <<disk, fresh, born>> /\ ClientFrame

(* unlink_song_files: is the file of another song?                         *)
CountOthers(c, i) ==
    /\ client[c].at = "count"
    /\ i \in DOMAIN client[c].rows
    /\ ClientGoesTo(c,
        IF \E j \in DOMAIN songs \ {i} : songs[j].path = client[c].rows[i]
        THEN NoRequest
        ELSE [at |-> "unlink", rows |-> client[c].rows])
    /\ UNCHANGED <<disk, fresh, songs, tracked, born>> /\ ClientFrame

Unlink(c, i) ==
    /\ client[c].at = "unlink"
    /\ i \in DOMAIN client[c].rows
    /\ disk' = Without(disk, {client[c].rows[i]})
    /\ fresh' = fresh \ {client[c].rows[i]}
    /\ tracked' = Without(tracked, {client[c].rows[i]})
    /\ ClientGoesTo(c, NoRequest)
    /\ UNCHANGED <<songs, born>> /\ ClientFrame

RemoveFile(c) ==
    /\ client[c].at = "delete_file"
    /\ ClientGoesTo(c, IF client[c].path \in DOMAIN disk
                       THEN [at |-> "delete_found", path |-> client[c].path, ids |-> client[c].ids]
                       ELSE NoRequest)
    /\ disk' = Without(disk, {client[c].path})
    /\ fresh' = fresh \ {client[c].path}
    /\ UNCHANGED <<songs, tracked, born>> /\ ClientFrame

DeleteFound(c) ==
    /\ client[c].at = "delete_found"
    /\ songs' = Without(songs, client[c].ids)
    /\ tracked' = Without(Forget(tracked, client[c].ids), {client[c].path})
    /\ ClientGoesTo(c, NoRequest)
    /\ UNCHANGED <<disk, fresh, born>> /\ ClientFrame

Purge(c) ==
    /\ client[c].at = "purge"
    /\ songs' = Without(songs, DOMAIN client[c].rows)
    /\ tracked' = Without(Forget(tracked, DOMAIN client[c].rows), Range(client[c].rows))
    /\ ClientGoesTo(c, NoRequest)
    /\ UNCHANGED <<disk, fresh, born>> /\ ClientFrame

(* A move is a transaction: its statements choose the rows of the path and *)
(* what the scanner knows of both ends, then the file is renamed, and the  *)
(* commit shows the rows.  Until then they are locked: a statement that    *)
(* would write one of them waits, one that adds others does not.           *)
Moving(c) == client[c].at = "moved"
Held(c) ==                      \* the paths whose rows of library_files it holds
    client[c].known \cup (IF client[c].path \in client[c].known THEN {client[c].to} ELSE {})

RowLocks ==
    \A c \in Client : Moving(c) /\ client'[c] = client[c] =>
        /\ client[c].rows \subseteq DOMAIN songs'
        /\ \A i \in client[c].rows : songs'[i] = songs[i]
        /\ Restrict(tracked', DOMAIN tracked' \cap Held(c))
              = Restrict(tracked, DOMAIN tracked \cap Held(c))

(* When the rename fails nothing happens.                                  *)
MoveFile(c) ==
    LET p == client[c].path   q == client[c].to
        rows == {i \in DOMAIN songs : songs[i].path = p} IN
    /\ client[c].at = "move"
    /\ \A d \in Client : Moving(d) => rows \cap client[d].rows = {} /\ {p, q} \cap Held(d) = {}
    /\ IF p \in DOMAIN disk
       THEN /\ Rename(p, q)
            /\ ClientGoesTo(c, [at |-> "moved", path |-> p, to |-> q,
                                rows |-> rows, known |-> DOMAIN tracked \cap {p, q}])
       ELSE ClientGoesTo(c, NoRequest) /\ UNCHANGED <<disk, fresh>>
    /\ UNCHANGED <<songs, tracked, born>> /\ ClientFrame

(* A row that another statement has added for the old path meanwhile stays *)
(* there, with a song that has moved away.                                 *)
CommitMove(c) ==
    LET p == client[c].path   q == client[c].to
        known == DOMAIN tracked \cap client[c].known IN
    /\ Moving(c)
    /\ songs' = [i \in DOMAIN songs |->
                    IF i \in client[c].rows THEN [songs[i] EXCEPT !.path = q] ELSE songs[i]]
    /\ tracked' = IF p \in known
                  THEN With(Without(tracked, {p}), q, tracked[p])
                  ELSE Without(tracked, known)
    /\ copied' = copied \cup {i \in DOMAIN songs :
                    \E u \in DOMAIN tracked' : tracked'[u].song = i /\ songs'[i].path # u}
    /\ ClientGoesTo(c, NoRequest)
    /\ UNCHANGED <<disk, fresh, born>> /\ ClientFrame

(* The commit fails and the file is renamed back.                          *)
UndoMove(c) ==
    LET p == client[c].path   q == client[c].to IN
    /\ Moving(c)
    /\ acts < MaxActs
    /\ acts' = acts + 1
    /\ IF q \in DOMAIN disk
       THEN Rename(q, p) ELSE UNCHANGED <<disk, fresh>>
    /\ ClientGoesTo(c, NoRequest)
    /\ UNCHANGED <<songs, tracked, throttled, scan, born, writes>>

ClientStep(c) ==
    \/ Interfere /\ CommitMove(c)
    \/ /\ Disturb
       /\ \/ AskUpload(c) \/ AskDelete(c) \/ AskDeleteFile(c) \/ AskPurge(c) \/ AskMove(c)
          \/ Store(c) \/ UploadCheck(c) \/ UploadInsert(c)
          \/ DeleteSongs(c) \/ RemoveFile(c) \/ DeleteFound(c) \/ Purge(c)
          \/ \E i \in SongId : CountOthers(c, i) \/ Unlink(c, i)
          \/ MoveFile(c) \/ UndoMove(c)

-----------------------------------------------------------------------------
(* Everybody else with access to the music directory. *)

OutsideFrame == UNCHANGED <<songs, tracked, throttled, scan, client, born>>

WriteFile(p) ==
    /\ writes' = writes + 1
    /\ \E a \in Audio : disk' = With(disk, p, [hash |-> a, stamp |-> writes'])
    /\ fresh' = fresh \cup {p}
    /\ OutsideFrame

DropFile(p) ==
    /\ p \in DOMAIN disk
    /\ UNCHANGED writes
    /\ disk' = Without(disk, {p})
    /\ fresh' = fresh \ {p}
    /\ OutsideFrame

RenameFile(p, q) ==
    /\ p \in DOMAIN disk /\ q # p
    /\ UNCHANGED writes
    /\ Rename(p, q)
    /\ OutsideFrame

Outside ==
    /\ Disturb
    /\ acts < MaxActs
    /\ acts' = acts + 1
    /\ \E p \in Path : WriteFile(p) \/ DropFile(p) \/ \E q \in Path : RenameFile(p, q)

(* A minute goes by in which nothing is written.                           *)
TimePasses ==
    /\ throttled \/ fresh # {}
    /\ throttled' = FALSE /\ fresh' = {}
    /\ UNCHANGED <<disk, songs, tracked, scan, client, born, writes, acts,
                   quiet, settled, overlap, copied>>

(* The process dies and starts again: disk and database stay.              *)
Crash ==
    /\ acts < MaxActs
    /\ acts' = acts + 1
    /\ scan' = [s \in Scanner |-> NoScan]
    /\ client' = [c \in Client |-> NoRequest]
    /\ Disturb
    /\ UNCHANGED <<disk, fresh, songs, tracked, throttled, born, writes>>

LibraryNext ==
    /\ \/ \E s \in Scanner : ScanStep(s)
       \/ \E c \in Client : ClientStep(c)
       \/ Outside \/ TimePasses \/ Crash
    /\ RowLocks

LibrarySpec == LibraryInit /\ [][LibraryNext]_libraryVars

-----------------------------------------------------------------------------
(* Properties. *)

(* Every variable stays in its type. *)
TypeOK ==
    /\ DOMAIN disk \subseteq Path /\ fresh \subseteq DOMAIN disk
    /\ \A p \in DOMAIN disk : disk[p] \in [hash : Audio, stamp : 0..writes]
    /\ DOMAIN songs \subseteq 1..born
    /\ \A i \in DOMAIN songs :
        songs[i] \in [path : Path, hash : Audio, missing : BOOLEAN]
    /\ DOMAIN tracked \subseteq Path
    /\ \A p \in DOMAIN tracked :
        tracked[p] \in [song : DOMAIN songs \cup {NoSong}, hash : Audio, stamp : 0..writes]


(* What the scanner remembers of a song's own path is about this song.     *)
Own(i) == songs[i].path \in DOMAIN tracked /\ tracked[songs[i].path].song = i

ScansAtRest == \A s \in Scanner : scan[s].at = "idle"

(* Whatever ran at the same time before, a scan that nobody disturbs       *)
(* leaves every file remembered as it now is, and remembers a path without *)
(* a file only for a song (scan_library; so the next scan is cheap and     *)
(* nothing changed is overlooked).                                         *)
NothingEscapesTheScan ==
    settled > 0 =>
        /\ \A p \in DOMAIN disk :
            p \in DOMAIN tracked /\ tracked[p].stamp = disk[p].stamp
        /\ \A p \in DOMAIN tracked \ DOMAIN disk : tracked[p].song # NoSong

(* Whatever ran at the same time before, a song whose own path the scanner *)
(* remembers is flagged after one undisturbed scan when its file is gone,  *)
(* and after a second one only then (mark_song_missing, clear_song_missing:*)
(* a file that came back with another time takes two scans).               *)
MissingIsTrue ==
    ScansAtRest => \A i \in DOMAIN songs : Own(i) =>
        /\ settled > 0 /\ songs[i].path \notin DOMAIN disk => songs[i].missing
        /\ settled > 1 /\ songs[i].missing => songs[i].path \notin DOMAIN disk

(* The two together: one undisturbed scan brings the table up to the       *)
(* folder, in both directions.                                             *)
ScanIsComplete == TypeOK /\ NothingEscapesTheScan /\ MissingIsTrue

(* When nobody interferes with a scan, a song whose own path the scanner   *)
(* remembers is described by the file it plays once a scan has ended       *)
(* (refresh_track), unless the file of another path has described it.      *)
Described(i) ==
    songs[i].path \in DOMAIN disk => disk[songs[i].path].hash = songs[i].hash

DescribedByOwnFile ==
    ScansAtRest /\ settled > 0 /\ ~overlap =>
        \A i \in DOMAIN songs : Own(i) /\ i \notin copied => Described(i)

=============================================================================
