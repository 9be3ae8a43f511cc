------------------------------ MODULE Sandbox ------------------------------
(***************************************************************************)
(* The sandbox of one demo account (demo.rs): a database schema, a library *)
(* of copied audio and the playlists of the account, published together as *)
(* a generation.  Administrators configure and reset it, promote, demote   *)
(* and delete the account (auth/handlers.rs), while the account sends      *)
(* requests and keeps sockets open (stations/handlers/ws.rs).              *)
(*                                                                         *)
(* Two locks keep them apart.  The slot of the account is held for reading *)
(* through a whole request and for writing through a whole change; the     *)
(* gate of a workspace is held for reading through one command of a        *)
(* socket, and for writing when the workspace is retired.                  *)
(*                                                                         *)
(* Abstractions: a change has the number of its generation and of the      *)
(* library it prepares; the transaction of install, which locks the        *)
(* account's row, is one step, and so are opening or finding a workspace   *)
(* under the slot and copying the audio; cancelling a workspace and        *)
(* closing its pool are one step under the gate.                           *)
(***************************************************************************)
EXTENDS Naturals, FiniteSets

CONSTANTS
  Admins,      \* changes under way at a time
  Requests,    \* requests of the account under way at a time
  Sockets,     \* sockets of the account
  MaxChanges,  \* bound: changes asked for
  MaxCalls,    \* bound: requests and connections of the account
  MaxFaults,   \* bound: database errors and abandoned requests
  None

ASSUME SandboxAssumption ==
  /\ {MaxChanges, MaxCalls, MaxFaults} \subseteq Nat
  /\ None \notin Admins

VARIABLES
  role,       \* of the account, or gone
  box,        \* its row of demo_sandboxes: the published generation and library
  schemas,    \* the schemas in the database
  dirs,       \* the libraries on disk
  edits,      \* the generation whose request last edited the playlists since they
              \* were copied, or 0
  slot,       \* the workspace in the registry, by generation, or 0
  lock,       \* who holds the slot for writing, or None
  cancelled,  \* the workspaces that are cancelled and closed
  change,     \* what each administrator's change does next
  request,    \* each request of the account: the workspace it got
  socket,     \* each socket of the account: the workspace it got
  stale,      \* history: the published seed was read, or its audio copied,
              \* before another change that removed the audio
  stray,      \* history: an abandoned request left a workspace that is neither in the
              \* registry nor cancelled
  left        \* what is left of the bounds

stored == <<role, box, schemas, dirs, edits>>
account == <<request, socket>>
vars == <<stored, slot, lock, cancelled, change, account, stale, stray, left>>

NoBox == [gen |-> 0, lib |-> 0]
Idle == [at |-> "idle", kind |-> "none", id |-> 0, lib |-> 0, seen |-> 0,
         old |-> NoBox, taken |-> 0, swept |-> FALSE]
Away == [at |-> "away", ws |-> 0]

Init ==
  /\ role = "demo"
  /\ box = NoBox
  /\ schemas = {}
  /\ dirs = {}
  /\ edits = 0
  /\ slot = 0
  /\ lock = None
  /\ cancelled = {}
  /\ change = [a \in Admins |-> Idle]
  /\ request = [r \in Requests |-> Away]
  /\ socket = [s \in Sockets |-> Away]
  /\ stale = FALSE
  /\ stray = FALSE
  /\ left = [changes |-> MaxChanges, calls |-> MaxCalls, faults |-> MaxFaults]

Spend(kind) == left[kind] > 0 /\ left' = [left EXCEPT ![kind] = @ - 1]

At(a, place) == change[a].at = place
Installs(a) == change[a].kind \in {"configure", "reset"}
Moved(c, place) == IF place = "idle" THEN Idle ELSE [c EXCEPT !.at = place]
Go(a, place) == change' = [change EXCEPT ![a] = Moved(@, place)]

-----------------------------------------------------------------------------
(* What administrators ask for.                                            *)

Ask(a, kind, place, lib, seen) ==
  /\ At(a, "idle")
  /\ Spend("changes")
  /\ change' = [change EXCEPT ![a] =
                  [Idle EXCEPT !.at = place, !.kind = kind, !.id = left.changes,
                               !.lib = lib, !.seen = seen]]
  /\ UNCHANGED <<box, schemas, dirs, edits, slot, lock, cancelled, account, stale, stray>>

Configure(a) ==
  /\ role = "demo"
  /\ Ask(a, "configure", "copy", left.changes, 0)
  /\ UNCHANGED role

(* The seed that is published now, to be installed again. *)
Reset(a) ==
  /\ role = "demo"
  /\ box # NoBox
  /\ Ask(a, "reset", "lock", box.lib, box.gen)
  /\ UNCHANGED role

(* update_user: the role first, and the sandbox of a demo account goes. *)
Promote(a) ==
  /\ role = "demo"
  /\ role' = "admin"
  /\ Ask(a, "promote", "lock", 0, 0)

Demote(a) ==
  /\ role = "admin"
  /\ role' = "demo"
  /\ Spend("changes")
  /\ UNCHANGED <<box, schemas, dirs, edits, slot, lock, cancelled, change, account, stale, stray>>

(* delete_user: the sandbox goes first. *)
Delete(a) ==
  /\ role # "gone"
  /\ Ask(a, "delete", "lock", 0, 0)
  /\ UNCHANGED role

-----------------------------------------------------------------------------
(* configure_inner, install and retire.                                    *)

CopyAudio(a) ==
  /\ At(a, "copy")
  /\ dirs' = dirs \cup {change[a].lib}
  /\ Go(a, "lock")
  /\ UNCHANGED <<role, box, schemas, edits, slot, lock, cancelled, account, stale, stray, left>>

LockSlotOfWriters(a) ==  \* mutant: requests do not hold the slot while they run
  /\ At(a, "lock")
  /\ lock = None
  /\ lock' = a

LockSlot(a) ==
  /\ At(a, "lock")
  /\ lock = None
  /\ \A r \in Requests : request[r].at # "running"
  /\ lock' = a

Lock(a) ==
  /\ LockSlot(a)
  /\ Go(a, IF Installs(a) THEN "provision" ELSE "revoke")
  /\ UNCHANGED <<stored, slot, cancelled, account, stale, stray, left>>

(* What follows a change that ends early: configure looks after its copy. *)
AfterFailure(a) ==
  IF change[a].kind = "configure" /\ change[a].at \in {"provision", "drop"}
  THEN "cleanup" ELSE "idle"

(* The transaction: schema, playlists and row of the new generation.       *)
Publish(a) ==
  /\ At(a, "provision")
  /\ role = "demo"
  /\ box' = [gen |-> change[a].id, lib |-> change[a].lib]
  /\ schemas' = schemas \cup {change[a].id}
  /\ edits' = 0
  /\ stale' = IF change[a].kind = "reset" THEN stale \/ box.gen # change[a].seen
              ELSE change[a].swept
  /\ change' = [change EXCEPT ![a].at = "take", ![a].old = box]
  /\ UNCHANGED <<role, dirs, slot, lock, cancelled, account, stray, left>>

Refuse(a) ==
  /\ At(a, "provision")
  /\ role # "demo"
  /\ lock' = None
  /\ Go(a, AfterFailure(a))
  /\ UNCHANGED <<stored, slot, cancelled, account, stale, stray, left>>

(* retire: the row goes before the workspace. *)
Revoke(a) ==
  /\ At(a, "revoke")
  /\ box' = NoBox
  /\ change' = [change EXCEPT ![a].at = "take", ![a].old = box]
  /\ UNCHANGED <<role, schemas, dirs, edits, slot, lock, cancelled, account, stale, stray, left>>

(* Where a change goes when the workspace is retired or there was none. *)
Released(a) == IF change[a].kind = "delete" THEN "erase" ELSE "idle"
AfterWorkspace(a) == IF change[a].old = NoBox THEN Released(a) ELSE "drop"

TakeWorkspace(a) ==
  /\ At(a, "take")
  /\ slot' = 0
  /\ change' = [change EXCEPT ![a] =
       Moved([@ EXCEPT !.taken = slot], IF slot = 0 THEN AfterWorkspace(a) ELSE "close")]
  /\ lock' = IF slot = 0 /\ AfterWorkspace(a) # "drop" THEN None ELSE lock
  /\ UNCHANGED <<stored, cancelled, account, stale, stray, left>>

(* The gate of the workspace, held for writing. *)
GateFree(a) ==
  \A s \in Sockets : ~ (socket[s].at = "command" /\ socket[s].ws = change[a].taken)

CloseWorkspace(a) ==
  /\ At(a, "close")
  /\ GateFree(a)
  /\ cancelled' = cancelled \cup {change[a].taken}
  /\ Go(a, AfterWorkspace(a))
  /\ lock' = IF AfterWorkspace(a) # "drop" THEN None ELSE lock
  /\ UNCHANGED <<stored, slot, account, stale, stray, left>>

DropSchema(a) ==
  /\ At(a, "drop")
  /\ schemas' = schemas \ {change[a].old.gen}
  /\ edits' = IF Installs(a) THEN edits ELSE 0
  /\ Go(a, "audio")
  /\ UNCHANGED <<role, box, dirs, slot, lock, cancelled, account, stale, stray, left>>

(* An install removes the library it replaces, retire every library of the *)
(* account, those that others have prepared included.                      *)
RemainingAudio(a) ==
  IF Installs(a) THEN dirs \ ({change[a].old.lib} \ {change[a].lib}) ELSE {}

RemoveAudio(a) ==
  /\ At(a, "audio")
  /\ \/ dirs' = RemainingAudio(a) /\ UNCHANGED left
     \/ UNCHANGED dirs /\ Spend("faults")  \* only logged
  /\ change' = [b \in Admins |->
       IF b = a THEN Moved(change[a], Released(a))
       ELSE [change[b] EXCEPT !.swept = @ \/ (~ At(b, "idle") /\ ~ Installs(a))]]
  /\ lock' = None
  /\ UNCHANGED <<role, box, schemas, edits, slot, cancelled, account, stale, stray>>

(* DELETE FROM users, and by its foreign key the sandbox's row. *)
Erase(a) ==
  /\ At(a, "erase")
  /\ role' = "gone"
  /\ box' = NoBox
  /\ Go(a, "idle")
  /\ UNCHANGED <<schemas, dirs, edits, slot, lock, cancelled, account, stale, stray, left>>

CleanupUnseen(a) ==  \* mutant: does not look whether the copy was published
  dirs' = dirs \ {change[a].lib}

Cleanup(a) == dirs' = IF box.lib = change[a].lib THEN dirs ELSE dirs \ {change[a].lib}

CleanUp(a) ==
  /\ At(a, "cleanup")
  /\ Cleanup(a)
  /\ Go(a, "idle")
  /\ UNCHANGED <<role, box, schemas, edits, slot, lock, cancelled, account, stale, stray, left>>

(* An error of the database.  The changes of an account run in the         *)
(* request's own task and also end, wherever they are, with its connection.*)
Fail(a) ==
  /\ \/ Installs(a) /\ change[a].at \in {"copy", "provision", "drop", "cleanup"}
     \/ ~ Installs(a) /\ ~ At(a, "idle")
  /\ Spend("faults")
  /\ lock' = IF lock = a THEN None ELSE lock
  /\ Go(a, AfterFailure(a))
  /\ stray' = (stray \/ At(a, "close"))
  /\ UNCHANGED <<stored, slot, cancelled, account, stale>>

-----------------------------------------------------------------------------
(* The account's requests and sockets.                                     *)

(* demo::workspace under the slot: the one in the registry or a new one. *)
Workspace ==
  /\ role = "demo"
  /\ box # NoBox
  /\ lock = None
  /\ \A r \in Requests : request[r].at # "running"
  /\ slot' = box.gen
  /\ Spend("calls")

Dispatch(r) ==
  /\ request[r].at = "away"
  /\ Workspace
  /\ request' = [request EXCEPT ![r] = [at |-> "admission", ws |-> slot']]
  /\ UNCHANGED <<stored, lock, cancelled, change, socket, stale, stray>>

(* The slot and the gate for reading; a cancelled workspace is refused. *)
Admit(r) ==
  /\ request[r].at = "admission"
  /\ lock = None
  /\ request' = [request EXCEPT ![r] =
       IF @.ws \in cancelled THEN Away ELSE [@ EXCEPT !.at = "running"]]
  /\ UNCHANGED <<stored, slot, lock, cancelled, change, socket, stale, stray, left>>

EditPlaylists(r) ==
  /\ request[r].at = "running"
  /\ edits' = request[r].ws
  /\ UNCHANGED <<role, box, schemas, dirs, slot, lock, cancelled, change, account, stale, stray, left>>

Respond(r) ==
  /\ request[r].at = "running"
  /\ request' = [request EXCEPT ![r] = Away]
  /\ UNCHANGED <<stored, slot, lock, cancelled, change, socket, stale, stray, left>>

Connect(s) ==
  /\ socket[s].at = "away"
  /\ Workspace
  /\ socket' = [socket EXCEPT ![s] = [at |-> "open", ws |-> slot']]
  /\ UNCHANGED <<stored, lock, cancelled, change, request, stale, stray>>

(* The role, then the gate for reading. *)
Command(s) ==
  /\ socket[s].at = "open"
  /\ role = "demo"
  /\ socket[s].ws \notin cancelled
  /\ \A a \in Admins : ~ (At(a, "close") /\ change[a].taken = socket[s].ws)
  /\ socket' = [socket EXCEPT ![s].at = "command"]
  /\ UNCHANGED <<stored, slot, lock, cancelled, change, request, stale, stray, left>>

Answer(s) ==
  /\ socket[s].at = "command"
  /\ socket' = [socket EXCEPT ![s].at = "open"]
  /\ UNCHANGED <<stored, slot, lock, cancelled, change, request, stale, stray, left>>

MustCloseForRole(s) == role # "demo"  \* mutant: sockets do not follow the workspace

MustClose(s) == role # "demo" \/ socket[s].ws \in cancelled

Close(s) ==
  /\ socket[s].at # "away"
  /\ MustClose(s)
  /\ socket' = [socket EXCEPT ![s] = Away]
  /\ UNCHANGED <<stored, slot, lock, cancelled, change, request, stale, stray, left>>

-----------------------------------------------------------------------------
Continue(a) ==
  \/ CopyAudio(a)
  \/ Lock(a)
  \/ Publish(a)
  \/ Refuse(a)
  \/ Revoke(a)
  \/ TakeWorkspace(a)
  \/ CloseWorkspace(a)
  \/ DropSchema(a)
  \/ RemoveAudio(a)
  \/ Erase(a)
  \/ CleanUp(a)

Next ==
  \/ \E a \in Admins : \/ Configure(a)
                       \/ Reset(a)
                       \/ Promote(a)
                       \/ Demote(a)
                       \/ Delete(a)
                       \/ Continue(a)
                       \/ Fail(a)
  \/ \E r \in Requests : \/ Dispatch(r)
                         \/ Admit(r)
                         \/ EditPlaylists(r)
                         \/ Respond(r)
  \/ \E s \in Sockets : \/ Connect(s)
                        \/ Command(s)
                        \/ Answer(s)
                        \/ Close(s)

Spec == Init /\ [][Next]_vars

(* A change goes on: the locks of tokio are first come, first served.  A   *)
(* request is admitted and answered, a command ends, and a socket looks at *)
(* its workspace and every second at the role.                             *)
FairSpec ==
  /\ Spec
  /\ \A a \in Admins : SF_vars(Continue(a))
  /\ \A r \in Requests : SF_vars(Admit(r)) /\ WF_vars(Respond(r))
  /\ \A s \in Sockets : WF_vars(Answer(s)) /\ WF_vars(Close(s))

-----------------------------------------------------------------------------
Faulty == left.faults # MaxFaults

(* A request or a command that was admitted works on an open pool and an   *)
(* existing schema to its end, whatever change is asked for meanwhile: the *)
(* order of slot, gate and cancellation in demo.rs.                        *)
AdmittedIsServed ==
  LET inside == {request[r].ws : r \in {q \in Requests : request[q].at = "running"}}
                \cup {socket[s].ws : s \in {t \in Sockets : socket[t].at = "command"}}
  IN  inside \subseteq schemas \ cancelled

(* The playlists of a published sandbox are those of its seed or edits     *)
(* made in it: a request of the generation before never writes into the    *)
(* new one, though both write the same tables.  When a promotion or a      *)
(* deletion is abandoned while it waits for the gate, its workspace stays  *)
(* open, and nobody cancels it any more.                                   *)
EditsOfThisGeneration == edits # 0 /\ box # NoBox => edits = box.gen \/ stray

(* The two together: a request works in the sandbox it was admitted to and *)
(* in no other, whatever is promoted or deleted around it.                 *)
RequestsStayInside == AdmittedIsServed /\ EditsOfThisGeneration

(* A published sandbox has its schema and its audio, also when changes     *)
(* fail half-way and clean up, unless what was published had been read or  *)
(* copied before another change removed it.                                *)
PublishedIsWhole ==
  box # NoBox => box.gen \in schemas /\ (box.lib \in dirs \/ stale)

(* Without faults, nothing of an account's earlier sandboxes is left when  *)
(* its changes have ended, however they crossed.  Deleting the account may *)
(* cross a configure between retire and the DELETE, which leaves both.     *)
NothingLeftBehind ==
  ~ Faulty /\ role # "gone" /\ (\A a \in Admins : At(a, "idle")) =>
    schemas = {box.gen} \ {0} /\ dirs \subseteq {box.lib}

(* The two together: a published sandbox has all it needs and an abandoned *)
(* one keeps nothing.                                                      *)
SandboxesAreWhole == PublishedIsWhole /\ NothingLeftBehind

(* A socket of a sandbox that is no longer the published one is closed: no *)
(* change waits for ever for a lock, and every cancellation is heard.      *)
SocketsFollow ==
  \A s \in Sockets :
    socket[s].at # "away" /\ socket[s].ws # box.gen ~> socket[s].at = "away" \/ Faulty

=============================================================================
