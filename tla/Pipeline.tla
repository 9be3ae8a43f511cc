------------------------------ MODULE Pipeline ------------------------------
(***************************************************************************)
(* The GStreamer pipeline of a station (streamer/gstreamer): the plan on   *)
(* the air, the registry of decode branches, and the operations the        *)
(* executor runs one after the other, each in the steps between which the  *)
(* streaming threads and the bus act: a handover at the clock gate, the    *)
(* end of the stream, the error of an element.                             *)
(*                                                                         *)
(* A branch is known by its track and the generation it was built for.     *)
(* Times, volumes and offsets are in Transition.tla, the sink and its      *)
(* reconnection in Reconnect.tla; one output epoch is modelled.            *)
(***************************************************************************)
EXTENDS Naturals, FiniteSets

CONSTANTS
  Tracks,     \* queue items that can be staged
  None,       \* no track
  MaxGens,    \* bound: generations
  MaxRolls,   \* bound: rolls
  MaxFaults,  \* bound: calls of the graph that fail
  MaxErrors   \* bound: errors of elements and ends of stream

ASSUME PipelineAssumption ==
  /\ None \notin Tracks
  /\ {MaxGens, MaxRolls, MaxFaults, MaxErrors} \subseteq Nat

VARIABLES
  active,     \* ActivePlan: generation, current and next track
  live,       \* the registry: the branches of the plan,
  preparing,  \* the candidates,
  retiring,   \* and the branches being taken down
  failed,     \* candidates whose decoding failed
  attached,   \* branches whose elements are in the graph
  stray,      \* whether an attach that failed half-way left elements there
              \* that no branch owns
  state,      \* the state the snapshot tells
  req,        \* the operation at work, as it was asked for
  verdict,    \* what has become of it
  at,         \* the step it is about to take
  cands,      \* the candidates it holds
  obsolete,   \* the branches it is about to discard
  prev,       \* the state to restore
  cancelled,  \* ReplaceCancellation: whether it was cancelled
  blame,      \* history: what the last error came from and was taken for
  left        \* what is left of the bounds

registry == <<live, preparing, retiring, failed, attached, stray>>
holding == <<cands, obsolete>>
vars == <<active, registry, state, req, verdict, at, holding, prev, cancelled, blame, left>>

NoPlan == [gen |-> 0, cur |-> None, next |-> None]
NoRequest == [kind |-> "none", gen |-> 0, cur |-> None, next |-> None,
              expGen |-> 0, expCur |-> None, expNext |-> None]

Init ==
  /\ active = NoPlan
  /\ live = {} /\ preparing = {} /\ retiring = {} /\ failed = {} /\ attached = {}
  /\ stray = FALSE
  /\ state = "stopped"
  /\ req = NoRequest /\ verdict = "adopted" /\ at = "idle"
  /\ cands = {} /\ obsolete = {}
  /\ prev = "stopped"
  /\ cancelled = "no"
  /\ blame = [from |-> "none", as |-> "none"]
  /\ left = [gens |-> MaxGens, rolls |-> MaxRolls, faults |-> MaxFaults, errors |-> MaxErrors]

Spend(kind) == left[kind] > 0 /\ left' = [left EXCEPT ![kind] = @ - 1]

Branch(track, gen) == [track |-> track, gen |-> gen]
Replacing == req.kind \in {"initial", "active"}

-----------------------------------------------------------------------------
(* The checks of the operations.                                           *)

FitsReplace(r) ==
  \/ r.kind = "initial" /\ active = NoPlan
  \/ r.kind = "active" /\ active # NoPlan /\ active.gen = r.expGen /\ active.cur = r.expCur

(* matches_plan: an attach expects no next track, the others a named one.  *)
FitsRoll(r) ==
  active # NoPlan /\ active.gen = r.gen /\ active.cur = r.cur /\ active.next = r.expNext

(* Mutant: the flag is looked up among the live. *)
NoneFailedLive == cands \cap live \cap failed = {}

NoneFailed == cands \cap preparing \cap failed = {}
Sound == cancelled = "no" /\ NoneFailed

-----------------------------------------------------------------------------
(* Parts of operations.                                                    *)

(* Mutant: candidates are unregistered, but stay in the graph. *)
ForgetCandidates(branches, then) ==
  /\ preparing' = preparing \ branches
  /\ cands' = cands \ branches
  /\ at' = then
  /\ UNCHANGED <<live, retiring, failed, attached, stray, obsolete>>

(* The candidates leave the list of the preparing and are discarded.       *)
RetireCandidates(branches, then) ==
  /\ preparing' = preparing \ branches
  /\ retiring' = retiring \cup branches
  /\ cands' = cands \ branches
  /\ obsolete' = branches
  /\ at' = then
  /\ UNCHANGED <<live, failed, attached, stray>>

(* Mutant: the branches in hand are discarded, but not marked as retiring. *)
DropLive(then) ==
  /\ live' = {}
  /\ obsolete' = live
  /\ at' = then
  /\ UNCHANGED <<preparing, retiring, failed, attached, stray, cands>>

(* retire_all_live *)
RetireLive(then) ==
  /\ live' = {}
  /\ retiring' = retiring \cup live
  /\ obsolete' = live
  /\ at' = then
  /\ UNCHANGED <<preparing, failed, attached, stray, cands>>

Discard(then) ==
  /\ attached' = attached \ obsolete
  /\ retiring' = retiring \ obsolete
  /\ failed' = failed \ obsolete
  /\ obsolete' = {}
  /\ at' = then
  /\ UNCHANGED <<live, preparing, stray, cands>>

(* attach and attach_paused: registered first, then linked and started.    *)
Attach(branch, then) ==
  /\ branch \notin attached
  /\ preparing' = preparing \cup {branch}
  /\ attached' = attached \cup {branch}
  /\ cands' = cands \cup {branch}
  /\ at' = then
  /\ UNCHANGED <<live, retiring, failed, stray, obsolete>>

(* attach_inner fails before there is a branch to register: it leaves      *)
(* nothing, or, once its elements are in the graph, leaves them all.       *)
BuildFails == stray' \in {stray, TRUE} /\ UNCHANGED <<attached, obsolete>>

(* What cannot be linked to the mixer or started is unregistered, then     *)
(* discarded.                                                              *)
AttachFails(branch) ==
  /\ Spend("faults")
  /\ \/ attached' = attached \cup {branch} /\ obsolete' = {branch} /\ UNCHANGED stray
     \/ BuildFails
  /\ at' = "loose"
  /\ UNCHANGED <<live, preparing, retiring, failed, cands>>

Failed == IF req.kind = "initial" \/ cands # {} THEN "rollback" ELSE "end"

Unchanged == UNCHANGED <<active, state, req, prev, cancelled, blame>>

-----------------------------------------------------------------------------
(* The beginning of an operation.                                          *)

Requests ==
  LET gens == 1 .. MaxGens
      new == MaxGens - left.gens + 1
  IN  {[kind |-> "initial", gen |-> new, cur |-> c, next |-> n,
        expGen |-> 0, expCur |-> None, expNext |-> None] :
         c \in Tracks, n \in Tracks \cup {None}}
      \cup {[kind |-> "active", gen |-> new, cur |-> c, next |-> n,
             expGen |-> g, expCur |-> e, expNext |-> None] :
              c \in Tracks, n \in Tracks \cup {None}, g \in gens, e \in Tracks}

Rolls ==
  {[kind |-> "roll", gen |-> g, cur |-> c, next |-> n, expGen |-> 0, expCur |-> None, expNext |-> e] :
     g \in 1 .. MaxGens, c \in Tracks, n \in Tracks \cup {None}, e \in Tracks \cup {None}}

(* A plan is refused at the door unless it was made for the plan on air.   *)
BeginReplace ==
  /\ at = "idle"
  /\ Spend("gens")
  /\ \E r \in Requests :
       /\ r.cur # r.next
       /\ IF FitsReplace(r)
          THEN /\ req' = r
               /\ verdict' = "open"
               /\ cancelled' = "no"
               /\ IF r.kind = "initial" THEN RetireLive("clear") /\ UNCHANGED prev
                  ELSE /\ at' = "attach"
                       /\ prev' = state
                       /\ UNCHANGED <<registry, holding>>
          ELSE verdict' = "refused" /\ UNCHANGED <<req, cancelled, registry, holding, at, prev>>
  /\ UNCHANGED <<active, state, blame>>

(* The branches of the plan are looked up together with it; without a      *)
(* replacement the staged next is dropped at once.                         *)
BeginRoll ==
  /\ at = "idle"
  /\ Spend("rolls")
  /\ \E r \in Rolls :
       /\ r.next \notin {r.cur, r.expNext} \cup {b.track : b \in live} \/ r.next = None
       /\ r.next # None \/ r.expNext # None
       /\ IF /\ FitsRoll(r)
             /\ Branch(r.cur, r.gen) \in live
             /\ r.expNext = None \/ \E b \in live : b.track = r.expNext
          THEN /\ req' = r
               /\ verdict' = "open"
               /\ at' = IF r.next = None THEN "unstage" ELSE "attach"
          ELSE verdict' = "refused" /\ UNCHANGED <<req, at>>
  /\ UNCHANGED <<active, registry, state, holding, prev, cancelled, blame>>

BeginStop ==
  /\ at = "idle"
  /\ req' = [NoRequest EXCEPT !.kind = "stop"]
  /\ verdict' = "open"
  /\ RetireLive("halt")
  /\ UNCHANGED <<active, state, prev, cancelled, blame, left>>

(* A change of state, alone. *)
SetPlaying ==
  /\ at = "idle"
  /\ state' \in {"playing", "paused"}
  /\ UNCHANGED <<active, registry, req, verdict, at, holding, prev, cancelled, blame, left>>

(* A failed sink replacement whose rollback fails too ends in force_stopped. *)
BeginForceStop ==
  /\ at = "idle"
  /\ state = "playing"
  /\ Spend("faults")
  /\ req' = [NoRequest EXCEPT !.kind = "sink"]
  /\ verdict' = "open"
  /\ RetireLive("halt")
  /\ UNCHANGED <<active, state, prev, cancelled, blame>>

-----------------------------------------------------------------------------
(* The steps of an operation.                                              *)

Clear == at = "clear" /\ Discard("attach") /\ UNCHANGED <<verdict, left>> /\ Unchanged

AfterAttach ==
  IF req.kind = "roll" THEN "configure"
  ELSE IF req.kind = "active" /\ req.next # None THEN "attachNext" ELSE "pause"

AttachCurrent ==
  /\ at = "attach"
  /\ LET b == Branch(IF req.kind = "roll" THEN req.next ELSE req.cur, req.gen)
     IN  \/ Attach(b, AfterAttach) /\ UNCHANGED left
         \/ AttachFails(b)
  /\ UNCHANGED verdict /\ Unchanged

(* replace_initial attaches the next track only when the length of the     *)
(* current one is known.                                                   *)
AttachNext ==
  /\ at = "attachNext"
  /\ req.kind = "initial" => Sound
  /\ \/ Attach(Branch(req.next, req.gen), IF req.kind = "initial" THEN "configure" ELSE "pause")
        /\ UNCHANGED left
     \/ AttachFails(Branch(req.next, req.gen))
     \/ req.kind = "initial" /\ at' = "configure" /\ UNCHANGED <<registry, holding, left>>
  /\ UNCHANGED verdict /\ Unchanged

Unattach ==
  /\ at = "loose"
  /\ Discard(Failed)
  /\ verdict' = "refused"
  /\ UNCHANGED left /\ Unchanged

(* A check found the replacement cancelled or a candidate failed, or a     *)
(* call of the graph fails.                                                *)
GiveUp ==
  /\ at \in {"pause", "attachNext", "configure", "play", "commit"}
  /\ \/ /\ ~ Sound
        /\ req.kind = "initial" \/ (req.kind = "active" /\ at \in {"configure", "commit"})
        /\ UNCHANGED left
     \/ Spend("faults")
  /\ verdict' = "refused"
  /\ at' = "rollback"
  /\ UNCHANGED <<registry, holding>> /\ Unchanged

Pause ==
  /\ at = "pause"
  /\ req.kind = "initial" => Sound
  /\ state' = "paused"
  /\ at' = IF req.kind = "initial" /\ req.next # None THEN "attachNext" ELSE "configure"
  /\ UNCHANGED <<active, registry, req, verdict, holding, prev, cancelled, blame, left>>

(* Durations, offsets and the release of the gates.  A replacement of the  *)
(* plan drops the next candidate when the current length is unknown; a     *)
(* roll looks at the plan again after it waited for the durations.         *)
Configure ==
  /\ at = "configure"
  /\ Replacing => Sound
  /\ \/ /\ req.kind = "roll" /\ ~ FitsRoll(req)
        /\ at' = "rollback"
        /\ verdict' = "refused"
        /\ UNCHANGED <<registry, holding>>
     \/ /\ req.kind = "active" /\ Cardinality(cands) > 1
        /\ RetireCandidates({Branch(req.next, req.gen)}, "excess")
        /\ UNCHANGED verdict
     \/ /\ req.kind = "roll" => FitsRoll(req)
        /\ at' = IF req.kind = "initial" THEN "play" ELSE "commit"
        /\ UNCHANGED <<registry, holding, verdict>>
  /\ UNCHANGED left /\ Unchanged

DiscardExcess == at = "excess" /\ Discard("commit") /\ UNCHANGED <<verdict, left>> /\ Unchanged

StartPlaying ==
  /\ at = "play"
  /\ Sound
  /\ state' = "playing"
  /\ at' = "commit"
  /\ UNCHANGED <<active, registry, req, verdict, holding, prev, cancelled, blame, left>>

Adopted == [gen |-> req.gen, cur |-> req.cur,
            next |-> IF Branch(req.next, req.gen) \in cands THEN req.next ELSE None]

(* Mutant: the plan is not looked at again. *)
CommitReplaceBlind ==
  /\ at = "commit"
  /\ Replacing
  /\ active' = Adopted
  /\ preparing' = preparing \ cands
  /\ retiring' = retiring \cup live
  /\ obsolete' = live
  /\ live' = cands
  /\ cands' = {}
  /\ verdict' = "adopted"
  /\ at' = IF req.kind = "initial" THEN "end" ELSE "teardown"
  /\ UNCHANGED <<failed, attached, stray, state, req, prev, cancelled, blame, left>>

(* The candidates become live and their plan goes on the air, under the    *)
(* locks of both, after a last look at them.                               *)
CommitReplace ==
  /\ at = "commit"
  /\ Replacing
  /\ IF Sound /\ FitsReplace(req)
     THEN /\ active' = Adopted
          /\ preparing' = preparing \ cands
          /\ retiring' = retiring \cup live
          /\ obsolete' = live
          /\ live' = cands
          /\ cands' = {}
          /\ verdict' = "adopted"
          /\ at' = IF req.kind = "initial" THEN "end" ELSE "teardown"
          /\ UNCHANGED <<failed, attached, stray>>
     ELSE /\ verdict' = "refused"
          /\ at' = "rollback"
          /\ UNCHANGED <<active, registry, holding>>
  /\ UNCHANGED <<state, req, prev, cancelled, blame, left>>

(* The branch a roll takes down: the expected next, or whatever is live    *)
(* beside the current.                                                     *)
Displaced ==
  {b \in live : IF req.expNext # None THEN b.track = req.expNext ELSE b.track # req.cur}

CommitRoll ==
  /\ at \in {"commit", "unstage"}
  /\ req.kind = "roll"
  /\ IF FitsRoll(req) /\ NoneFailed
     THEN /\ active' = [active EXCEPT !.next = req.next]
          /\ preparing' = preparing \ cands
          /\ retiring' = retiring \cup Displaced
          /\ obsolete' = Displaced
          /\ live' = (live \ Displaced) \cup cands
          /\ cands' = {}
          /\ verdict' = "adopted"
          /\ at' = "teardown"
          /\ UNCHANGED <<failed, attached, stray>>
     ELSE /\ verdict' = "refused"
          /\ at' = IF at = "commit" THEN "rollback" ELSE "end"
          /\ UNCHANGED <<active, registry, holding>>
  /\ UNCHANGED <<state, req, prev, cancelled, blame, left>>

Teardown ==
  /\ at = "teardown"
  /\ Discard(IF req.kind = "active" THEN "resume" ELSE "end")
  /\ UNCHANGED <<verdict, left>> /\ Unchanged

(* The state of before is restored; a new plan that cannot be resumed is   *)
(* stopped by force.                                                       *)
Resume ==
  /\ at = "resume"
  /\ \/ state' = prev /\ at' = "end" /\ UNCHANGED <<registry, holding, left>>
     \/ Spend("faults") /\ RetireLive("halt") /\ UNCHANGED state
  /\ UNCHANGED <<active, req, verdict, prev, cancelled, blame>>

Rollback ==
  /\ at = "rollback"
  /\ RetireCandidates(cands, "discard")
  /\ UNCHANGED <<verdict, left>> /\ Unchanged

DiscardCandidates ==
  /\ at = "discard"
  /\ Discard(IF req.kind = "initial" THEN "forced"
             ELSE IF req.kind = "active" /\ state # prev THEN "restore" ELSE "end")
  /\ UNCHANGED <<verdict, left>> /\ Unchanged

Restore ==
  /\ at = "restore"
  /\ at' = "end"
  /\ \/ state' = prev /\ UNCHANGED left
     \/ Spend("faults") /\ UNCHANGED state
  /\ UNCHANGED <<active, registry, req, verdict, holding, prev, cancelled, blame>>

ForceStop == at = "forced" /\ RetireLive("halt") /\ UNCHANGED <<verdict, left>> /\ Unchanged

(* The end of force_stopped and of stop. *)
Halt ==
  /\ at = "halt"
  /\ Discard("end")
  /\ active' = NoPlan
  /\ verdict' = IF req.kind = "stop" THEN "adopted" ELSE "refused"
  /\ \/ state' = "stopped" /\ UNCHANGED left
     \/ req.kind = "stop" /\ Spend("faults") /\ UNCHANGED state
  /\ UNCHANGED <<req, prev, cancelled, blame>>

(* ReplacementCleanup and PendingEpochCleanup. *)
End ==
  /\ at = "end"
  /\ at' = "idle"
  /\ req' = NoRequest
  /\ cancelled' = "no"
  /\ UNCHANGED <<active, registry, state, verdict, holding, prev, blame, left>>

Work ==
  \/ Clear \/ AttachCurrent \/ AttachNext \/ Unattach \/ GiveUp \/ Pause \/ Configure
  \/ DiscardExcess \/ StartPlaying \/ CommitReplace \/ CommitRoll \/ Teardown \/ Resume
  \/ Rollback \/ DiscardCandidates \/ Restore \/ ForceStop \/ Halt \/ End

-----------------------------------------------------------------------------
(* The streaming threads and the bus.                                      *)

Streams ==
  UNCHANGED <<live, preparing, retiring, attached, stray, state, req, verdict, at, holding, prev>>

(* The buffer at the clock gate is past the handover of the plan. *)
Handover ==
  /\ state # "stopped"
  /\ active.next # None
  /\ active' = [gen |-> active.gen, cur |-> active.next, next |-> None]
  /\ UNCHANGED <<failed, cancelled, blame, left>>
  /\ Streams

EndOfStream ==
  /\ active # NoPlan
  /\ Spend("errors")
  /\ cancelled' = IF \/ req.kind = "initial" /\ active.gen = req.gen /\ active.cur = req.cur
                     \/ req.kind = "active" /\ active.gen = req.expGen /\ active.cur = req.expCur
                  THEN "yes" ELSE cancelled
  /\ UNCHANGED <<active, failed, blame>>
  /\ Streams

Unregistered ==
  IF active # NoPlan \/ req.kind \in {"initial", "active", "roll"} THEN "fatal"
  ELSE "ignored"

Told(branch) ==
  IF branch \in live \cup preparing THEN "decode"
  ELSE IF branch \in retiring THEN "suppressed"
  ELSE Unregistered

(* The error of a stray element. *)
StrayError ==
  /\ stray
  /\ Spend("errors")
  /\ blame' = [from |-> "stray", as |-> Unregistered]
  /\ UNCHANGED <<active, failed, cancelled>>
  /\ Streams

(* The error of a branch: of the plan, of a candidate, of one that retires. *)
BranchError ==
  /\ Spend("errors")
  /\ \E b \in attached :
       /\ failed' = IF b \in preparing \ live THEN failed \cup {b} ELSE failed
       /\ cancelled' = IF Replacing /\ b \in live \cup preparing THEN "yes" ELSE cancelled
       /\ blame' = [from |-> IF at = "loose" /\ b \in obsolete THEN "loose" ELSE "branch",
                    as |-> Told(b)]
  /\ UNCHANGED active
  /\ Streams

Next ==
  \/ BeginReplace \/ BeginRoll \/ BeginStop \/ SetPlaying \/ BeginForceStop
  \/ Work \/ Handover \/ EndOfStream \/ BranchError \/ StrayError

Spec == Init /\ [][Next]_vars

-----------------------------------------------------------------------------
(* What the pipeline keeps.                                                *)

Promise == INSTANCE Playout WITH plan <- active, request <- req

(* The pipeline implements what Playout promises. *)
KeepsPromise == Promise!Spec

(* A candidate whose decoding failed before its plan went on the air never *)
(* becomes part of it, however late the bus tells.                         *)
NoFailedBranchIsLive == live \cap failed = {}

(* What is on the air and what is staged have their branches in the graph, *)
(* and nothing else is live but one branch that has ended; while the plan  *)
(* is being taken down no promise is made.                                 *)
PlanIsAttached ==
  at # "halt" =>
    /\ active # NoPlan => Branch(active.cur, active.gen) \in live
    /\ active.next # None => Branch(active.next, active.gen) \in live
    /\ live \subseteq attached
    /\ Cardinality(live) <= 2

(* The two together: the branches that count are those of the plan, they   *)
(* are in the graph, and a branch that failed is none of them.             *)
PlanIsSound == NoFailedBranchIsLive /\ PlanIsAttached

(* Whatever way an operation ends, it leaves no candidate registered, no   *)
(* branch retiring and no branch in the graph that belongs to no plan; and *)
(* force_stopped is never entered with a candidate registered.  What an    *)
(* attach_inner left that failed half-way is no branch: stray tells of it. *)
NothingLeftBehind ==
  /\ at = "idle" => preparing = {} /\ retiring = {} /\ attached = live
  /\ at = "halt" => preparing = {}

(* The error of a branch is never taken for one of the whole pipeline,     *)
(* which would restart the station, but while a candidate that could not   *)
(* be attached is being discarded, or when the element is a stray one.     *)
BlameIsJust == blame.as = "fatal" => blame.from \in {"loose", "stray"}
=============================================================================
